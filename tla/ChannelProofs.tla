---------------------------- MODULE ChannelProofs ----------------------------
(***************************************************************************)
(* FiberChannel: an inductive invariant, kept by every critical section of *)
(* its methods, by Close and by every race with a context that is done;    *)
(* and that a channel implements BoundedFifo.                              *)
(***************************************************************************)
EXTENDS FiberChannel, WaiterProofs

\* The queues list the parked fibers, each one once.
QueueInv ==
  /\ WaiterInv /\ pc \in [Fibers -> PC] /\ waiter \in [Fibers -> WaiterRecord]
  /\ IsQueue(senders) /\ IsQueue(receivers)
  /\ Elements(senders) = {f \in Parked : waiter[f].op = "send"}
  /\ Elements(receivers) = {f \in Parked : waiter[f].op = "recv"}

\* Senders wait for a full buffer, receivers for an empty channel, and nobody on
\* a closed one.
BufferInv ==
  /\ buffer \in Seq(Values) /\ capacity \in Capacities /\ Len(buffer) <= capacity
  /\ closed \in BOOLEAN
  /\ senders # <<>> => Len(buffer) = capacity /\ receivers = <<>> /\ ~closed
  /\ receivers # <<>> => buffer = <<>> /\ ~closed

\* The values taken are in the order of the Send calls, and those of the blocked
\* senders come after them in the same order.
ValueInv ==
  /\ sends \in 0..MaxSends /\ accepted \in Seq(Values)
  /\ \A i \in DOMAIN accepted : accepted[i] <= sends
  /\ \A i, j \in DOMAIN accepted : i < j => accepted[i] < accepted[j]
  /\ \A i \in DOMAIN senders, j \in DOMAIN accepted : accepted[j] < waiter[senders[i]].value
  /\ \A i, j \in DOMAIN senders : i < j => waiter[senders[i]].value < waiter[senders[j]].value

\* The values taken are those given out and then those kept.
FifoInv == delivered \in Seq(Values) /\ accepted = delivered \o buffer

ShapeInv == QueueInv /\ BufferInv
OrderInv == ValueInv /\ FifoInv

\* The fibers inside a Send that waits or did wait.
Sending == {f \in Fibers : pc[f] \in Waiting \cup {"withdrawn"} /\ waiter[f].op = "send"}

\* A Send that has not returned has a value of its own with no result yet, and
\* the channel has taken it exactly if the sender was woken without an error.
SendInv ==
  /\ outcome \in [Values -> {"none", "nil", "closed", "full", "ctx"}]
  /\ \A v \in Values : outcome[v] # "none" => v <= sends
  /\ \A f \in Sending :
       /\ waiter[f].value \in 1..sends /\ outcome[waiter[f].value] = "none"
       /\ waiter[f].value \in Elements(accepted) <=> f \in Granted /\ waiter[f].err = "nil"
       /\ \A g \in Sending : waiter[f].value = waiter[g].value => f = g
  /\ ResultsHonest

\* The receivers that were woken with a value and have not returned it, and
\* those among them that have v.
Bearing == {f \in Granted : waiter[f].op = "recv" /\ waiter[f].err = "nil"}
Carrying(v) == {f \in Bearing : waiter[f].value = v}

\* Every value given out was returned once or is carried by one receiver.
ReceiveInv ==
  /\ got \in [Values -> Nat]
  /\ \A f \in Bearing : waiter[f].value \in Values
  /\ \A v \in Values :
       got[v] + Cardinality(Carrying(v)) = IF v \in Elements(delivered) THEN 1 ELSE 0

ChannelInv == ShapeInv /\ OrderInv /\ SendInv /\ ReceiveInv

-----------------------------------------------------------------------------
(* Sequences and records *)

\* append of one value to a slice.
LEMMA AppendOne ==
  ASSUME NEW S, NEW q \in Seq(S), NEW v \in S
  PROVE  /\ Append(q, v) \in Seq(S) /\ Len(Append(q, v)) = Len(q) + 1
         /\ DOMAIN Append(q, v) = 1..Len(q) + 1 /\ DOMAIN q = 1..Len(q) /\ Len(q) \in Nat
         /\ \A i \in 1..Len(q) : Append(q, v)[i] = q[i]
         /\ Append(q, v)[Len(q) + 1] = v
         /\ Elements(Append(q, v)) = Elements(q) \cup {v}
BY DEF Elements

\* The values of a slice are numbers.
LEMMA Entries ==
  ASSUME NEW q \in Seq(Values)
  PROVE  /\ DOMAIN q = 1..Len(q) /\ Len(q) \in Nat
         /\ \A i \in DOMAIN q : q[i] \in Int /\ q[i] \in Values
<1>1. DOMAIN q = 1..Len(q) /\ Len(q) \in Nat /\ \A i \in DOMAIN q : q[i] \in Values
  OBVIOUS
<1>2. \A v \in Values : v \in Int
  BY DEF Values
<1> QED  BY <1>1, <1>2

\* buffer[0] and buffer[1:].
LEMMA TakeOne ==
  ASSUME NEW S, NEW q \in Seq(S), q # <<>>
  PROVE  /\ Head(q) \in S /\ Tail(q) \in Seq(S) /\ Len(Tail(q)) = Len(q) - 1
         /\ Len(q) \in Nat /\ Len(q) > 0
         /\ DOMAIN Tail(q) = 1..Len(q) - 1 /\ Head(q) = q[1]
         /\ \A i \in 1..Len(q) - 1 : Tail(q)[i] = q[i + 1]
OBVIOUS

\* A value appended to the buffer is appended to everything that was accepted.
LEMMA AppendBehind ==
  ASSUME NEW d \in Seq(Values), NEW b \in Seq(Values), NEW v \in Values
  PROVE  Append(d \o b, v) = d \o Append(b, v)
OBVIOUS

\* Values given out, then values kept: taking one in at the end, or moving one
\* over from the kept ones to the ones given out.
LEMMA FifoLaws ==
  ASSUME NEW S, NEW d \in Seq(S), NEW b \in Seq(S), NEW v \in S
  PROVE  /\ Append(d \o b, v) = d \o Append(b, v)
         /\ d \o <<>> = d
         /\ b # <<>> => /\ Append(d, Head(b)) \o Tail(b) = d \o b
                       /\ (d \o b)[Len(d) + 1] = Head(b)
         /\ Len(d \o b) = Len(d) + Len(b) /\ Len(d) \in Nat /\ Len(b) \in Nat
         /\ \A i \in 1..Len(d) : (d \o b)[i] = d[i]
<1>1. Append(d \o b, v) = d \o Append(b, v)
  OBVIOUS
<1>2. d \o <<>> = d
  OBVIOUS
<1>3. ASSUME b # <<>> PROVE Append(d, Head(b)) \o Tail(b) = d \o b
  BY <1>3
<1>4. ASSUME b # <<>> PROVE (d \o b)[Len(d) + 1] = Head(b)
  BY <1>4
<1>5. Len(d \o b) = Len(d) + Len(b) /\ Len(d) \in Nat /\ Len(b) \in Nat
  OBVIOUS
<1>6. \A i \in 1..Len(d) : (d \o b)[i] = d[i]
  OBVIOUS
<1> QED  BY <1>1, <1>2, <1>3, <1>4, <1>5, <1>6, Zenon

-----------------------------------------------------------------------------
(* What the invariant says of the next value in and out *)

\* A value above all those taken keeps the order when it is taken.
LEMMA Accept ==
  ASSUME OrderInv, NEW v \in Values, \A j \in DOMAIN accepted : accepted[j] < v,
         accepted' = Append(accepted, v)
  PROVE  /\ accepted' \in Seq(Values) /\ Elements(accepted)' = Elements(accepted) \cup {v}
         /\ v \notin Elements(accepted)
         /\ \A i, j \in DOMAIN accepted' : i < j => accepted'[i] < accepted'[j]
         /\ v <= sends' /\ sends <= sends' /\ sends' \in Int
              => \A i \in DOMAIN accepted' : accepted'[i] <= sends'
         /\ \A m \in Values : (\A j \in DOMAIN accepted : accepted[j] < m) /\ v < m
                             => \A j \in DOMAIN accepted' : accepted'[j] < m
<1>1. accepted \in Seq(Values) /\ Values \subseteq Int /\ sends \in Int
  BY ChannelAssumption DEF OrderInv, ValueInv, FifoInv, Values
<1>2. /\ accepted' \in Seq(Values) /\ Elements(accepted)' = Elements(accepted) \cup {v}
      /\ DOMAIN accepted' = 1..Len(accepted) + 1 /\ DOMAIN accepted = 1..Len(accepted)
      /\ Len(accepted) \in Nat
      /\ \A i \in 1..Len(accepted) : accepted'[i] = accepted[i]
      /\ accepted'[Len(accepted) + 1] = v
  BY <1>1, AppendOne
<1>3. v \notin Elements(accepted)
  BY <1>1, Entries DEF Elements
<1>4. v \in Int /\ \A i \in 1..Len(accepted) : accepted[i] \in Int
  BY <1>1, Entries
<1>0. /\ \A i, j \in DOMAIN accepted : i < j => accepted[i] < accepted[j]
      /\ \A i \in DOMAIN accepted : accepted[i] <= sends
  BY Zenon DEF OrderInv, ValueInv, FifoInv
<1>5. \A i, j \in DOMAIN accepted' : i < j => accepted'[i] < accepted'[j]
  <2> SUFFICES ASSUME NEW i \in DOMAIN accepted', NEW j \in DOMAIN accepted', i < j
               PROVE  accepted'[i] < accepted'[j]
    OBVIOUS
  <2>1. i \in 1..Len(accepted) /\ accepted'[i] = accepted[i]
    BY <1>2
  <2>2. CASE j = Len(accepted) + 1
    BY <1>2, <2>1, <2>2
  <2>3. CASE j # Len(accepted) + 1
    BY <1>0, <1>2, <2>1, <2>3
  <2> QED  BY <2>2, <2>3
<1>6. ASSUME v <= sends', sends <= sends', sends' \in Int
      PROVE  \A i \in DOMAIN accepted' : accepted'[i] <= sends'
  BY <1>0, <1>1, <1>2, <1>4, <1>6
<1>7. \A m \in Values : (\A j \in DOMAIN accepted : accepted[j] < m) /\ v < m
                       => \A j \in DOMAIN accepted' : accepted'[j] < m
  BY <1>2, <1>4
<1> QED  BY <1>2, <1>3, <1>5, <1>6, <1>7

\* The number of the next Send call is a fresh value.
LEMMA NextSend ==
  ASSUME OrderInv, SendInv, sends < MaxSends
  PROVE  /\ sends \in Nat /\ sends + 1 \in Values /\ sends + 1 \in 0..MaxSends
         /\ \A j \in DOMAIN accepted : accepted[j] < sends + 1
         /\ sends + 1 \notin Elements(accepted) /\ outcome[sends + 1] = "none"
         /\ \A f \in Sending : waiter[f].value # sends + 1 /\ waiter[f].value \in 1..sends + 1
<1>1. /\ sends \in Nat /\ sends + 1 \in Values /\ sends + 1 \in 0..MaxSends
      /\ accepted \in Seq(Values) /\ Values \subseteq Int
  BY ChannelAssumption DEF OrderInv, ValueInv, FifoInv, Values
<1>2. \A j \in DOMAIN accepted : accepted[j] < sends + 1
  BY <1>1, Entries DEF OrderInv, ValueInv, FifoInv
<1>3. sends + 1 \notin Elements(accepted)
  BY <1>1, <1>2 DEF Elements
<1>4. outcome[sends + 1] = "none"
  BY <1>1 DEF SendInv
<1>5. \A f \in Sending : waiter[f].value # sends + 1 /\ waiter[f].value \in 1..sends + 1
  BY <1>1 DEF SendInv
<1> QED  BY <1>1, <1>2, <1>3, <1>4, <1>5

\* The oldest blocked sender has the next value.
LEMMA FirstSender ==
  ASSUME ShapeInv, OrderInv, SendInv, senders # <<>>, NEW h, h = Head(senders),
         NEW v, v = waiter[h].value
  PROVE  /\ h \in Parked /\ h \in Fibers /\ h \in Sending /\ waiter[h].op = "send"
         /\ v \in Values /\ v <= sends /\ outcome[v] = "none"
         /\ \A j \in DOMAIN accepted : accepted[j] < v
         /\ \A i \in DOMAIN Tail(senders) :
              /\ v < waiter[Tail(senders)[i]].value /\ Tail(senders)[i] \in Fibers \ {h}
              /\ waiter[Tail(senders)[i]].value \in Values
         /\ \A i, j \in DOMAIN Tail(senders) :
              i < j => waiter[Tail(senders)[i]].value < waiter[Tail(senders)[j]].value
         /\ ~closed /\ Len(buffer) = capacity /\ receivers = <<>>
<1>1. /\ h \in Elements(senders) /\ IsQueue(Tail(senders))
      /\ Elements(Tail(senders)) = Elements(senders) \ {h}
  BY QueueTail DEF ShapeInv, QueueInv, BufferInv
<1>2. \A g \in Elements(senders) : g \in Parked /\ g \in Fibers /\ waiter[g].op = "send" /\ g \in Sending
  BY DEF ShapeInv, QueueInv, BufferInv, Sending, Parked
<1>3. \A g \in Elements(senders) : waiter[g].value \in Values /\ waiter[g].value <= sends
                                   /\ outcome[waiter[g].value] = "none"
  BY <1>2, ChannelAssumption DEF SendInv, OrderInv, ValueInv, FifoInv, Values
<1>4. /\ senders \in Seq(Fibers) /\ DOMAIN senders = 1..Len(senders) /\ Len(senders) \in Nat
      /\ 1 \in DOMAIN senders /\ senders[1] = h
      /\ DOMAIN Tail(senders) = 1..Len(senders) - 1
      /\ \A i \in 1..Len(senders) - 1 : Tail(senders)[i] = senders[i + 1] /\ i + 1 \in 1..Len(senders)
  BY DEF ShapeInv, QueueInv, BufferInv, IsQueue
<1>5. \A j \in DOMAIN accepted : accepted[j] < v
  BY <1>4 DEF OrderInv, ValueInv, FifoInv
<1>6. ASSUME NEW i \in DOMAIN Tail(senders)
      PROVE  /\ v < waiter[Tail(senders)[i]].value /\ Tail(senders)[i] \in Fibers \ {h}
             /\ waiter[Tail(senders)[i]].value \in Values
  <2>1. Tail(senders)[i] \in Elements(Tail(senders))
    BY DEF Elements
  <2>2. 1 < i + 1 /\ i + 1 \in DOMAIN senders /\ Tail(senders)[i] = senders[i + 1]
    BY <1>4
  <2>3. v < waiter[senders[i + 1]].value
    BY <1>4, <2>2, Zenon DEF OrderInv, ValueInv, FifoInv
  <2> QED  BY <1>1, <1>2, <1>3, <2>1, <2>2, <2>3
<1>7. ASSUME NEW i \in DOMAIN Tail(senders), NEW j \in DOMAIN Tail(senders), i < j
      PROVE  waiter[Tail(senders)[i]].value < waiter[Tail(senders)[j]].value
  <2>1. /\ i + 1 < j + 1 /\ i + 1 \in DOMAIN senders /\ j + 1 \in DOMAIN senders
        /\ Tail(senders)[i] = senders[i + 1] /\ Tail(senders)[j] = senders[j + 1]
    BY <1>4, <1>7
  <2> QED  BY <2>1 DEF OrderInv, ValueInv, FifoInv
<1>8. ~closed /\ Len(buffer) = capacity /\ receivers = <<>>
  BY DEF ShapeInv, QueueInv, BufferInv
<1> QED  BY <1>1, <1>2, <1>3, <1>5, <1>6, <1>7, <1>8

\* The oldest kept value was not given out before.
LEMMA HeadIsNew ==
  ASSUME OrderInv, buffer \in Seq(Values), buffer # <<>>
  PROVE  Head(buffer) \in Values /\ Head(buffer) \notin Elements(delivered)
<1>1. /\ accepted = delivered \o buffer /\ delivered \in Seq(Values)
      /\ Head(buffer) \in Values
  BY TakeOne DEF OrderInv, ValueInv, FifoInv
<1>2. /\ accepted[Len(delivered) + 1] = Head(buffer)
      /\ \A i \in 1..Len(delivered) : accepted[i] = delivered[i]
      /\ Len(accepted) = Len(delivered) + Len(buffer) /\ Len(delivered) \in Nat /\ Len(buffer) \in Nat
  BY <1>1, FifoLaws
<1>3. Len(delivered) + 1 \in DOMAIN accepted /\ 1..Len(delivered) \subseteq DOMAIN accepted
  <2>1. accepted \in Seq(Values) /\ Len(buffer) > 0
    BY TakeOne DEF OrderInv, ValueInv, FifoInv
  <2> QED  BY <1>2, <2>1, Entries
<1>4. \A i \in DOMAIN delivered : delivered[i] < Head(buffer)
  <2>1. DOMAIN delivered = 1..Len(delivered)
    BY <1>1, Entries
  <2>2. \A i, j \in DOMAIN accepted : i < j => accepted[i] < accepted[j]
    BY Zenon DEF OrderInv, ValueInv, FifoInv
  <2>3. \A i \in 1..Len(delivered) : i < Len(delivered) + 1
    BY <1>2
  <2> QED  BY <1>2, <1>3, <2>1, <2>2, <2>3
<1>5. Head(buffer) \notin Elements(delivered)
  <2>1. Head(buffer) \in Int
    BY <1>1 DEF Values
  <2> QED  BY <1>4, <2>1 DEF Elements
<1> QED  BY <1>1, <1>5

-----------------------------------------------------------------------------
(* What a step keeps that does not touch it *)

\* A step that parks and wakes nobody.
LEMMA QueueFrame ==
  ASSUME QueueInv, WaiterInv', pc' \in [Fibers -> PC], Parked' = Parked,
         UNCHANGED <<senders, receivers, waiter>>
  PROVE  QueueInv'
BY Zenon DEF QueueInv

\* It keeps the shape of a channel it does not touch.
LEMMA ShapeFrame ==
  ASSUME ShapeInv, WaiterInv', pc' \in [Fibers -> PC], Parked' = Parked,
         UNCHANGED <<chanVars, waiter>>
  PROVE  ShapeInv'
<1>1. QueueInv'
  BY QueueFrame DEF ShapeInv, chanVars
<1> QED  BY <1>1, Zenon DEF ShapeInv, BufferInv, chanVars

\* A step that moves no value and no sender.
LEMMA OrderFrame ==
  ASSUME OrderInv, UNCHANGED <<buffer, senders, waiter, sends, accepted, delivered>>
  PROVE  OrderInv'
BY Zenon DEF OrderInv, ValueInv, FifoInv

\* A step that takes no value and returns from no Send.
LEMMA SendFrame ==
  ASSUME SendInv, UNCHANGED <<outcome, accepted, sends>>, Sending' = Sending,
         \A f \in Sending : waiter'[f] = waiter[f] /\ (f \in Granted' <=> f \in Granted)
  PROVE  SendInv'
<1>1. Elements(accepted)' = Elements(accepted)
  BY Zenon DEF Elements
<1>2. ASSUME NEW f \in Sending'
      PROVE  (/\ waiter[f].value \in 1..sends /\ outcome[waiter[f].value] = "none"
              /\ waiter[f].value \in Elements(accepted) <=> f \in Granted /\ waiter[f].err = "nil"
              /\ \A g \in Sending : waiter[f].value = waiter[g].value => f = g)'
  BY <1>1 DEF SendInv
<1> QED  BY <1>1, <1>2, Zenon DEF SendInv, ResultsHonest

\* A step that gives nothing out and keeps the receivers with a value.
LEMMA ReceiveFrame ==
  ASSUME ReceiveInv, UNCHANGED <<got, delivered>>, Bearing' = Bearing,
         \A f \in Bearing : waiter'[f].value = waiter[f].value
  PROVE  ReceiveInv'
<1>1. \A v \in Values : Carrying(v)' = Carrying(v)
  BY DEF Carrying
<1>2. Elements(delivered)' = Elements(delivered)
  BY Zenon DEF Elements
<1>3. \A f \in Bearing' : waiter'[f].value \in Values
  BY DEF ReceiveInv
<1> QED  BY <1>1, <1>2, <1>3, Zenon DEF ReceiveInv

\* A value that goes straight to the caller of Receive.
LEMMA Deliver ==
  ASSUME Counting, ReceiveInv, delivered \in Seq(Values), NEW u \in Values \ Elements(delivered),
         delivered' = Append(delivered, u), Hands(u), Bearing' = Bearing,
         \A f \in Bearing : waiter'[f].value = waiter[f].value
  PROVE  ReceiveInv'
<1>1. \A v \in Values : Carrying(v)' = Carrying(v)
  BY DEF Carrying
<1>2. Elements(delivered)' = Elements(delivered) \cup {u}
  BY AppendOne
<1>3. \A f \in Bearing' : waiter'[f].value \in Values
  BY DEF ReceiveInv
<1>4. \A v \in Values : Carrying(v) \in SUBSET Fibers
  BY DEF Carrying, Bearing, Granted
<1>5. \A v \in Values : Cardinality(Carrying(v)) \in Nat
  BY <1>4, Zenon DEF Counting
<1>6. /\ got \in [Values -> Nat] /\ got' \in [Values -> Nat]
      /\ got'[u] = got[u] + 1 /\ \A v \in Values \ {u} : got'[v] = got[v]
  BY DEF ReceiveInv, Hands
<1>7. ASSUME NEW v \in Values
      PROVE  got'[v] + Cardinality(Carrying(v)') = IF v \in Elements(delivered)' THEN 1 ELSE 0
  <2>1. got[v] + Cardinality(Carrying(v)) = IF v \in Elements(delivered) THEN 1 ELSE 0
    BY Zenon DEF ReceiveInv
  <2>2. Carrying(v)' = Carrying(v) /\ Cardinality(Carrying(v)) \in Nat /\ got[v] \in Nat
    BY <1>1, <1>5, <1>6
  <2>3. CASE v = u
    BY <1>2, <1>6, <2>1, <2>2, <2>3
  <2>4. CASE v # u
    BY <1>2, <1>6, <2>1, <2>2, <2>4
  <2> QED  BY <2>3, <2>4
<1>8. ASSUME NEW v \in Values
      PROVE  (got[v] + Cardinality(Carrying(v)) = IF v \in Elements(delivered) THEN 1 ELSE 0)'
  BY <1>7, Zenon DEF Cardinality
<1> QED  BY <1>3, <1>6, <1>8, Zenon DEF ReceiveInv

-----------------------------------------------------------------------------
(* Taking a value in *)

\* The oldest blocked sender is woken and its value taken, wherever it goes to.
LEMMA Admit ==
  ASSUME ShapeInv, OrderInv, SendInv, senders # <<>>,
         NEW h, h = Head(senders), NEW v, v = waiter[h].value,
         waiter' = [waiter EXCEPT ![h].err = "nil"], Wake({h}), senders' = Tail(senders),
         accepted' = Append(accepted, v), UNCHANGED <<pc, receivers, sends, outcome>>
  PROVE  /\ QueueInv' /\ ValueInv' /\ SendInv'
         /\ Bearing' = Bearing /\ \A f \in Bearing : waiter'[f].value = waiter[f].value
<1>0. /\ h \in Parked /\ h \in Fibers /\ h \in Sending /\ waiter[h].op = "send"
      /\ v \in Values /\ v <= sends /\ outcome[v] = "none"
      /\ \A j \in DOMAIN accepted : accepted[j] < v
      /\ ~closed /\ Len(buffer) = capacity /\ receivers = <<>>
  BY FirstSender
<1>1. /\ waiter' \in [Fibers -> WaiterRecord]
      /\ waiter'[h].op = waiter[h].op /\ waiter'[h].value = v /\ waiter'[h].err = "nil"
      /\ \A g \in Fibers \ {h} : waiter'[g] = waiter[g]
  <2>1. waiter \in [Fibers -> WaiterRecord]
    BY DEF ShapeInv, QueueInv, BufferInv
  <2> QED  BY <1>0, <2>1, Zenon DEF WaiterRecord
<1>2. WaiterInv' /\ Parked' = Parked \ {h} /\ Granted' = Granted \cup {h}
  <2>1. WaiterInv /\ pc \in [Fibers -> PC] /\ pc' \in [Fibers -> PC] /\ {h} \in SUBSET Parked
    BY <1>0 DEF ShapeInv, QueueInv, BufferInv
  <2> QED  BY <2>1, WakeStep, Zenon
<1>3. QueueInv'
  <2>1. /\ IsQueue(senders)' /\ Elements(senders)' = Elements(senders) \ {h}
        /\ IsQueue(receivers)' /\ Elements(receivers)' = Elements(receivers)
    <3>1. IsQueue(senders) /\ IsQueue(receivers)
      BY DEF ShapeInv, QueueInv, BufferInv
    <3>2. IsQueue(Tail(senders)) /\ Elements(Tail(senders)) = Elements(senders) \ {h}
      BY <3>1, QueueTail
    <3> QED  BY <3>1, <3>2, Zenon DEF IsQueue, Elements
  <2>2. \A g \in Parked' : g \in Fibers \ {h}
    BY <1>2 DEF Parked
  <2>3. Elements(senders)' = {f \in Parked' : waiter'[f].op = "send"}
    BY <1>1, <1>2, <2>1, <2>2 DEF ShapeInv, QueueInv, BufferInv
  <2>4. Elements(receivers)' = {f \in Parked' : waiter'[f].op = "recv"}
    BY <1>0, <1>1, <1>2, <2>1, <2>2 DEF ShapeInv, QueueInv, BufferInv
  <2>5. pc' \in [Fibers -> PC]
    BY DEF ShapeInv, QueueInv, BufferInv
  <2> QED  BY <1>1, <1>2, <2>1, <2>3, <2>4, <2>5, Zenon DEF QueueInv
<1>4. /\ accepted' \in Seq(Values) /\ Elements(accepted)' = Elements(accepted) \cup {v}
      /\ v \notin Elements(accepted)
      /\ \A i, j \in DOMAIN accepted' : i < j => accepted'[i] < accepted'[j]
      /\ \A i \in DOMAIN accepted' : accepted'[i] <= sends'
      /\ \A m \in Values : (\A j \in DOMAIN accepted : accepted[j] < m) /\ v < m
                          => \A j \in DOMAIN accepted' : accepted'[j] < m
  <2>1. v <= sends' /\ sends <= sends' /\ sends' \in Int
    BY <1>0, ChannelAssumption DEF OrderInv, ValueInv, FifoInv
  <2> QED  BY <1>0, <2>1, Accept, Zenon
<1>5. ValueInv'
  <2>1. ASSUME NEW i \in DOMAIN senders'
        PROVE  /\ v < waiter'[senders'[i]].value /\ waiter'[senders'[i]] = waiter[Tail(senders)[i]]
               /\ waiter'[senders'[i]].value \in Values
    <3>1. /\ v < waiter[Tail(senders)[i]].value /\ Tail(senders)[i] \in Fibers \ {h}
          /\ waiter[Tail(senders)[i]].value \in Values
      BY FirstSender
    <3> QED  BY <1>1, <3>1
  <2>2. \A i \in DOMAIN senders', j \in DOMAIN accepted : accepted[j] < waiter'[senders'[i]].value
    <3> SUFFICES ASSUME NEW i \in DOMAIN senders', NEW j \in DOMAIN accepted
                 PROVE  accepted[j] < waiter'[senders'[i]].value
      OBVIOUS
    <3>1. accepted[j] \in Int /\ v \in Int /\ waiter'[senders'[i]].value \in Int
      <4>1. accepted \in Seq(Values)
        BY Zenon DEF OrderInv, ValueInv
      <4>2. accepted[j] \in Int
        BY <4>1, Entries, Zenon
      <4>3. v \in Values /\ waiter'[senders'[i]].value \in Values
        BY <1>0, <2>1, Zenon
      <4> QED  BY <4>2, <4>3, ChannelAssumption DEF Values
    <3> QED  BY <1>0, <2>1, <3>1
  <2>3. \A i \in DOMAIN senders', j \in DOMAIN accepted' : accepted'[j] < waiter'[senders'[i]].value
    BY <1>4, <2>1, <2>2
  <2>4. ASSUME NEW i \in DOMAIN senders', NEW j \in DOMAIN senders', i < j
        PROVE  waiter'[senders'[i]].value < waiter'[senders'[j]].value
    <3>1. waiter[Tail(senders)[i]].value < waiter[Tail(senders)[j]].value
      BY <2>4, FirstSender
    <3> QED  BY <2>1, <3>1
  <2>5. sends' \in 0..MaxSends
    BY DEF OrderInv, ValueInv, FifoInv
  <2> QED  BY <1>4, <2>3, <2>4, <2>5, Zenon DEF ValueInv
<1>6. SendInv'
  <2>1. Sending' = Sending
    BY <1>1 DEF Sending
  <2>2. ASSUME NEW f \in Sending'
        PROVE  (/\ waiter[f].value \in 1..sends /\ outcome[waiter[f].value] = "none"
                /\ waiter[f].value \in Elements(accepted) <=> f \in Granted /\ waiter[f].err = "nil"
                /\ \A g \in Sending : waiter[f].value = waiter[g].value => f = g)'
    <3>1. \A g \in Sending : waiter'[g].value = waiter[g].value
      BY <1>1 DEF Sending
    <3>2. f = h => f \in Granted' /\ waiter'[f].err = "nil" /\ waiter[f].value = v
      BY <1>1, <1>2
    <3>3. f # h => /\ f \in Granted' <=> f \in Granted
                   /\ waiter'[f] = waiter[f] /\ waiter[f].value # v
      BY <1>0, <1>1, <1>2, <2>1 DEF SendInv, Sending
    <3>4. /\ waiter[f].value \in 1..sends /\ outcome[waiter[f].value] = "none"
          /\ waiter[f].value \in Elements(accepted) <=> f \in Granted /\ waiter[f].err = "nil"
          /\ \A g \in Sending : waiter[f].value = waiter[g].value => f = g
      BY <2>1, Zenon DEF SendInv
    <3>5. waiter'[f].value \in Elements(accepted)' <=> f \in Granted' /\ waiter'[f].err = "nil"
      BY <1>4, <2>1, <3>1, <3>2, <3>3, <3>4
    <3>6. /\ waiter'[f].value \in 1..sends' /\ outcome'[waiter'[f].value] = "none"
          /\ \A g \in Sending' : waiter'[f].value = waiter'[g].value => f = g
      BY <2>1, <3>1, <3>4
    <3> QED  BY <3>5, <3>6
  <2>3. ResultsHonest'
    BY <1>0, <1>4 DEF SendInv, ResultsHonest
  <2>4. /\ outcome' \in [Values -> {"none", "nil", "closed", "full", "ctx"}]
        /\ \A u \in Values : outcome'[u] # "none" => u <= sends'
    BY Zenon DEF SendInv
  <2> QED  BY <2>2, <2>3, <2>4, Zenon DEF SendInv
<1>7. Bearing' = Bearing /\ \A f \in Bearing : waiter'[f].value = waiter[f].value
  <2>1. \A f \in Granted : f \in Fibers \ {h}
    BY <1>0 DEF Granted, Parked
  <2> QED  BY <1>0, <1>1, <1>2, <2>1 DEF Bearing
<1> QED  BY <1>3, <1>5, <1>6, <1>7

-----------------------------------------------------------------------------
(* Receiving *)

\* The caller takes the value of the oldest blocked sender.
LEMMA FromSenderStep ==
  ASSUME Counting, ChannelInv, ReceiveFromSender,
         UNCHANGED <<pc, capacity, closed, receivers, sends, outcome>>
  PROVE  ChannelInv'
<1> DEFINE h == Head(senders)
           v == waiter[h].value
<1>1. /\ buffer = <<>> /\ senders # <<>> /\ buffer' = buffer
      /\ accepted' = Append(accepted, v) /\ delivered' = Append(delivered, v) /\ Hands(v)
      /\ waiter' = [waiter EXCEPT ![h].err = "nil"] /\ Wake({h}) /\ senders' = Tail(senders)
  BY DEF ReceiveFromSender
<1>2. /\ QueueInv' /\ ValueInv' /\ SendInv'
      /\ Bearing' = Bearing /\ \A f \in Bearing : waiter'[f].value = waiter[f].value
  BY <1>1, Admit, Zenon DEF ChannelInv
<1>3. /\ v \in Values /\ \A j \in DOMAIN accepted : accepted[j] < v
      /\ ~closed /\ Len(buffer) = capacity /\ receivers = <<>>
  BY <1>1, FirstSender DEF ChannelInv
<1>4. delivered \in Seq(Values) /\ accepted = delivered
  BY <1>1, FifoLaws DEF ChannelInv, OrderInv, FifoInv
<1>5. v \notin Elements(delivered)
  BY <1>1, <1>3, <1>4, Accept DEF ChannelInv
<1> HIDE DEF v, h
<1>6. ReceiveInv'
  BY <1>1, <1>2, <1>3, <1>4, <1>5, Deliver DEF ChannelInv
<1>7. FifoInv'
  <2>1. delivered' \in Seq(Values) /\ accepted' = delivered'
    BY <1>1, <1>3, <1>4, AppendOne
  <2> QED  BY <1>1, <2>1, FifoLaws DEF FifoInv
<1>8. BufferInv'
  BY <1>1, <1>3, Zenon DEF ChannelInv, ShapeInv, BufferInv
<1> QED  BY <1>2, <1>6, <1>7, <1>8 DEF ChannelInv, ShapeInv, OrderInv

\* The caller takes the oldest kept value, and the oldest blocked sender's value
\* takes the place.
LEMMA BufferedStep ==
  ASSUME Counting, ChannelInv, ReceiveBuffered,
         UNCHANGED <<pc, capacity, closed, receivers, sends, outcome>>
  PROVE  ChannelInv'
<1> DEFINE u == Head(buffer)
           b == Tail(buffer)
<1>1. buffer # <<>> /\ delivered' = Append(delivered, u) /\ Hands(u) /\ admitSenderLocked(b)
  BY DEF ReceiveBuffered
<1>2. /\ buffer \in Seq(Values) /\ delivered \in Seq(Values) /\ accepted = delivered \o buffer
      /\ capacity \in Nat /\ Len(buffer) <= capacity /\ receivers = <<>>
  BY <1>1, ChannelAssumption DEF ChannelInv, ShapeInv, BufferInv, OrderInv, FifoInv
<1>3. u \in Values \ Elements(delivered)
  BY <1>1, <1>2, HeadIsNew DEF ChannelInv
<1>4. /\ b \in Seq(Values) /\ Len(b) = Len(buffer) - 1 /\ Len(buffer) \in Nat
      /\ delivered' \in Seq(Values) /\ delivered' \o b = accepted
  BY <1>1, <1>2, <1>3, TakeOne, AppendOne, FifoLaws
<1>5. CASE senders = <<>>
  <2>1. buffer' = b /\ UNCHANGED <<fb, ready, waiter, senders, accepted>>
    BY <1>1, <1>5 DEF admitSenderLocked
  <2>2. Bearing' = Bearing /\ Parked' = Parked /\ Granted' = Granted /\ Sending' = Sending
    BY <2>1 DEF Bearing, Parked, Granted, Sending
  <2>3. QueueInv'
    <3>1. WaiterInv'
      BY <2>1, <2>2, Zenon DEF ChannelInv, ShapeInv, QueueInv, WaiterInv
    <3> QED  BY <2>1, <2>2, <3>1, QueueFrame DEF ChannelInv, ShapeInv, QueueInv
  <2>4. ValueInv'
    BY <2>1, Zenon DEF ChannelInv, OrderInv, ValueInv
  <2>5. SendInv'
    BY <2>1, <2>2, SendFrame DEF ChannelInv
  <2>6. ReceiveInv'
    BY <1>1, <1>2, <1>3, <2>1, <2>2, Deliver DEF ChannelInv
  <2>7. FifoInv'
    BY <1>4, <2>1, Zenon DEF FifoInv
  <2>8. BufferInv'
    <3>1. Len(buffer') <= capacity /\ buffer' \in Seq(Values) /\ senders' = <<>>
      BY <1>2, <1>4, <1>5, <2>1
    <3> QED  BY <1>2, <3>1, Zenon DEF ChannelInv, ShapeInv, BufferInv
  <2> QED  BY <2>3, <2>4, <2>5, <2>6, <2>7, <2>8 DEF ChannelInv, ShapeInv, OrderInv
<1>6. CASE senders # <<>>
  <2> DEFINE h == Head(senders)
             v == waiter[h].value
  <2>1. /\ v \in Values /\ ~closed /\ Len(buffer) = capacity
    BY <1>6, FirstSender DEF ChannelInv
  <2>2. ~(senders = <<>> \/ closed \/ Len(b) >= capacity)
    BY <1>2, <1>4, <1>6, <2>1
  <2>3. /\ buffer' = Append(b, v) /\ accepted' = Append(accepted, v)
        /\ waiter' = [waiter EXCEPT ![h].err = "nil"] /\ Wake({h}) /\ senders' = Tail(senders)
    BY <1>1, <2>2, Zenon DEF admitSenderLocked
  <2>4. /\ QueueInv' /\ ValueInv' /\ SendInv'
        /\ Bearing' = Bearing /\ \A f \in Bearing : waiter'[f].value = waiter[f].value
    BY <1>6, <2>3, Admit, Zenon DEF ChannelInv
  <2> HIDE DEF v, h, u, b
  <2>5. ReceiveInv'
    BY <1>1, <1>2, <1>3, <2>4, Deliver DEF ChannelInv
  <2>6. FifoInv'
    <3>1. Append(delivered' \o b, v) = delivered' \o Append(b, v)
      <4>1. \A d, e \in Seq(Values), x \in Values : Append(d \o e, x) = d \o Append(e, x)
        BY FifoLaws
      <4> QED  BY <1>4, <2>1, <4>1, Zenon
    <3>2. accepted' = delivered' \o buffer'
      BY <1>4, <2>3, <3>1
    <3> QED  BY <1>4, <3>2 DEF FifoInv
  <2>7. buffer' \in Seq(Values) /\ Len(buffer') = capacity
    BY <1>2, <1>4, <2>1, <2>3, AppendOne
  <2>8. BufferInv'
    <3>1. Len(buffer') <= capacity'
      BY <1>2, <2>7
    <3> QED  BY <1>2, <2>1, <2>7, <3>1, Zenon DEF ChannelInv, ShapeInv, BufferInv
  <2> QED  BY <2>4, <2>5, <2>6, <2>8 DEF ChannelInv, ShapeInv, OrderInv
<1> QED  BY <1>5, <1>6

-----------------------------------------------------------------------------
(* Sending *)

\* A Send that returns at once, whether or not its value was taken.
LEMMA SentNow ==
  ASSUME OrderInv, SendInv, sends < MaxSends, NEW v, v = sends + 1, sends' = v,
         NEW r \in {"nil", "closed", "full"}, Returns(v, r), Sending' = Sending,
         \A f \in Sending : waiter'[f] = waiter[f] /\ (f \in Granted' <=> f \in Granted),
         Elements(accepted)' = IF r = "nil" THEN Elements(accepted) \cup {v} ELSE Elements(accepted)
  PROVE  SendInv'
<1>1. /\ sends \in Nat /\ v \in Values /\ v \notin Elements(accepted) /\ outcome[v] = "none"
      /\ \A f \in Sending : waiter[f].value # v /\ waiter[f].value \in 1..sends'
  BY NextSend
<1>2. /\ outcome \in [Values -> {"none", "nil", "closed", "full", "ctx"}]
      /\ outcome' \in [Values -> {"none", "nil", "closed", "full", "ctx"}]
      /\ outcome'[v] = r /\ \A u \in Values \ {v} : outcome'[u] = outcome[u]
  BY <1>1 DEF SendInv, Returns
<1>3. ASSUME NEW u \in Values, outcome'[u] # "none" PROVE u <= sends'
  <2>1. u # v => u <= sends
    BY <1>2, <1>3 DEF SendInv
  <2> QED  BY <1>1, <2>1 DEF Values
<1>4. ASSUME NEW f \in Sending'
      PROVE  (/\ waiter[f].value \in 1..sends /\ outcome[waiter[f].value] = "none"
              /\ waiter[f].value \in Elements(accepted) <=> f \in Granted /\ waiter[f].err = "nil"
              /\ \A g \in Sending : waiter[f].value = waiter[g].value => f = g)'
  <2>1. /\ waiter[f].value \in 1..sends /\ outcome[waiter[f].value] = "none"
        /\ waiter[f].value \in Elements(accepted) <=> f \in Granted /\ waiter[f].err = "nil"
        /\ \A g \in Sending : waiter[f].value = waiter[g].value => f = g
    BY Zenon DEF SendInv
  <2>2. waiter[f].value \in Values \ {v}
    BY <1>1, <2>1, ChannelAssumption DEF Values
  <2>3. waiter'[f].value \in 1..sends' /\ outcome'[waiter'[f].value] = "none"
    BY <1>1, <1>2, <2>1, <2>2
  <2>4. waiter'[f].value \in Elements(accepted)' <=> f \in Granted' /\ waiter'[f].err = "nil"
    BY <2>1, <2>2
  <2>5. \A g \in Sending' : waiter'[f].value = waiter'[g].value => f = g
    BY <2>1
  <2> QED  BY <2>3, <2>4, <2>5
<1>5. ResultsHonest'
  <2> SUFFICES ASSUME NEW u \in Values
               PROVE  /\ outcome'[u] = "nil" => u \in Elements(accepted)'
                      /\ outcome'[u] \in {"closed", "full", "ctx"} => u \notin Elements(accepted)'
    BY Zenon DEF ResultsHonest
  <2>1. /\ outcome[u] = "nil" => u \in Elements(accepted)
        /\ outcome[u] \in {"closed", "full", "ctx"} => u \notin Elements(accepted)
    BY Zenon DEF SendInv, ResultsHonest
  <2> QED  BY <1>1, <1>2, <2>1
<1> QED  BY <1>2, <1>3, <1>4, <1>5, Zenon DEF SendInv

\* The value is refused.
LEMMA RejectStep ==
  ASSUME ChannelInv, sends < MaxSends, sends' = sends + 1,
         NEW r \in {"closed", "full"}, Returns(sends + 1, r),
         UNCHANGED <<waiterVars, chanVars, waiter, got, accepted, delivered>>
  PROVE  ChannelInv'
<1>1. /\ UNCHANGED <<fb, pc, ready>> /\ UNCHANGED <<capacity, buffer, closed, senders, receivers>>
      /\ UNCHANGED <<waiter, got, accepted, delivered>>
  BY DEF waiterVars, chanVars
<1>2. /\ Bearing' = Bearing /\ Parked' = Parked /\ Granted' = Granted /\ Sending' = Sending
      /\ Elements(accepted)' = Elements(accepted)
  BY <1>1, Zenon DEF Bearing, Parked, Granted, Sending, Elements
<1>3. ShapeInv'
  <2>1. WaiterInv' /\ pc' \in [Fibers -> PC]
    BY <1>1, <1>2, Zenon DEF ChannelInv, ShapeInv, QueueInv, WaiterInv
  <2> QED  BY <1>2, <2>1, ShapeFrame DEF ChannelInv
<1>4. SendInv'
  BY <1>1, <1>2, SentNow DEF ChannelInv
<1>5. ReceiveInv'
  BY <1>1, <1>2, ReceiveFrame DEF ChannelInv
<1>6. OrderInv'
  <2>1. sends' \in 0..MaxSends /\ sends <= sends' /\ sends \in Int /\ sends' \in Int
    BY NextSend DEF ChannelInv
  <2>2. \A i \in DOMAIN accepted : accepted[i] <= sends /\ accepted[i] \in Int
    BY Entries DEF ChannelInv, OrderInv, ValueInv
  <2>3. \A i \in DOMAIN accepted' : accepted'[i] <= sends'
    BY <1>1, <2>1, <2>2
  <2> QED  BY <1>1, <2>1, <2>3, Zenon DEF ChannelInv, OrderInv, ValueInv, FifoInv
<1> QED  BY <1>3, <1>4, <1>5, <1>6 DEF ChannelInv

\* A value is taken while no sender waits.
LEMMA ValueTaken ==
  ASSUME OrderInv, SendInv, sends < MaxSends, NEW v, v = sends + 1, sends' = v,
         senders' = <<>>, accepted' = Append(accepted, v)
  PROVE  /\ ValueInv' /\ v \in Values /\ v \notin Elements(accepted)
         /\ Elements(accepted)' = Elements(accepted) \cup {v}
<1>1. /\ sends \in Nat /\ v \in Values /\ sends' \in 0..MaxSends
      /\ \A j \in DOMAIN accepted : accepted[j] < v
  BY NextSend
<1>2. v <= sends' /\ sends <= sends' /\ sends' \in Int
  BY <1>1
<1>3. /\ accepted' \in Seq(Values) /\ Elements(accepted)' = Elements(accepted) \cup {v}
      /\ v \notin Elements(accepted)
      /\ \A i, j \in DOMAIN accepted' : i < j => accepted'[i] < accepted'[j]
      /\ \A i \in DOMAIN accepted' : accepted'[i] <= sends'
  BY <1>1, <1>2, Accept
<1>4. DOMAIN senders' = {}
  OBVIOUS
<1> QED  BY <1>1, <1>3, <1>4 DEF ValueInv

\* The value is kept.
LEMMA ToBufferStep ==
  ASSUME ChannelInv, sends < MaxSends, NEW v, v = sends + 1, sends' = v,
         SendToBuffer(v), Returns(v, "nil"), UNCHANGED <<pc, capacity, closed, got>>
  PROVE  ChannelInv'
<1>1. /\ UNCHANGED <<fb, pc, ready>> /\ UNCHANGED <<capacity, closed, senders, receivers>>
      /\ UNCHANGED <<waiter, got, delivered>>
      /\ receivers = <<>> /\ Len(buffer) < capacity /\ buffer' = Append(buffer, v)
      /\ accepted' = Append(accepted, v)
  BY DEF SendToBuffer
<1>2. /\ buffer \in Seq(Values) /\ delivered \in Seq(Values) /\ accepted = delivered \o buffer
      /\ capacity \in Nat
  BY ChannelAssumption DEF ChannelInv, ShapeInv, BufferInv, OrderInv, FifoInv
<1>3. senders = <<>>
  <2>1. Len(buffer) # capacity
    BY <1>1, <1>2
  <2> QED  BY <2>1 DEF ChannelInv, ShapeInv, BufferInv
<1>4. /\ ValueInv' /\ v \in Values /\ v \notin Elements(accepted)
      /\ Elements(accepted)' = Elements(accepted) \cup {v}
  BY <1>1, <1>3, ValueTaken DEF ChannelInv
<1>5. Bearing' = Bearing /\ Parked' = Parked /\ Granted' = Granted /\ Sending' = Sending
  BY <1>1, Zenon DEF Bearing, Parked, Granted, Sending
<1>6. QueueInv'
  <2>1. WaiterInv' /\ pc' \in [Fibers -> PC]
    BY <1>1, <1>5, Zenon DEF ChannelInv, ShapeInv, QueueInv, WaiterInv
  <2> QED  BY <1>1, <1>5, <2>1, QueueFrame DEF ChannelInv, ShapeInv
<1>7. SendInv'
  <2>1. "nil" \in {"nil", "closed", "full"}
    OBVIOUS
  <2> QED  BY <1>1, <1>4, <1>5, <2>1, SentNow DEF ChannelInv
<1>8. ReceiveInv'
  BY <1>1, <1>5, ReceiveFrame DEF ChannelInv
<1>9. FifoInv'
  <2>2. Append(delivered \o buffer, v) = delivered \o Append(buffer, v)
    BY <1>2, <1>4, AppendBehind, Zenon
  <2> QED  BY <1>1, <1>2, <2>2, Zenon DEF FifoInv
<1>10. BufferInv'
  <2>1. buffer' \in Seq(Values) /\ Len(buffer') <= capacity
    BY <1>1, <1>2, <1>4, AppendOne
  <2> QED  BY <1>1, <1>3, <2>1, Zenon DEF ChannelInv, ShapeInv, BufferInv
<1> QED  BY <1>4, <1>6, <1>7, <1>8, <1>9, <1>10 DEF ChannelInv, ShapeInv, OrderInv

\* The value goes to the oldest blocked receiver.
LEMMA ToReceiverStep ==
  ASSUME Counting, ChannelInv, sends < MaxSends, NEW v, v = sends + 1, sends' = v,
         SendToReceiver(v), Returns(v, "nil"), UNCHANGED <<pc, capacity, closed, got>>
  PROVE  ChannelInv'
<1> DEFINE h == Head(receivers)
<1>1. /\ UNCHANGED <<pc, capacity, closed, got, buffer, senders>>
      /\ receivers # <<>> /\ receivers' = Tail(receivers) /\ Wake({h})
      /\ waiter' = [waiter EXCEPT ![h].value = v, ![h].err = "nil"]
      /\ accepted' = Append(accepted, v) /\ delivered' = Append(delivered, v)
  BY DEF SendToReceiver
<1>2. /\ buffer = <<>> /\ delivered \in Seq(Values) /\ accepted = delivered
      /\ ~closed /\ senders = <<>> /\ IsQueue(receivers) /\ IsQueue(senders)
      /\ waiter \in [Fibers -> WaiterRecord]
  BY <1>1, FifoLaws DEF ChannelInv, ShapeInv, QueueInv, BufferInv, OrderInv, FifoInv
<1>3. /\ ValueInv' /\ v \in Values /\ v \notin Elements(accepted)
      /\ Elements(accepted)' = Elements(accepted) \cup {v}
  BY <1>1, <1>2, ValueTaken DEF ChannelInv
<1>4. /\ h \in Elements(receivers) /\ IsQueue(Tail(receivers))
      /\ Elements(Tail(receivers)) = Elements(receivers) \ {h}
  BY <1>1, <1>2, QueueTail
<1>5. h \in Parked /\ h \in Fibers /\ waiter[h].op = "recv" /\ h \notin Granted
  BY <1>4 DEF ChannelInv, ShapeInv, QueueInv, Parked, Granted
<1> HIDE DEF h
<1>6. /\ waiter' \in [Fibers -> WaiterRecord]
      /\ waiter'[h].op = "recv" /\ waiter'[h].value = v /\ waiter'[h].err = "nil"
      /\ \A g \in Fibers \ {h} : waiter'[g] = waiter[g]
  BY <1>1, <1>2, <1>3, <1>5, Zenon DEF WaiterRecord
<1>7. WaiterInv' /\ Parked' = Parked \ {h} /\ Granted' = Granted \cup {h}
  <2>1. WaiterInv /\ pc \in [Fibers -> PC] /\ pc' \in [Fibers -> PC] /\ {h} \in SUBSET Parked
    BY <1>1, <1>5 DEF ChannelInv, ShapeInv, QueueInv
  <2> QED  BY <1>1, <2>1, WakeStep, Zenon
<1>8. QueueInv'
  <2>1. /\ IsQueue(receivers)' /\ Elements(receivers)' = Elements(receivers) \ {h}
        /\ IsQueue(senders)' /\ Elements(senders)' = Elements(senders)
    BY <1>1, <1>2, <1>4, Zenon
  <2>2. \A g \in Parked' : g \in Fibers \ {h}
    BY <1>7 DEF Parked
  <2>3. Elements(receivers)' = {f \in Parked' : waiter'[f].op = "recv"}
    BY <1>6, <1>7, <2>1, <2>2 DEF ChannelInv, ShapeInv, QueueInv
  <2>4. Elements(senders)' = {f \in Parked' : waiter'[f].op = "send"}
    BY <1>5, <1>6, <1>7, <2>1, <2>2 DEF ChannelInv, ShapeInv, QueueInv
  <2>5. pc' \in [Fibers -> PC]
    BY <1>1 DEF ChannelInv, ShapeInv, QueueInv
  <2> QED  BY <1>6, <1>7, <2>1, <2>3, <2>4, <2>5, Zenon DEF QueueInv
<1>9. SendInv'
  <2>1. Sending' = Sending /\ h \notin Sending
    BY <1>1, <1>5, <1>6 DEF Sending
  <2>2. \A f \in Sending : waiter'[f] = waiter[f] /\ (f \in Granted' <=> f \in Granted)
    BY <1>6, <1>7, <2>1 DEF Sending
  <2>3. "nil" \in {"nil", "closed", "full"}
    OBVIOUS
  <2> QED  BY <1>3, <2>1, <2>2, <2>3, SentNow, Zenon DEF ChannelInv
<1>10. ReceiveInv'
  <2>1. Bearing' = Bearing \cup {h} /\ h \notin Bearing
    BY <1>5, <1>6, <1>7, Zenon DEF Bearing, Granted
  <2>2. \A f \in Bearing : waiter'[f].value = waiter[f].value
    BY <1>6, <2>1 DEF Bearing, Granted
  <2>3. Carrying(v)' = Carrying(v) \cup {h} /\ h \notin Carrying(v)
    BY <1>6, <2>1, <2>2 DEF Carrying
  <2>4. \A u \in Values \ {v} : Carrying(u)' = Carrying(u)
    BY <1>6, <2>1, <2>2 DEF Carrying
  <2>5. \A u \in Values : Carrying(u) \in SUBSET Fibers
    BY DEF Carrying, Bearing, Granted
  <2>6. \A u \in Values : Cardinality(Carrying(u)) \in Nat
    BY <2>5, Zenon DEF Counting
  <2>7. Cardinality(Carrying(v) \cup {h}) = Cardinality(Carrying(v)) + 1
    BY <1>3, <1>5, <2>3, <2>5, Zenon DEF Counting
  <2>8. Elements(delivered)' = Elements(delivered) \cup {v}
    BY <1>1, <1>2, <1>3, AppendOne
  <2>9. got \in [Values -> Nat] /\ got' = got
    BY <1>1 DEF ChannelInv, ReceiveInv
  <2>10. ASSUME NEW u \in Values
         PROVE  got'[u] + Cardinality(Carrying(u)') = IF u \in Elements(delivered)' THEN 1 ELSE 0
    <3>1. got[u] + Cardinality(Carrying(u)) = IF u \in Elements(delivered) THEN 1 ELSE 0
      BY Zenon DEF ChannelInv, ReceiveInv
    <3>2. Cardinality(Carrying(u)) \in Nat /\ got[u] \in Nat
      BY <2>6, <2>9
    <3>3. CASE u = v
      <4>1. Cardinality(Carrying(u)') = Cardinality(Carrying(u)) + 1
        BY <2>3, <2>7, <3>3
      <4> QED  BY <1>2, <1>3, <2>8, <2>9, <3>1, <3>2, <3>3, <4>1
    <3>4. CASE u # v
      BY <2>4, <2>8, <2>9, <3>1, <3>2, <3>4
    <3> QED  BY <3>3, <3>4
  <2>11. ASSUME NEW u \in Values
         PROVE  (got[u] + Cardinality(Carrying(u)) = IF u \in Elements(delivered) THEN 1 ELSE 0)'
    BY <2>10, Zenon DEF Cardinality
  <2>12. \A f \in Bearing' : waiter'[f].value \in Values
    BY <1>3, <1>6, <2>1, <2>2 DEF ChannelInv, ReceiveInv
  <2> QED  BY <2>9, <2>11, <2>12, Zenon DEF ReceiveInv
<1>11. FifoInv'
  <2>1. delivered' \in Seq(Values) /\ accepted' = delivered' /\ buffer' = <<>>
    BY <1>1, <1>2, <1>3, AppendOne
  <2> QED  BY <2>1, FifoLaws DEF FifoInv
<1>12. BufferInv'
  <2>1. /\ UNCHANGED <<capacity, closed, buffer>> /\ senders' = <<>>
        /\ buffer = <<>> /\ ~closed
    BY <1>1, <1>2
  <2> QED  BY <2>1 DEF ChannelInv, ShapeInv, BufferInv
<1> QED  BY <1>3, <1>8, <1>9, <1>10, <1>11, <1>12 DEF ChannelInv, ShapeInv, OrderInv

\* The call queues its value and waits.
LEMMA SendParkStep ==
  ASSUME ChannelInv, NEW f \in Fibers, NEW s \in {"wait", "waitCtx"}, SendPark(f, s)
  PROVE  ChannelInv'
<1> DEFINE v == sends + 1
<1>1. /\ sends < MaxSends /\ ~closed /\ receivers = <<>> /\ Len(buffer) >= capacity
      /\ Park(f, s) /\ senders' = Append(senders, f) /\ sends' = v
      /\ waiter' = [waiter EXCEPT ![f] = [op |-> "send", value |-> v, err |-> "nil"]]
      /\ UNCHANGED <<capacity, buffer, closed, receivers, outcome, got, accepted, delivered>>
  BY DEF SendPark, Full
<1>2. /\ sends \in Nat /\ v \in Values /\ v \in 0..MaxSends
      /\ \A j \in DOMAIN accepted : accepted[j] < v
      /\ v \notin Elements(accepted) /\ outcome[v] = "none"
      /\ \A g \in Sending : waiter[g].value # v /\ waiter[g].value \in 1..v
  BY <1>1, NextSend DEF ChannelInv
<1>3. /\ buffer \in Seq(Values) /\ capacity \in Nat /\ Len(buffer) <= capacity
      /\ waiter \in [Fibers -> WaiterRecord] /\ IsQueue(senders)
      /\ Elements(senders) = {g \in Parked : waiter[g].op = "send"}
      /\ Elements(receivers) = {g \in Parked : waiter[g].op = "recv"}
      /\ WaiterInv /\ pc \in [Fibers -> PC]
  BY ChannelAssumption DEF ChannelInv, ShapeInv, QueueInv, BufferInv
<1>4. /\ WaiterInv' /\ f \notin Parked /\ pc' = [pc EXCEPT ![f] = s]
      /\ Parked' = Parked \cup {f} /\ Granted' = Granted
  BY <1>1, <1>3, ParkStep, Zenon
<1>5. pc[f] = "idle" /\ f \notin Granted /\ f \notin Sending
  BY <1>1 DEF Park, Goto, Granted, Sending, Waiting
<1> HIDE DEF v
<1>6. /\ waiter' \in [Fibers -> WaiterRecord]
      /\ waiter'[f].op = "send" /\ waiter'[f].value = v /\ waiter'[f].err = "nil"
      /\ \A g \in Fibers \ {f} : waiter'[g] = waiter[g]
  BY <1>1, <1>2, <1>3 DEF WaiterRecord
<1>7. IsQueue(senders)' /\ Elements(senders)' = Elements(senders) \cup {f}
  <2>1. f \in Fibers \ Elements(senders)
    BY <1>3, <1>4
  <2>2. IsQueue(Append(senders, f)) /\ Elements(Append(senders, f)) = Elements(senders) \cup {f}
    BY <1>3, <2>1, QueueAppend
  <2> QED  BY <1>1, <2>2, Zenon DEF IsQueue, Elements
<1>8. QueueInv'
  <2>1. IsQueue(receivers)' /\ Elements(receivers)' = Elements(receivers)
    BY <1>1, Zenon DEF ChannelInv, ShapeInv, QueueInv
  <2>2. \A g \in Parked : g \in Fibers \ {f}
    BY <1>4 DEF Parked
  <2>3. Elements(senders)' = {g \in Parked' : waiter'[g].op = "send"}
    BY <1>3, <1>4, <1>6, <1>7, <2>2
  <2>4. Elements(receivers)' = {g \in Parked' : waiter'[g].op = "recv"}
    BY <1>3, <1>4, <1>6, <2>1, <2>2
  <2>5. pc' \in [Fibers -> PC]
    BY <1>3, <1>4 DEF PC, Waiting
  <2> QED  BY <1>4, <1>6, <1>7, <2>1, <2>3, <2>4, <2>5, Zenon DEF QueueInv
<1>9. BufferInv'
  <2>1. Len(buffer) = capacity
    BY <1>1, <1>3
  <2> QED  BY <1>1, <2>1, Zenon DEF ChannelInv, ShapeInv, BufferInv
<1>10. FifoInv'
  BY <1>1, Zenon DEF ChannelInv, OrderInv, FifoInv
<1>11. Sending' = Sending \cup {f}
  BY <1>4, <1>5, <1>6 DEF Sending, Waiting, ChannelInv, ShapeInv, QueueInv
<1>12. Bearing' = Bearing /\ \A g \in Bearing : waiter'[g].value = waiter[g].value
  <2>1. \A g \in Granted : g \in Fibers \ {f}
    BY <1>5 DEF Granted
  <2> QED  BY <1>4, <1>6, <2>1 DEF Bearing
<1>13. ReceiveInv'
  BY <1>1, <1>12, ReceiveFrame DEF ChannelInv
<1>14. SendInv'
  <2>0. \A g \in Sending : g \in Fibers \ {f} /\ waiter'[g] = waiter[g]
    BY <1>5, <1>6, Zenon DEF Sending
  <2>1. Elements(accepted)' = Elements(accepted)
    BY <1>1, Zenon DEF Elements
  <2>2. ASSUME NEW g \in Sending'
        PROVE  (/\ waiter[g].value \in 1..sends /\ outcome[waiter[g].value] = "none"
                /\ waiter[g].value \in Elements(accepted) <=> g \in Granted /\ waiter[g].err = "nil"
                /\ \A k \in Sending : waiter[g].value = waiter[k].value => g = k)'
    <3>1. CASE g = f
      <4>1. waiter'[g].value \in 1..sends' /\ outcome'[waiter'[g].value] = "none"
        BY <1>1, <1>2, <1>6, <3>1 DEF v
      <4>2. waiter'[g].value \notin Elements(accepted)' /\ g \notin Granted'
        BY <1>2, <1>4, <1>5, <1>6, <2>1, <3>1, Zenon
      <4>3. \A k \in Sending' : waiter'[g].value = waiter'[k].value => g = k
        BY <1>2, <1>6, <1>11, <2>0, <3>1
      <4> QED  BY <4>1, <4>2, <4>3
    <3>2. CASE g # f
      <4>0. g \in Sending
        BY <1>11, <3>2
      <4>1. /\ waiter[g].value \in 1..sends /\ outcome[waiter[g].value] = "none"
            /\ waiter[g].value \in Elements(accepted) <=> g \in Granted /\ waiter[g].err = "nil"
            /\ \A k \in Sending : waiter[g].value = waiter[k].value => g = k
        BY <4>0, Zenon DEF ChannelInv, SendInv
      <4>2. waiter'[g].value \in 1..sends' /\ outcome'[waiter'[g].value] = "none"
        BY <1>1, <1>2, <2>0, <4>0, <4>1, Zenon DEF v
      <4>3. waiter'[g].value \in Elements(accepted)' <=> g \in Granted' /\ waiter'[g].err = "nil"
        BY <1>4, <2>0, <2>1, <4>0, <4>1, Zenon
      <4>4. \A k \in Sending' : waiter'[g].value = waiter'[k].value => g = k
        BY <1>2, <1>6, <1>11, <2>0, <4>0, <4>1, Zenon
      <4> QED  BY <4>2, <4>3, <4>4
    <3> QED  BY <3>1, <3>2, Zenon
  <2>3. ResultsHonest' /\ outcome' \in [Values -> {"none", "nil", "closed", "full", "ctx"}]
    BY <1>1, <2>1, Zenon DEF ChannelInv, SendInv, ResultsHonest
  <2>4. ASSUME NEW u \in Values, outcome'[u] # "none" PROVE u <= sends'
    <3>1. u <= sends /\ u \in Int
      BY <1>1, <2>4 DEF ChannelInv, SendInv, Values
    <3> QED  BY <1>1, <1>2, <3>1 DEF v
  <2> QED  BY <2>2, <2>3, <2>4, Zenon DEF SendInv
<1>15. ValueInv'
  <2>1. /\ DOMAIN senders' = 1..Len(senders) + 1 /\ DOMAIN senders = 1..Len(senders)
        /\ Len(senders) \in Nat /\ senders'[Len(senders) + 1] = f
        /\ \A i \in 1..Len(senders) : senders'[i] = senders[i] /\ senders[i] \in Elements(senders)
    <3>1. senders \in Seq(Fibers)
      BY <1>3 DEF IsQueue
    <3>2. DOMAIN senders = 1..Len(senders)
      BY <3>1
    <3> QED  BY <1>1, <3>1, <3>2, AppendOne DEF Elements
  <2>2. \A g \in Elements(senders) : /\ g \in Fibers \ {f} /\ g \in Sending
                                     /\ waiter'[g] = waiter[g] /\ waiter[g].value \in 1..sends
    BY <1>3, <1>4, <1>6, Zenon DEF Parked, Sending, ChannelInv, SendInv
  <2>3. ASSUME NEW i \in DOMAIN senders', NEW j \in DOMAIN accepted'
        PROVE  accepted'[j] < waiter'[senders'[i]].value
    <3>1. CASE i = Len(senders) + 1
      BY <1>1, <1>2, <1>6, <2>1, <3>1, Zenon
    <3>2. CASE i # Len(senders) + 1
      <4>1. i \in DOMAIN senders /\ senders'[i] = senders[i] /\ waiter'[senders[i]] = waiter[senders[i]]
        BY <2>1, <2>2, <3>2
      <4> QED  BY <1>1, <4>1, Zenon DEF ChannelInv, OrderInv, ValueInv
    <3> QED  BY <3>1, <3>2, Zenon
  <2>4. ASSUME NEW i \in DOMAIN senders', NEW j \in DOMAIN senders', i < j
        PROVE  waiter'[senders'[i]].value < waiter'[senders'[j]].value
    <3>0. /\ i \in DOMAIN senders /\ senders'[i] = senders[i]
          /\ waiter'[senders[i]] = waiter[senders[i]] /\ waiter[senders[i]].value \in 1..sends
      BY <2>1, <2>2, <2>4
    <3>1. CASE j = Len(senders) + 1
      BY <1>2, <1>6, <2>1, <3>0, <3>1 DEF v
    <3>2. CASE j # Len(senders) + 1
      <4>1. j \in DOMAIN senders /\ senders'[j] = senders[j] /\ waiter'[senders[j]] = waiter[senders[j]]
        BY <2>1, <2>2, <3>2
      <4>2. waiter[senders[i]].value < waiter[senders[j]].value
        BY <2>4, <3>0, <4>1, Zenon DEF ChannelInv, OrderInv, ValueInv
      <4> QED  BY <3>0, <4>1, <4>2
    <3> QED  BY <3>1, <3>2, Zenon
  <2>5. \A i \in DOMAIN accepted' : accepted'[i] <= sends'
    <3>1. \A i \in DOMAIN accepted : accepted[i] <= sends /\ accepted[i] \in Int
      BY Entries, Zenon DEF ChannelInv, OrderInv, ValueInv
    <3> QED  BY <1>1, <1>2, <3>1 DEF v
  <2>6. /\ sends' \in 0..MaxSends /\ accepted' \in Seq(Values)
        /\ \A i, j \in DOMAIN accepted' : i < j => accepted'[i] < accepted'[j]
    BY <1>1, <1>2, Zenon DEF ChannelInv, OrderInv, ValueInv
  <2> QED  BY <2>3, <2>4, <2>5, <2>6, Zenon DEF ValueInv
<1> QED  BY <1>8, <1>9, <1>10, <1>13, <1>14, <1>15 DEF ChannelInv, ShapeInv, OrderInv

\* A Send that waited returns, and says whether its value was taken.
LEMMA SendLeaves ==
  ASSUME SendInv, NEW f \in Sending, NEW r \in {"nil", "closed", "ctx"},
         Returns(waiter[f].value, r), r = "nil" <=> waiter[f].value \in Elements(accepted),
         UNCHANGED <<waiter, sends, accepted>>, sends \in 0..MaxSends, Sending' = Sending \ {f},
         \A g \in Sending \ {f} : g \in Granted' <=> g \in Granted
  PROVE  SendInv'
<1> DEFINE v == waiter[f].value
<1>1. /\ outcome \in [Values -> {"none", "nil", "closed", "full", "ctx"}]
      /\ v \in 1..sends /\ \A g \in Sending : v = waiter[g].value => f = g
  BY Zenon DEF SendInv
<1>2. v \in Values /\ v <= sends
  BY <1>1, ChannelAssumption DEF Values
<1>3. outcome' = [outcome EXCEPT ![v] = r]
  BY DEF Returns
<1>4. Elements(accepted)' = Elements(accepted) /\ (r = "nil" <=> v \in Elements(accepted))
  BY Zenon DEF Elements
<1> HIDE DEF v
<1>5. /\ outcome' \in [Values -> {"none", "nil", "closed", "full", "ctx"}]
      /\ outcome'[v] = r /\ \A u \in Values \ {v} : outcome'[u] = outcome[u]
  BY <1>1, <1>2, <1>3
<1>6. \A u \in Values : outcome'[u] # "none" => u <= sends'
  BY <1>2, <1>5, Zenon DEF SendInv
<1>7. ASSUME NEW g \in Sending'
      PROVE  (/\ waiter[g].value \in 1..sends /\ outcome[waiter[g].value] = "none"
              /\ waiter[g].value \in Elements(accepted) <=> g \in Granted /\ waiter[g].err = "nil"
              /\ \A k \in Sending : waiter[g].value = waiter[k].value => g = k)'
  <2>0. g \in Sending \ {f}
    OBVIOUS
  <2>1. /\ waiter[g].value \in 1..sends /\ outcome[waiter[g].value] = "none"
        /\ waiter[g].value \in Elements(accepted) <=> g \in Granted /\ waiter[g].err = "nil"
        /\ \A k \in Sending : waiter[g].value = waiter[k].value => g = k
    BY <2>0, Zenon DEF SendInv
  <2>2. waiter[g].value # v
    BY <1>1, <2>0, Zenon
  <2>3. waiter[g].value \in Values
    BY <2>1, ChannelAssumption DEF Values
  <2>4. outcome'[waiter'[g].value] = "none"
    BY <1>5, <2>1, <2>2, <2>3, Zenon
  <2>5. waiter'[g].value \in Elements(accepted)' <=> g \in Granted' /\ waiter'[g].err = "nil"
    BY <1>4, <2>0, <2>1, Zenon
  <2> QED  BY <2>0, <2>1, <2>4, <2>5, Zenon
<1>8. ResultsHonest'
  <2> SUFFICES ASSUME NEW u \in Values
               PROVE  /\ outcome'[u] = "nil" => u \in Elements(accepted)'
                      /\ outcome'[u] \in {"closed", "full", "ctx"} => u \notin Elements(accepted)'
    BY Zenon DEF ResultsHonest
  <2>1. /\ outcome[u] = "nil" => u \in Elements(accepted)
        /\ outcome[u] \in {"closed", "full", "ctx"} => u \notin Elements(accepted)
    BY Zenon DEF SendInv, ResultsHonest
  <2> QED  BY <1>4, <1>5, <2>1, Zenon
<1> QED  BY <1>5, <1>6, <1>7, <1>8, Zenon DEF SendInv

\* A sender that was woken returns nil or ErrChannelClosed, also if its context
\* is done.
LEMMA SendReturnsStep ==
  ASSUME ChannelInv, NEW f \in Fibers, SendReturns(f)
  PROVE  ChannelInv'
<1>1. /\ waiter[f].op = "send" /\ Returns(waiter[f].value, waiter[f].err)
      /\ WaitEnds(f, "idle") \/ CancelTooLate(f, "idle")
      /\ UNCHANGED <<chanVars, waiter, sends, got, accepted, delivered>>
  BY Zenon DEF SendReturns
<1>2. WaiterInv /\ pc \in [Fibers -> PC] /\ waiter \in [Fibers -> WaiterRecord] /\ sends \in 0..MaxSends
  BY Zenon DEF ChannelInv, ShapeInv, QueueInv, OrderInv, ValueInv
<1>3. /\ WaiterInv' /\ f \in Granted /\ Parked' = Parked /\ Granted' = Granted \ {f}
      /\ pc' = [pc EXCEPT ![f] = "idle"]
  <2>1. "idle" \notin Waiting \cup {"withdrawn"}
    BY DEF Waiting
  <2> QED  BY <1>1, <1>2, <2>1, ReturnStep, Zenon
<1>4. pc' \in [Fibers -> PC]
  BY <1>2, <1>3 DEF PC
<1>5. f \in Sending /\ Sending' = Sending \ {f}
  BY <1>1, <1>2, <1>3, Zenon DEF Sending, Granted, Waiting
<1>6. ShapeInv'
  BY <1>1, <1>3, <1>4, ShapeFrame, Zenon DEF ChannelInv
<1>7. OrderInv'
  BY <1>1, OrderFrame, Zenon DEF ChannelInv, chanVars
<1>8. SendInv'
  <2>1. waiter[f].err \in {"nil", "closed", "ctx"}
    BY <1>2 DEF WaiterRecord
  <2>2. waiter[f].err = "nil" <=> waiter[f].value \in Elements(accepted)
    BY <1>3, <1>5, Zenon DEF ChannelInv, SendInv
  <2>3. \A g \in Sending \ {f} : g \in Granted' <=> g \in Granted
    BY <1>3
  <2> QED  BY <1>1, <1>2, <1>5, <2>1, <2>2, <2>3, SendLeaves DEF ChannelInv
<1>9. ReceiveInv'
  <2>1. Bearing' = Bearing
    BY <1>1, <1>3, Zenon DEF Bearing
  <2> QED  BY <1>1, <2>1, ReceiveFrame, Zenon DEF ChannelInv
<1> QED  BY <1>6, <1>7, <1>8, <1>9 DEF ChannelInv

\* A cancelled Send takes its waiter out of the queue.
LEMMA SendRemovesStep ==
  ASSUME ChannelInv, NEW f \in Fibers, SendCtxRemoves(f)
  PROVE  ChannelInv'
<1>1. /\ waiter[f].op = "send" /\ Withdraw(f) /\ senders' = Dequeue(senders, f)
      /\ UNCHANGED <<capacity, buffer, closed, receivers, waiter>>
      /\ UNCHANGED <<sends, outcome, got, accepted, delivered>>
  BY Zenon DEF SendCtxRemoves, history
<1>2. WaiterInv /\ pc \in [Fibers -> PC] /\ IsQueue(senders)
  BY DEF ChannelInv, ShapeInv, QueueInv
<1>3. /\ WaiterInv' /\ f \in Parked /\ Parked' = Parked \ {f} /\ Granted' = Granted
      /\ pc' = [pc EXCEPT ![f] = "withdrawn"]
  BY <1>1, <1>2, WithdrawStep, Zenon
<1>4. pc' \in [Fibers -> PC]
  BY <1>2, <1>3 DEF PC
<1>5. Sending' = Sending
  BY <1>1, <1>2, <1>3, Zenon DEF Sending, Parked
<1>6. /\ IsQueue(senders)' /\ Elements(senders)' = Elements(senders) \ {f}
      /\ \A i, j \in DOMAIN senders' : i < j =>
           \E m, n \in DOMAIN senders : m < n /\ senders[m] = senders'[i] /\ senders[n] = senders'[j]
  <2> DEFINE q == Dequeue(senders, f)
  <2>1. /\ IsQueue(q) /\ Elements(q) = Elements(senders) \ {f}
        /\ \A i, j \in DOMAIN q : i < j =>
             \E m, n \in DOMAIN senders : m < n /\ senders[m] = q[i] /\ senders[n] = q[j]
    BY <1>2, QueueRemove
  <2>2. senders' = q
    BY <1>1, Zenon
  <2> HIDE DEF q
  <2> QED  BY <2>1, <2>2
<1>7. QueueInv'
  <2>1. Elements(senders)' = {g \in Parked' : waiter'[g].op = "send"}
    BY <1>1, <1>3, <1>6 DEF ChannelInv, ShapeInv, QueueInv
  <2>2. Elements(receivers)' = {g \in Parked' : waiter'[g].op = "recv"}
    BY <1>1, <1>3 DEF ChannelInv, ShapeInv, QueueInv
  <2>3. waiter' \in [Fibers -> WaiterRecord] /\ IsQueue(receivers)'
    BY <1>1, Zenon DEF ChannelInv, ShapeInv, QueueInv
  <2> QED  BY <1>3, <1>4, <1>6, <2>1, <2>2, <2>3, Zenon DEF QueueInv
<1>8. BufferInv'
  <2>1. senders' # <<>> => senders # <<>>
    BY <1>2, <1>6, QueueEmpty
  <2> QED  BY <1>1, <2>1, Zenon DEF ChannelInv, ShapeInv, BufferInv
<1>9. ValueInv'
  <2>1. \A i \in DOMAIN senders' : \E m \in DOMAIN senders : senders[m] = senders'[i]
    <3>1. \A i \in DOMAIN senders' : senders'[i] \in Elements(senders)'
      BY DEF Elements
    <3>2. Elements(senders)' \subseteq Elements(senders)
      BY <1>6, Zenon
    <3> QED  BY <3>1, <3>2, Zenon DEF Elements
  <2>2. \A i \in DOMAIN senders', j \in DOMAIN accepted' : accepted'[j] < waiter'[senders'[i]].value
    BY <1>1, <2>1, Zenon DEF ChannelInv, OrderInv, ValueInv
  <2>3. \A i, j \in DOMAIN senders' : i < j => waiter'[senders'[i]].value < waiter'[senders'[j]].value
    <3> SUFFICES ASSUME NEW i \in DOMAIN senders', NEW j \in DOMAIN senders', i < j
                 PROVE  waiter'[senders'[i]].value < waiter'[senders'[j]].value
      OBVIOUS
    <3>1. PICK m, n \in DOMAIN senders : m < n /\ senders[m] = senders'[i] /\ senders[n] = senders'[j]
      BY <1>6
    <3>2. waiter[senders[m]].value < waiter[senders[n]].value
      BY <3>1, Zenon DEF ChannelInv, OrderInv, ValueInv
    <3> QED  BY <1>1, <3>1, <3>2, Zenon
  <2> QED  BY <1>1, <2>2, <2>3, Zenon DEF ChannelInv, OrderInv, ValueInv
<1>10. FifoInv'
  BY <1>1, Zenon DEF ChannelInv, OrderInv, FifoInv
<1>11. SendInv'
  BY <1>1, <1>3, <1>5, SendFrame, Zenon DEF ChannelInv
<1>12. ReceiveInv'
  <2>1. Bearing' = Bearing
    BY <1>1, <1>3, Zenon DEF Bearing
  <2> QED  BY <1>1, <2>1, ReceiveFrame, Zenon DEF ChannelInv
<1> QED  BY <1>7, <1>8, <1>9, <1>10, <1>11, <1>12 DEF ChannelInv, ShapeInv, OrderInv

\* A cancelled Send returns; its value was not taken.
LEMMA SendFailsStep ==
  ASSUME ChannelInv, NEW f \in Fibers, SendCtxFails(f)
  PROVE  ChannelInv'
<1>1. /\ waiter[f].op = "send" /\ Returns(waiter[f].value, "ctx") /\ CancelReturns(f)
      /\ UNCHANGED <<chanVars, waiter, sends, got, accepted, delivered>>
  BY DEF SendCtxFails
<1>2. WaiterInv /\ pc \in [Fibers -> PC] /\ sends \in 0..MaxSends
  BY DEF ChannelInv, ShapeInv, QueueInv, OrderInv, ValueInv
<1>3. /\ WaiterInv' /\ Parked' = Parked /\ Granted' = Granted
      /\ pc[f] = "withdrawn" /\ pc' = [pc EXCEPT ![f] = "idle"]
  BY <1>1, <1>2, CancelReturnsStep, Zenon
<1>4. pc' \in [Fibers -> PC] /\ f \notin Granted
  BY <1>2, <1>3 DEF PC, Granted, Waiting
<1>5. f \in Sending /\ Sending' = Sending \ {f}
  BY <1>1, <1>2, <1>3, Zenon DEF Sending, Waiting
<1>6. ShapeInv'
  BY <1>1, <1>3, <1>4, ShapeFrame, Zenon DEF ChannelInv
<1>7. OrderInv'
  BY <1>1, OrderFrame, Zenon DEF ChannelInv, chanVars
<1>8. SendInv'
  <2>1. "ctx" \in {"nil", "closed", "ctx"} /\ "ctx" # "nil"
    OBVIOUS
  <2>2. waiter[f].value \notin Elements(accepted)
    BY <1>4, <1>5, Zenon DEF ChannelInv, SendInv
  <2>3. \A g \in Sending \ {f} : g \in Granted' <=> g \in Granted
    BY <1>3
  <2> QED  BY <1>1, <1>2, <1>5, <2>1, <2>2, <2>3, SendLeaves, Zenon DEF ChannelInv
<1>9. ReceiveInv'
  <2>1. Bearing' = Bearing
    BY <1>1, <1>3, Zenon DEF Bearing
  <2> QED  BY <1>1, <2>1, ReceiveFrame, Zenon DEF ChannelInv
<1> QED  BY <1>6, <1>7, <1>8, <1>9 DEF ChannelInv

-----------------------------------------------------------------------------
(* Receiving that waits *)

\* The call queues its waiter.
LEMMA ReceiveParkStep ==
  ASSUME ChannelInv, NEW f \in Fibers, NEW s \in {"wait", "waitCtx"}, ReceivePark(f, s)
  PROVE  ChannelInv'
<1>1. /\ buffer = <<>> /\ senders = <<>> /\ ~closed /\ Park(f, s)
      /\ waiter' = [waiter EXCEPT ![f] = [op |-> "recv", value |-> NoValue, err |-> "nil"]]
      /\ receivers' = Append(receivers, f)
      /\ UNCHANGED <<capacity, buffer, closed, senders>>
      /\ UNCHANGED <<sends, outcome, got, accepted, delivered>>
  BY DEF ReceivePark, history
<1>2. /\ WaiterInv /\ pc \in [Fibers -> PC] /\ IsQueue(receivers) /\ IsQueue(senders)
      /\ waiter \in [Fibers -> WaiterRecord]
      /\ Elements(senders) = {g \in Parked : waiter[g].op = "send"}
      /\ Elements(receivers) = {g \in Parked : waiter[g].op = "recv"}
  BY DEF ChannelInv, ShapeInv, QueueInv
<1>3. /\ WaiterInv' /\ f \notin Parked /\ pc' = [pc EXCEPT ![f] = s]
      /\ Parked' = Parked \cup {f} /\ Granted' = Granted
  BY <1>1, <1>2, ParkStep, Zenon
<1>4. pc[f] = "idle" /\ f \notin Granted /\ f \notin Sending /\ pc' \in [Fibers -> PC]
  BY <1>1, <1>2, <1>3, Zenon DEF Park, Goto, Granted, Sending, Waiting, PC
<1>5. /\ waiter' \in [Fibers -> WaiterRecord] /\ waiter'[f].op = "recv"
      /\ \A g \in Fibers \ {f} : waiter'[g] = waiter[g]
  BY <1>1, <1>2, Zenon DEF WaiterRecord, NoValue
<1>6. QueueInv'
  <2>1. f \in Fibers \ Elements(receivers)
    BY <1>2, <1>3
  <2>2. IsQueue(Append(receivers, f)) /\ Elements(Append(receivers, f)) = Elements(receivers) \cup {f}
    BY <1>2, <2>1, QueueAppend
  <2>3. IsQueue(receivers)' /\ Elements(receivers)' = Elements(receivers) \cup {f}
    BY <1>1, <2>2, Zenon
  <2>4. IsQueue(senders)' /\ Elements(senders)' = Elements(senders)
    BY <1>1, <1>2, Zenon
  <2>5. \A g \in Parked : g \in Fibers \ {f}
    BY <1>3 DEF Parked
  <2>6. Elements(senders)' = {g \in Parked' : waiter'[g].op = "send"}
    BY <1>2, <1>3, <1>5, <2>4, <2>5, Zenon
  <2>7. Elements(receivers)' = {g \in Parked' : waiter'[g].op = "recv"}
    BY <1>2, <1>3, <1>5, <2>3, <2>5, Zenon
  <2> QED  BY <1>3, <1>4, <1>5, <2>3, <2>4, <2>6, <2>7, Zenon DEF QueueInv
<1>7. BufferInv'
  BY <1>1, Zenon DEF ChannelInv, ShapeInv, BufferInv
<1>8. FifoInv'
  BY <1>1, Zenon DEF ChannelInv, OrderInv, FifoInv
<1>9. ValueInv'
  <2>1. DOMAIN senders' = {}
    BY <1>1
  <2> QED  BY <1>1, <2>1, Zenon DEF ChannelInv, OrderInv, ValueInv
<1>10. SendInv'
  <2>1. Sending' = Sending
    BY <1>2, <1>3, <1>4, <1>5, Zenon DEF Sending
  <2>2. \A g \in Sending : waiter'[g] = waiter[g] /\ (g \in Granted' <=> g \in Granted)
    BY <1>3, <1>4, <1>5, Zenon DEF Sending
  <2> QED  BY <1>1, <2>1, <2>2, SendFrame, Zenon DEF ChannelInv
<1>11. ReceiveInv'
  <2>1. \A g \in Granted : g \in Fibers \ {f}
    BY <1>4 DEF Granted
  <2>2. Bearing' = Bearing /\ \A g \in Bearing : waiter'[g].value = waiter[g].value
    BY <1>3, <1>5, <2>1, Zenon DEF Bearing
  <2> QED  BY <1>1, <2>2, ReceiveFrame, Zenon DEF ChannelInv
<1> QED  BY <1>6, <1>7, <1>8, <1>9, <1>10, <1>11 DEF ChannelInv, ShapeInv, OrderInv

\* A receiver that was woken returns the value or ErrChannelClosed, also if its
\* context is done.
LEMMA ReceiveReturnsStep ==
  ASSUME Counting, ChannelInv, NEW f \in Fibers, ReceiveReturns(f)
  PROVE  ChannelInv'
<1>1. /\ waiter[f].op = "recv" /\ ReceiveResult(f)
      /\ WaitEnds(f, "idle") \/ CancelTooLate(f, "idle")
      /\ UNCHANGED <<chanVars, waiter, sends, outcome, accepted, delivered>>
  BY Zenon DEF ReceiveReturns
<1>2. WaiterInv /\ pc \in [Fibers -> PC]
  BY DEF ChannelInv, ShapeInv, QueueInv
<1>3. /\ WaiterInv' /\ f \in Granted /\ Parked' = Parked /\ Granted' = Granted \ {f}
      /\ pc' = [pc EXCEPT ![f] = "idle"]
  <2>1. "idle" \notin Waiting \cup {"withdrawn"}
    BY DEF Waiting
  <2> QED  BY <1>1, <1>2, <2>1, ReturnStep, Zenon
<1>4. pc' \in [Fibers -> PC]
  BY <1>2, <1>3 DEF PC
<1>5. Sending' = Sending /\ \A g \in Sending : g \in Granted' <=> g \in Granted
  BY <1>1, <1>2, <1>3, Zenon DEF Sending
<1>6. ShapeInv'
  BY <1>1, <1>3, <1>4, ShapeFrame, Zenon DEF ChannelInv
<1>7. OrderInv'
  BY <1>1, OrderFrame, Zenon DEF ChannelInv, chanVars
<1>8. SendInv'
  BY <1>1, <1>5, SendFrame, Zenon DEF ChannelInv
<1>9. ReceiveInv'
  <2>0. Bearing' = Bearing \ {f} /\ waiter' = waiter /\ delivered' = delivered
    BY <1>1, <1>3, Zenon DEF Bearing
  <2>1. CASE waiter[f].err # "nil"
    <3>1. Bearing' = Bearing /\ got' = got
      BY <1>1, <2>0, <2>1, Zenon DEF Bearing, ReceiveResult
    <3> QED  BY <2>0, <3>1, ReceiveFrame DEF ChannelInv
  <2>2. CASE waiter[f].err = "nil"
    <3>0. PICK v : v = waiter[f].value
      OBVIOUS
    <3>1. f \in Bearing /\ got' = [got EXCEPT ![v] = got[v] + 1]
      BY <1>1, <1>3, <2>2, <3>0, Zenon DEF Bearing, ReceiveResult, Hands
    <3>2. v \in Values /\ got \in [Values -> Nat]
      BY <3>0, <3>1 DEF ChannelInv, ReceiveInv
    <3>3. Carrying(v)' = Carrying(v) \ {f} /\ f \in Carrying(v)
      BY <2>0, <3>0, <3>1 DEF Carrying
    <3>4. \A u \in Values \ {v} : Carrying(u)' = Carrying(u)
      BY <2>0, <3>0, <3>1 DEF Carrying
    <3>5. \A u \in Values : Carrying(u) \in SUBSET Fibers
      BY Zenon DEF Carrying, Bearing, Granted
    <3>6. \A u \in Values : Cardinality(Carrying(u)) \in Nat
      BY <3>5, Zenon DEF Counting
    <3>7. Cardinality(Carrying(v) \ {f}) = Cardinality(Carrying(v)) - 1
      BY <3>2, <3>3, <3>5, Zenon DEF Counting
    <3>8. got' \in [Values -> Nat] /\ got'[v] = got[v] + 1 /\ \A u \in Values \ {v} : got'[u] = got[u]
      BY <3>1, <3>2
    <3>9. ASSUME NEW u \in Values
          PROVE  got'[u] + Cardinality(Carrying(u)') = IF u \in Elements(delivered)' THEN 1 ELSE 0
      <4>0. Elements(delivered)' = Elements(delivered)
        BY <2>0, Zenon
      <4>1. got[u] + Cardinality(Carrying(u)) = IF u \in Elements(delivered) THEN 1 ELSE 0
        BY Zenon DEF ChannelInv, ReceiveInv
      <4>2. Cardinality(Carrying(u)) \in Nat /\ got[u] \in Nat
        BY <3>2, <3>6
      <4>3. CASE u = v
        <5>1. Cardinality(Carrying(u)') = Cardinality(Carrying(u)) - 1
          BY <3>3, <3>7, <4>3
        <5>2. got'[u] = got[u] + 1
          BY <3>8, <4>3
        <5> QED  BY <4>0, <4>1, <4>2, <5>1, <5>2
      <4>4. CASE u # v
        BY <3>4, <3>8, <4>0, <4>1, <4>4, Zenon
      <4> QED  BY <4>3, <4>4
    <3>10. ASSUME NEW u \in Values
           PROVE  (got[u] + Cardinality(Carrying(u)) = IF u \in Elements(delivered) THEN 1 ELSE 0)'
      BY <3>9, Zenon DEF Cardinality
    <3>11. \A g \in Bearing' : waiter'[g].value \in Values
      BY <2>0 DEF ChannelInv, ReceiveInv
    <3> QED  BY <3>8, <3>10, <3>11, Zenon DEF ReceiveInv
  <2> QED  BY <2>1, <2>2
<1> QED  BY <1>6, <1>7, <1>8, <1>9 DEF ChannelInv

\* A cancelled Receive takes its waiter out of the queue.
LEMMA ReceiveRemovesStep ==
  ASSUME ChannelInv, NEW f \in Fibers, ReceiveCtxRemoves(f)
  PROVE  ChannelInv'
<1>1. /\ waiter[f].op = "recv" /\ Withdraw(f) /\ receivers' = Dequeue(receivers, f)
      /\ UNCHANGED <<capacity, buffer, closed, senders, waiter>>
      /\ UNCHANGED <<sends, outcome, got, accepted, delivered>>
  BY Zenon DEF ReceiveCtxRemoves, history
<1>2. WaiterInv /\ pc \in [Fibers -> PC] /\ IsQueue(receivers)
  BY Zenon DEF ChannelInv, ShapeInv, QueueInv
<1>3. /\ WaiterInv' /\ f \in Parked /\ Parked' = Parked \ {f} /\ Granted' = Granted
      /\ pc' = [pc EXCEPT ![f] = "withdrawn"]
  BY <1>1, <1>2, WithdrawStep, Zenon
<1>4. pc' \in [Fibers -> PC]
  BY <1>2, <1>3 DEF PC
<1>5. Sending' = Sending /\ Bearing' = Bearing
  BY <1>1, <1>2, <1>3, Zenon DEF Sending, Bearing
<1>6. IsQueue(receivers)' /\ Elements(receivers)' = Elements(receivers) \ {f}
  <2>1. IsQueue(Dequeue(receivers, f)) /\ Elements(Dequeue(receivers, f)) = Elements(receivers) \ {f}
    BY <1>2, QueueRemove, Zenon
  <2> QED  BY <1>1, <2>1, Zenon
<1>7. QueueInv'
  <2>1. Elements(receivers)' = {g \in Parked' : waiter'[g].op = "recv"}
    BY <1>1, <1>3, <1>6, Zenon DEF ChannelInv, ShapeInv, QueueInv
  <2>2. Elements(senders)' = {g \in Parked' : waiter'[g].op = "send"}
    BY <1>1, <1>3, Zenon DEF ChannelInv, ShapeInv, QueueInv
  <2>3. waiter' \in [Fibers -> WaiterRecord] /\ IsQueue(senders)'
    BY <1>1, Zenon DEF ChannelInv, ShapeInv, QueueInv
  <2> QED  BY <1>3, <1>4, <1>6, <2>1, <2>2, <2>3, Zenon DEF QueueInv
<1>8. BufferInv'
  <2>1. receivers' # <<>> => receivers # <<>>
    BY <1>2, <1>6, QueueEmpty
  <2> QED  BY <1>1, <2>1, Zenon DEF ChannelInv, ShapeInv, BufferInv
<1>9. OrderInv'
  BY <1>1, OrderFrame, Zenon DEF ChannelInv
<1>10. SendInv'
  BY <1>1, <1>3, <1>5, SendFrame, Zenon DEF ChannelInv
<1>11. ReceiveInv'
  BY <1>1, <1>5, ReceiveFrame, Zenon DEF ChannelInv
<1> QED  BY <1>7, <1>8, <1>9, <1>10, <1>11 DEF ChannelInv, ShapeInv

\* A cancelled Receive returns.
LEMMA ReceiveFailsStep ==
  ASSUME ChannelInv, NEW f \in Fibers, ReceiveCtxFails(f)
  PROVE  ChannelInv'
<1>1. /\ waiter[f].op = "recv" /\ CancelReturns(f) /\ UNCHANGED <<chanVars, waiter>>
      /\ UNCHANGED <<sends, outcome, got, accepted, delivered>>
  BY DEF ReceiveCtxFails, history
<1>2. WaiterInv /\ pc \in [Fibers -> PC]
  BY DEF ChannelInv, ShapeInv, QueueInv
<1>3. /\ WaiterInv' /\ Parked' = Parked /\ Granted' = Granted
      /\ pc[f] = "withdrawn" /\ pc' = [pc EXCEPT ![f] = "idle"]
  BY <1>1, <1>2, CancelReturnsStep, Zenon
<1>4. pc' \in [Fibers -> PC]
  BY <1>2, <1>3 DEF PC
<1>5. Sending' = Sending /\ Bearing' = Bearing
  BY <1>1, <1>2, <1>3, Zenon DEF Sending, Bearing
<1>6. ShapeInv'
  BY <1>1, <1>3, <1>4, ShapeFrame, Zenon DEF ChannelInv
<1>7. OrderInv'
  BY <1>1, OrderFrame, Zenon DEF ChannelInv, chanVars
<1>8. SendInv'
  BY <1>1, <1>3, <1>5, SendFrame, Zenon DEF ChannelInv
<1>9. ReceiveInv'
  BY <1>1, <1>5, ReceiveFrame, Zenon DEF ChannelInv
<1> QED  BY <1>6, <1>7, <1>8, <1>9 DEF ChannelInv

\* The context of a waiting call is done.
LEMMA WaitCtxDoneStep ==
  ASSUME ChannelInv, NEW f \in Fibers, WaitCtxDone(f)
  PROVE  ChannelInv'
<1>1. /\ CtxDone(f) /\ UNCHANGED <<chanVars, waiter>>
      /\ UNCHANGED <<sends, outcome, got, accepted, delivered>>
  BY DEF WaitCtxDone, history
<1>2. WaiterInv /\ pc \in [Fibers -> PC]
  BY DEF ChannelInv, ShapeInv, QueueInv
<1>3. /\ WaiterInv' /\ Parked' = Parked /\ Granted' = Granted
      /\ pc[f] = "waitCtx" /\ pc' = [pc EXCEPT ![f] = "cancelled"]
  BY <1>1, <1>2, CtxDoneStep
<1>4. pc' \in [Fibers -> PC]
  BY <1>2, <1>3 DEF PC, Waiting
<1>5. Sending' = Sending /\ Bearing' = Bearing
  BY <1>1, <1>2, <1>3, Zenon DEF Sending, Bearing, Waiting
<1>6. ShapeInv'
  BY <1>1, <1>3, <1>4, ShapeFrame DEF ChannelInv
<1>7. OrderInv'
  BY <1>1, OrderFrame DEF ChannelInv, chanVars
<1>8. SendInv'
  BY <1>1, <1>3, <1>5, SendFrame DEF ChannelInv
<1>9. ReceiveInv'
  BY <1>1, <1>5, ReceiveFrame DEF ChannelInv
<1> QED  BY <1>6, <1>7, <1>8, <1>9 DEF ChannelInv

-----------------------------------------------------------------------------
(* Closing *)

\* Close wakes everybody with ErrChannelClosed; the values of the senders are
\* not taken, and what is kept stays to be received.
LEMMA CloseStep ==
  ASSUME ChannelInv, Close
  PROVE  ChannelInv'
<1>1. /\ ~closed /\ closed' = TRUE /\ receivers' = <<>> /\ senders' = <<>>
      /\ Wake(Elements(receivers) \cup Elements(senders))
      /\ waiter' = [f \in Fibers |-> IF f \in Elements(receivers) \cup Elements(senders)
                                       THEN [waiter[f] EXCEPT !.err = "closed"] ELSE waiter[f]]
      /\ UNCHANGED <<pc, capacity, buffer>>
      /\ UNCHANGED <<sends, outcome, got, accepted, delivered>>
  BY DEF Close, history
<1>2. WaiterInv /\ pc \in [Fibers -> PC] /\ pc' \in [Fibers -> PC] /\ waiter \in [Fibers -> WaiterRecord]
  BY <1>1 DEF ChannelInv, ShapeInv, QueueInv
<1>3. Elements(receivers) \cup Elements(senders) = Parked
  <2>1. \A f \in Parked : waiter[f].op \in {"send", "recv"}
    BY <1>2 DEF Parked, WaiterRecord
  <2> QED  BY <2>1 DEF ChannelInv, ShapeInv, QueueInv
<1>4. WaiterInv' /\ Parked' = {} /\ Granted' = Granted \cup Parked
  <2>1. Parked \in SUBSET Parked /\ Wake(Parked)
    BY <1>1, <1>3, Zenon
  <2>2. WaiterInv' /\ Parked' = Parked \ Parked /\ Granted' = Granted \cup Parked
    BY <1>1, <1>2, <2>1, WakeStep, Zenon
  <2> QED  BY <2>2
<1>5. /\ waiter' \in [Fibers -> WaiterRecord]
      /\ \A f \in Fibers : waiter'[f].op = waiter[f].op /\ waiter'[f].value = waiter[f].value
      /\ \A f \in Parked : f \in Fibers /\ waiter'[f].err = "closed"
      /\ \A f \in Fibers \ Parked : waiter'[f] = waiter[f]
  <2>1. waiter' = [f \in Fibers |-> IF f \in Parked THEN [waiter[f] EXCEPT !.err = "closed"] ELSE waiter[f]]
    BY <1>1, <1>3
  <2>2. Parked \subseteq Fibers
    BY DEF Parked
  <2> QED  BY <1>2, <2>1, <2>2, Zenon DEF WaiterRecord
<1>6. QueueInv'
  <2>1. /\ IsQueue(senders)' /\ IsQueue(receivers)'
        /\ Elements(senders)' = {} /\ Elements(receivers)' = {}
    BY <1>1, QueueEmpty
  <2> QED  BY <1>2, <1>4, <1>5, <2>1, Zenon DEF QueueInv
<1>7. BufferInv'
  BY <1>1 DEF ChannelInv, ShapeInv, BufferInv
<1>8. FifoInv'
  BY <1>1, Zenon DEF ChannelInv, OrderInv, FifoInv
<1>9. ValueInv'
  <2>1. DOMAIN senders' = {}
    BY <1>1
  <2> QED  BY <1>1, <2>1, Zenon DEF ChannelInv, OrderInv, ValueInv
<1>10. ReceiveInv'
  <2>1. \A f \in Granted : f \in Fibers \ Parked
    BY DEF Granted, Parked
  <2>2. Bearing' = Bearing
    BY <1>4, <1>5, <2>1, Zenon DEF Bearing
  <2>3. \A f \in Bearing : waiter'[f].value = waiter[f].value
    BY <1>5, <2>1, Zenon DEF Bearing
  <2> QED  BY <1>1, <2>2, <2>3, ReceiveFrame DEF ChannelInv
<1>11. SendInv'
  <2>0. Sending' = Sending /\ \A f \in Sending : f \in Fibers /\ waiter'[f].value = waiter[f].value
    BY <1>1, <1>5 DEF Sending
  <2>1. Elements(accepted)' = Elements(accepted)
    BY <1>1, Zenon
  <2>2. ASSUME NEW f \in Sending'
        PROVE  (/\ waiter[f].value \in 1..sends /\ outcome[waiter[f].value] = "none"
                /\ waiter[f].value \in Elements(accepted) <=> f \in Granted /\ waiter[f].err = "nil"
                /\ \A g \in Sending : waiter[f].value = waiter[g].value => f = g)'
    <3>1. /\ waiter[f].value \in 1..sends /\ outcome[waiter[f].value] = "none"
          /\ waiter[f].value \in Elements(accepted) <=> f \in Granted /\ waiter[f].err = "nil"
          /\ \A g \in Sending : waiter[f].value = waiter[g].value => f = g
      BY <2>0, Zenon DEF ChannelInv, SendInv
    <3>2. f \in Granted' /\ waiter'[f].err = "nil" <=> f \in Granted /\ waiter[f].err = "nil"
      <4>1. f \in Parked => f \notin Granted /\ waiter'[f].err = "closed"
        BY <1>5, Zenon DEF Parked, Granted
      <4>2. f \notin Parked => waiter'[f] = waiter[f]
        BY <1>5, <2>0, Zenon
      <4> QED  BY <1>4, <4>1, <4>2, Zenon
    <3>3. waiter'[f].value \in Elements(accepted)' <=> f \in Granted' /\ waiter'[f].err = "nil"
      BY <2>0, <2>1, <3>1, <3>2, Zenon
    <3>4. /\ waiter'[f].value \in 1..sends' /\ outcome'[waiter'[f].value] = "none"
          /\ \A g \in Sending' : waiter'[f].value = waiter'[g].value => f = g
      BY <1>1, <2>0, <3>1
    <3> QED  BY <3>3, <3>4, Zenon
  <2> QED  BY <1>1, <2>1, <2>2, Zenon DEF ChannelInv, SendInv, ResultsHonest
<1> QED  BY <1>6, <1>7, <1>8, <1>9, <1>10, <1>11 DEF ChannelInv, ShapeInv, OrderInv

-----------------------------------------------------------------------------
(* The channel *)

\* Every step of a channel keeps the invariant.
LEMMA ChannelStep ==
  ASSUME Counting, ChannelInv, Next
  PROVE  ChannelInv'
<1>1. CASE TrySend
  <2> DEFINE v == sends + 1
  <2>1. sends < MaxSends /\ sends' = v /\ UNCHANGED <<pc, capacity, closed, got>>
    BY <1>1 DEF TrySend
  <2>2. ASSUME NEW r \in {"closed", "full"}, Returns(v, r),
               UNCHANGED <<fb, ready, waiter, buffer, senders, receivers, accepted, delivered>>
        PROVE  ChannelInv'
    <3>1. UNCHANGED <<waiterVars, chanVars, waiter, got, accepted, delivered>>
      BY <2>1, <2>2, Zenon DEF waiterVars, chanVars
    <3> QED  BY <2>1, <2>2, <3>1, RejectStep, Zenon
  <2>3. CASE SendToReceiver(v) /\ Returns(v, "nil")
    BY <2>1, <2>3, ToReceiverStep
  <2>4. CASE SendToBuffer(v) /\ Returns(v, "nil")
    BY <2>1, <2>4, ToBufferStep
  <2> QED  BY <1>1, <2>2, <2>3, <2>4, Zenon DEF TrySend
<1>2. CASE TryReceive
  BY <1>2, BufferedStep, FromSenderStep DEF TryReceive
<1>3. CASE Close
  BY <1>3, CloseStep
<1>4. ASSUME NEW f \in Fibers, Send(f) \/ SendCtx(f) PROVE ChannelInv'
  BY <1>4, SendParkStep DEF Send, SendCtx
<1>5. ASSUME NEW f \in Fibers, SendReturns(f) \/ SendCtxRemoves(f) \/ SendCtxFails(f)
      PROVE  ChannelInv'
  BY <1>5, SendReturnsStep, SendRemovesStep, SendFailsStep
<1>6. ASSUME NEW f \in Fibers, Receive(f) \/ ReceiveCtx(f) PROVE ChannelInv'
  BY <1>6, ReceiveParkStep DEF Receive, ReceiveCtx
<1>7. ASSUME NEW f \in Fibers, ReceiveReturns(f) \/ ReceiveCtxRemoves(f) \/ ReceiveCtxFails(f)
      PROVE  ChannelInv'
  BY <1>7, ReceiveReturnsStep, ReceiveRemovesStep, ReceiveFailsStep
<1>8. ASSUME NEW f \in Fibers, WaitCtxDone(f) PROVE ChannelInv'
  BY <1>8, WaitCtxDoneStep
<1> QED  BY <1>1, <1>2, <1>3, <1>4, <1>5, <1>6, <1>7, <1>8, Zenon DEF Next

\* So does a step of something else.
LEMMA ChannelStutters ==
  ASSUME ChannelInv, UNCHANGED vars
  PROVE  ChannelInv'
<1>1. UNCHANGED <<fb, pc, ready>> /\ UNCHANGED <<chanVars, waiter>>
  BY DEF vars, waiterVars
<1>2. UNCHANGED <<sends, outcome, got, accepted, delivered>>
  BY DEF vars, history
<1>3. Parked' = Parked /\ Granted' = Granted
  BY <1>1, Zenon DEF Parked, Granted
<1>4. Sending' = Sending /\ Bearing' = Bearing
  BY <1>1, <1>3, Zenon DEF Sending, Bearing
<1>5. ShapeInv'
  <2>1. WaiterInv' /\ pc' \in [Fibers -> PC]
    BY <1>1, <1>3, Zenon DEF ChannelInv, ShapeInv, QueueInv, WaiterInv
  <2> QED  BY <1>1, <1>3, <2>1, ShapeFrame DEF ChannelInv
<1>6. OrderInv'
  BY <1>1, <1>2, OrderFrame DEF ChannelInv, chanVars
<1>7. SendInv'
  BY <1>1, <1>2, <1>3, <1>4, SendFrame, Zenon DEF ChannelInv
<1>8. ReceiveInv'
  BY <1>1, <1>2, <1>4, ReceiveFrame DEF ChannelInv
<1> QED  BY <1>5, <1>6, <1>7, <1>8 DEF ChannelInv

\* Two slices, one after the other.
LEMMA Concatenated ==
  ASSUME NEW d \in Seq(Values), NEW b \in Seq(Values)
  PROVE  /\ Len(d \o b) = Len(d) + Len(b) /\ Len(d) \in Nat /\ Len(b) \in Nat
         /\ \A i \in 1..Len(d) : (d \o b)[i] = d[i]
OBVIOUS

\* A step that is not Close takes at most one value, and none once the channel is
\* closed, and gives out at most one.
LEMMA Transfers ==
  ASSUME ChannelInv, Next, ~Close
  PROVE  /\ closed' = closed /\ capacity' = capacity
         /\ accepted' = accepted \/ (~closed /\ \E v \in Values : accepted' = Append(accepted, v))
         /\ delivered' = delivered \/ \E u \in Values : delivered' = Append(delivered, u)
<1>1. CASE TrySend
  <2> DEFINE v == sends + 1
  <2>1. sends < MaxSends /\ closed' = closed /\ capacity' = capacity
    BY <1>1, Zenon DEF TrySend
  <2>2. v \in Values
    BY <2>1, NextSend, Zenon DEF ChannelInv
  <2> HIDE DEF v
  <2>3. \/ accepted' = accepted /\ delivered' = delivered
        \/ ~closed /\ accepted' = Append(accepted, v) /\ delivered' = delivered
        \/ ~closed /\ accepted' = Append(accepted, v) /\ delivered' = Append(delivered, v)
    BY <1>1 DEF TrySend, SendToReceiver, SendToBuffer, v
  <2> QED  BY <2>1, <2>2, <2>3, Zenon
<1>2. CASE TryReceive
  <2> DEFINE v == waiter[Head(senders)].value
             u == Head(buffer)
  <2>1. closed' = closed /\ capacity' = capacity
    BY <1>2 DEF TryReceive
  <2>2. senders # <<>> => v \in Values /\ ~closed
    BY FirstSender, Zenon DEF ChannelInv
  <2>3. buffer # <<>> => u \in Values
    BY TakeOne DEF ChannelInv, ShapeInv, BufferInv
  <2> HIDE DEF u, v
  <2>4. CASE ReceiveBuffered
    <3>1. buffer # <<>> /\ delivered' = Append(delivered, u)
      BY <2>4 DEF ReceiveBuffered, u
    <3>2. accepted' = accepted \/ (senders # <<>> /\ accepted' = Append(accepted, v))
      <4>1. ASSUME NEW b, admitSenderLocked(b)
            PROVE  accepted' = accepted \/ (senders # <<>> /\ accepted' = Append(accepted, v))
        BY <4>1 DEF admitSenderLocked, v
      <4> QED  BY <2>4, <4>1, Zenon DEF ReceiveBuffered
    <3> QED  BY <2>1, <2>2, <2>3, <3>1, <3>2
  <2>5. CASE ReceiveFromSender
    <3>1. senders # <<>> /\ accepted' = Append(accepted, v) /\ delivered' = Append(delivered, v)
      BY <2>5 DEF ReceiveFromSender, v
    <3> QED  BY <2>1, <2>2, <3>1
  <2> QED  BY <1>2, <2>4, <2>5 DEF TryReceive
<1>3. ASSUME NEW f \in Fibers,
             \/ Send(f) \/ SendCtx(f) \/ SendReturns(f) \/ SendCtxRemoves(f) \/ SendCtxFails(f)
             \/ Receive(f) \/ ReceiveCtx(f) \/ ReceiveReturns(f) \/ ReceiveCtxRemoves(f)
             \/ ReceiveCtxFails(f) \/ WaitCtxDone(f)
      PROVE  /\ closed' = closed /\ capacity' = capacity
             /\ accepted' = accepted /\ delivered' = delivered
  <2>1. CASE Send(f) \/ SendCtx(f)
    BY <2>1, Zenon DEF Send, SendCtx, SendPark
  <2>2. CASE SendReturns(f) \/ SendCtxRemoves(f) \/ SendCtxFails(f)
    BY <2>2, Zenon DEF SendReturns, SendCtxRemoves, SendCtxFails, chanVars, history
  <2>3. CASE Receive(f) \/ ReceiveCtx(f)
    BY <2>3, Zenon DEF Receive, ReceiveCtx, ReceivePark, history
  <2>4. CASE ReceiveReturns(f) \/ ReceiveCtxRemoves(f) \/ ReceiveCtxFails(f) \/ WaitCtxDone(f)
    BY <2>4, Zenon DEF ReceiveReturns, ReceiveCtxRemoves, ReceiveCtxFails, WaitCtxDone, chanVars, history
  <2> QED  BY <1>3, <2>1, <2>2, <2>3, <2>4, Zenon
<1> QED  BY <1>1, <1>2, <1>3, Zenon DEF Next

\* Every step of a channel is a step of the bounded FIFO, or none of its business.
LEMMA FifoStep ==
  ASSUME Counting, ChannelInv, Next
  PROVE  Abstract!Next
<1>0. ChannelInv'
  BY ChannelStep
<1>1. CASE Close
  BY <1>1 DEF Close, history, Abstract!Next, Abstract!Shut
<1>2. CASE ~Close
  <2>1. /\ UNCHANGED <<closed, capacity>>
        /\ accepted' = accepted \/ (~closed /\ \E v \in Values : accepted' = Append(accepted, v))
        /\ delivered' = delivered \/ \E u \in Values : delivered' = Append(delivered, u)
    BY <1>2, Transfers
  <2>2. /\ accepted \in Seq(Values) /\ accepted' \in Seq(Values)
        /\ delivered \in Seq(Values) /\ delivered' \in Seq(Values)
        /\ buffer' \in Seq(Values) /\ accepted' = delivered' \o buffer'
        /\ Len(buffer') <= capacity'
        /\ \A i, j \in DOMAIN accepted' : i < j => accepted'[i] < accepted'[j]
    BY <1>0, Zenon DEF ChannelInv, ShapeInv, BufferInv, OrderInv, ValueInv, FifoInv
  <2>3. ASSUME NEW v \in Values, ~closed, accepted' = Append(accepted, v)
        PROVE  Abstract!Put(v)
    <3>1. /\ DOMAIN accepted' = 1..Len(accepted) + 1 /\ DOMAIN accepted = 1..Len(accepted)
          /\ Len(accepted) \in Nat /\ accepted'[Len(accepted) + 1] = v
          /\ \A i \in 1..Len(accepted) : accepted'[i] = accepted[i]
      BY <2>2, <2>3, AppendOne
    <3>2. \A i \in DOMAIN accepted : accepted[i] < v
      <4>1. \A i \in DOMAIN accepted : /\ i < Len(accepted) + 1 /\ i \in DOMAIN accepted'
                                       /\ Len(accepted) + 1 \in DOMAIN accepted'
        BY <3>1
      <4>2. \A i \in DOMAIN accepted : accepted'[i] < accepted'[Len(accepted) + 1]
        BY <2>2, <4>1, Zenon
      <4> QED  BY <3>1, <4>2
    <3> QED  BY <2>3, <3>2 DEF Abstract!Put
  <2>4. ASSUME NEW u \in Values, delivered' = Append(delivered, u)
        PROVE  Abstract!Get
    <3>1. /\ Len(delivered') = Len(delivered) + 1 /\ Len(delivered) \in Nat
          /\ delivered'[Len(delivered) + 1] = u
      BY <2>2, <2>4, AppendOne
    <3>2. /\ Len(accepted') = Len(delivered') + Len(buffer') /\ Len(buffer') \in Nat
          /\ \A i \in 1..Len(delivered') : accepted'[i] = delivered'[i]
      <4>1. \A d, b \in Seq(Values) : /\ Len(d \o b) = Len(d) + Len(b) /\ Len(b) \in Nat
                                      /\ \A i \in 1..Len(d) : (d \o b)[i] = d[i]
        BY Concatenated
      <4> QED  BY <2>2, <4>1, Zenon
    <3>3. Len(delivered) < Len(accepted') /\ accepted'[Len(delivered) + 1] = u
      BY <3>1, <3>2
    <3> QED  BY <2>4, <3>3 DEF Abstract!Get
  <2>5. Len(accepted') - Len(delivered') <= capacity
    <3>1. Len(accepted') = Len(delivered') + Len(buffer') /\ Len(buffer') \in Nat /\ Len(delivered') \in Nat
      BY <2>2, Concatenated
    <3> QED  BY <2>1, <2>2, <3>1
  <2>6. (\E v \in 1..MaxSends : Abstract!Put(v)) \/ UNCHANGED accepted
    BY <2>1, <2>3 DEF Values
  <2>7. Abstract!Get \/ UNCHANGED delivered
    BY <2>1, <2>4
  <2> QED  BY <2>1, <2>5, <2>6, <2>7 DEF Abstract!Next, Abstract!Step
<1> QED  BY <1>1, <1>2

\* What the invariant says of the state of a channel.
LEMMA ChannelInvImplies ==
  ASSUME Counting, ChannelInv
  PROVE  TypeOK /\ BlockedIsParked /\ NobodyWaitsInVain /\ ResultsHonest /\ NothingLost
<1>1. BlockedIsParked /\ fb \in [Fibers -> FiberRecord] /\ ready \subseteq Fibers
  BY WaiterInvImplies, Zenon DEF ChannelInv, ShapeInv, QueueInv, WaiterInv
<1>2. TypeOK
  BY <1>1, Zenon DEF ChannelInv, ShapeInv, QueueInv, BufferInv, OrderInv, ValueInv, FifoInv, SendInv,
              ReceiveInv, TypeOK, IsQueue
<1>3. Len(senders) + Len(receivers) = Cardinality(Parked)
  <2>1. /\ IsQueue(senders) /\ IsQueue(receivers)
        /\ Elements(senders) = {f \in Parked : waiter[f].op = "send"}
        /\ Elements(receivers) = {f \in Parked : waiter[f].op = "recv"}
        /\ waiter \in [Fibers -> WaiterRecord]
    BY Zenon DEF ChannelInv, ShapeInv, QueueInv
  <2>2. \A f \in Parked : waiter[f].op \in {"send", "recv"}
    BY <2>1 DEF Parked, WaiterRecord
  <2>3. /\ Elements(senders) \cup Elements(receivers) = Parked
        /\ Elements(senders) \cap Elements(receivers) = {}
        /\ Elements(senders) \in SUBSET Fibers /\ Elements(receivers) \in SUBSET Fibers
    BY <2>1, <2>2 DEF Parked
  <2>4. /\ Len(senders) = Cardinality(Elements(senders))
        /\ Len(receivers) = Cardinality(Elements(receivers))
    BY <2>1, Zenon DEF Counting
  <2>5. Cardinality(Parked) = Cardinality(Elements(senders)) + Cardinality(Elements(receivers))
    BY <2>3, Zenon DEF Counting
  <2> QED  BY <2>4, <2>5
<1>4. NobodyWaitsInVain
  BY <1>3, Zenon DEF ChannelInv, ShapeInv, QueueInv, BufferInv, NobodyWaitsInVain
<1>5. NothingLost
  <2>1. \A v \in Values : Carrying(v) = {f \in Granted : waiter[f].op = "recv" /\ waiter[f].err = "nil"
                                                         /\ waiter[f].value = v}
    BY DEF Carrying, Bearing
  <2> QED  BY <2>1, Zenon DEF ChannelInv, ReceiveInv, NothingLost
<1>6. ResultsHonest
  BY Zenon DEF ChannelInv, SendInv
<1> QED  BY <1>1, <1>2, <1>4, <1>5, <1>6

\* A new channel.
LEMMA ChannelInit ==
  ASSUME Counting, Init
  PROVE  ChannelInv /\ Abstract!Init
<1>1. /\ WaiterInv /\ Parked = {} /\ Granted = {} /\ pc = [f \in Fibers |-> "idle"]
  BY WaiterInvInit, Zenon DEF Init, WaiterInit
<1>2. /\ capacity \in Capacities /\ buffer = <<>> /\ closed = FALSE
      /\ senders = <<>> /\ receivers = <<>> /\ accepted = <<>> /\ delivered = <<>> /\ sends = 0
      /\ waiter = [f \in Fibers |-> [op |-> "recv", value |-> NoValue, err |-> "nil"]]
      /\ outcome = [v \in Values |-> "none"] /\ got = [v \in Values |-> 0]
  BY Zenon DEF Init
<1>3. QueueInv
  <2>1. waiter \in [Fibers -> WaiterRecord] /\ pc \in [Fibers -> PC]
    BY <1>1, <1>2, Zenon DEF WaiterRecord, NoValue, PC
  <2> QED  BY <1>1, <1>2, <2>1, QueueEmpty, Zenon DEF QueueInv
<1>4. BufferInv
  <2>1. buffer \in Seq(Values) /\ Len(buffer) = 0 /\ capacity \in Nat
    BY <1>2, ChannelAssumption
  <2>2. Len(buffer) <= capacity
    BY <2>1
  <2>3. closed \in BOOLEAN
    BY <1>2, Zenon
  <2> QED  BY <1>2, <2>1, <2>2, <2>3, Zenon DEF BufferInv
<1>5. ValueInv /\ FifoInv
  <2>1. <<>> \in Seq(Values) /\ <<>> \o <<>> = <<>> /\ DOMAIN <<>> = {}
    OBVIOUS
  <2>2. 0 \in 0..MaxSends
    BY ChannelAssumption
  <2> QED  BY <1>2, <2>1, <2>2, Zenon DEF ValueInv, FifoInv
<1>6. SendInv
  <2>1. Sending = {}
    BY <1>1, Zenon DEF Sending, Waiting
  <2> QED  BY <1>2, <2>1, Zenon DEF SendInv, ResultsHonest
<1>7. ReceiveInv
  <2>1. Bearing = {} /\ \A v \in Values : Carrying(v) = {}
    BY <1>1, Zenon DEF Bearing, Carrying
  <2>2. Elements(delivered) = {}
    BY <1>2, QueueEmpty, Zenon
  <2>3. Cardinality({}) = 0
    BY Zenon DEF Counting
  <2>4. \A v \in Values : got[v] = 0 /\ Cardinality(Carrying(v)) = 0
    BY <1>2, <2>1, <2>3, Zenon
  <2> QED  BY <1>2, <2>1, <2>2, <2>4 DEF ReceiveInv
<1> QED  BY <1>2, <1>3, <1>4, <1>5, <1>6, <1>7, Zenon DEF ChannelInv, ShapeInv, OrderInv, Abstract!Init
=============================================================================
