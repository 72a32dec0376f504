---------------------------- MODULE FiberChannel ----------------------------
(***************************************************************************)
(* FiberChannel (internal/sync/channel.go), and TypedFiberChannel, which   *)
(* only converts the values.  Send calls are numbered; the value sent is   *)
(* the number.  Any fiber sends and receives.  Calls that return an error  *)
(* without changing the channel are left out, except that the outcome of   *)
(* every Send is recorded.                                                 *)
(***************************************************************************)
EXTENDS Waiter, Integers

CONSTANTS Capacities,  \* the arguments of NewFiberChannel
          MaxSends       \* bound: number of Send calls

ASSUME ChannelAssumption == Capacities \subseteq Nat /\ MaxSends \in Nat

VARIABLES capacity, buffer, closed, senders, receivers,
          waiter,     \* the channelSender or channelReceiver of each fiber
          sends,      \* number of Send calls so far
          outcome,    \* what the call returned to the sender of each value
          got,        \* how often each value was returned to a receiver
          accepted,   \* history: the values the channel took, in order
          delivered   \* history: the values handed to receivers, in order

chanVars == <<capacity, buffer, closed, senders, receivers>>
history == <<sends, outcome, got, accepted, delivered>>
vars == <<waiterVars, chanVars, waiter, history>>

Values == 1..MaxSends
NoValue == 0
PC == Waiting \cup {"idle", "withdrawn"}

\* channelSender and channelReceiver.
WaiterRecord == [op : {"send", "recv"}, value : Values \cup {NoValue}, err : {"nil", "closed"}]

Init ==
  /\ WaiterInit
  /\ capacity \in Capacities
  /\ buffer = <<>> /\ closed = FALSE /\ senders = <<>> /\ receivers = <<>>
  /\ waiter = [f \in Fibers |-> [op |-> "recv", value |-> NoValue, err |-> "nil"]]
  /\ sends = 0
  /\ outcome = [v \in Values |-> "none"]
  /\ got = [v \in Values |-> 0]
  /\ accepted = <<>> /\ delivered = <<>>

Returns(v, result) == outcome' = [outcome EXCEPT ![v] = result]

Hands(v) == got' = [got EXCEPT ![v] = @ + 1]

-----------------------------------------------------------------------------
(* Sending *)

\* Hand the value to the oldest receiver.
SendToReceiver(v) ==
  /\ receivers # <<>>
  /\ waiter' = [waiter EXCEPT ![Head(receivers)].value = v,
                              ![Head(receivers)].err = "nil"]
  /\ Wake({Head(receivers)})
  /\ receivers' = Tail(receivers)
  /\ accepted' = Append(accepted, v)
  /\ delivered' = Append(delivered, v)
  /\ UNCHANGED <<buffer, senders>>

SendToBuffer(v) ==
  /\ receivers = <<>>
  /\ Len(buffer) < capacity
  /\ buffer' = Append(buffer, v)
  /\ accepted' = Append(accepted, v)
  /\ UNCHANGED <<fb, ready, waiter, senders, receivers, delivered>>

Full == receivers = <<>> /\ Len(buffer) >= capacity

\* A send that returns at once.  Only TrySend, and a Send without a fiber, give
\* up on a full channel.
TrySend ==
  LET v == sends + 1
      rejected(err) == /\ Returns(v, err)
                       /\ UNCHANGED <<fb, ready, waiter, buffer, senders, receivers,
                                      accepted, delivered>>
  IN /\ sends < MaxSends
     /\ sends' = v
     /\ \/ closed /\ rejected("closed")
        \/ ~ closed /\ Full /\ rejected("full")
        \/ ~ closed /\ (SendToReceiver(v) \/ SendToBuffer(v)) /\ Returns(v, "nil")
     /\ UNCHANGED <<pc, capacity, closed, got>>

\* A send that waits.
SendPark(f, state) ==
  /\ sends < MaxSends
  /\ ~ closed /\ Full
  /\ Park(f, state)
  /\ waiter' = [waiter EXCEPT ![f] = [op |-> "send", value |-> sends + 1, err |-> "nil"]]
  /\ senders' = Append(senders, f)
  /\ sends' = sends + 1
  /\ UNCHANGED <<capacity, buffer, closed, receivers, outcome, got, accepted, delivered>>

Send(f) == SendPark(f, "wait")

SendCtx(f) == SendPark(f, "waitCtx")

SendReturns(f) ==
  /\ waiter[f].op = "send"
  /\ WaitEnds(f, "idle") \/ CancelTooLate(f, "idle")
  /\ Returns(waiter[f].value, waiter[f].err)
  /\ UNCHANGED <<chanVars, waiter, sends, got, accepted, delivered>>

\* removeSenderLocked
SendCtxRemoves(f) ==
  /\ waiter[f].op = "send"
  /\ Withdraw(f)
  /\ senders' = Dequeue(senders, f)
  /\ UNCHANGED <<capacity, buffer, closed, receivers, waiter, history>>

SendCtxFails(f) ==
  /\ waiter[f].op = "send"
  /\ CancelReturns(f)
  /\ Returns(waiter[f].value, "ctx")
  /\ UNCHANGED <<chanVars, waiter, sends, got, accepted, delivered>>

-----------------------------------------------------------------------------
(* Receiving *)

\* Take the oldest sender's value into buffer b, if it may be.
admitSenderLocked(b) ==
  IF senders = <<>> \/ closed \/ Len(b) >= capacity
    THEN /\ buffer' = b
         /\ UNCHANGED <<fb, ready, waiter, senders, accepted>>
    ELSE /\ buffer' = Append(b, waiter[Head(senders)].value)
         /\ accepted' = Append(accepted, waiter[Head(senders)].value)
         /\ waiter' = [waiter EXCEPT ![Head(senders)].err = "nil"]
         /\ Wake({Head(senders)})
         /\ senders' = Tail(senders)

\* Mutant of ReceiveBuffered: the freed slot is not offered to a sender.
ReceiveBufferedOnly ==
  /\ buffer # <<>>
  /\ delivered' = Append(delivered, Head(buffer))
  /\ Hands(Head(buffer))
  /\ buffer' = Tail(buffer)
  /\ UNCHANGED <<fb, ready, waiter, senders, accepted>>

ReceiveBuffered ==
  /\ buffer # <<>>
  /\ delivered' = Append(delivered, Head(buffer))
  /\ Hands(Head(buffer))
  /\ admitSenderLocked(Tail(buffer))

ReceiveFromSender ==
  /\ buffer = <<>> /\ senders # <<>>
  /\ LET v == waiter[Head(senders)].value
     IN /\ accepted' = Append(accepted, v)
        /\ delivered' = Append(delivered, v)
        /\ Hands(v)
  /\ waiter' = [waiter EXCEPT ![Head(senders)].err = "nil"]
  /\ Wake({Head(senders)})
  /\ senders' = Tail(senders)
  /\ UNCHANGED buffer

\* A receive that returns a value at once.
TryReceive ==
  /\ ReceiveBuffered \/ ReceiveFromSender
  /\ UNCHANGED <<pc, capacity, closed, receivers, sends, outcome>>

\* A receive that waits.
ReceivePark(f, state) ==
  /\ buffer = <<>> /\ senders = <<>> /\ ~ closed
  /\ Park(f, state)
  /\ waiter' = [waiter EXCEPT ![f] = [op |-> "recv", value |-> NoValue, err |-> "nil"]]
  /\ receivers' = Append(receivers, f)
  /\ UNCHANGED <<capacity, buffer, closed, senders, history>>

Receive(f) == ReceivePark(f, "wait")

ReceiveCtx(f) == ReceivePark(f, "waitCtx")

\* The value, or ErrChannelClosed, goes to the caller.
ReceiveResult(f) ==
  IF waiter[f].err = "nil" THEN Hands(waiter[f].value) ELSE UNCHANGED got

\* Mutant of ReceiveReturns: a cancelled call drops the value that raced with it.
ReceiveReturnsDrops(f) ==
  /\ waiter[f].op = "recv"
  /\ \/ WaitEnds(f, "idle") /\ ReceiveResult(f)
     \/ CancelTooLate(f, "idle") /\ UNCHANGED got
  /\ UNCHANGED <<chanVars, waiter, sends, outcome, accepted, delivered>>

ReceiveReturns(f) ==
  /\ waiter[f].op = "recv"
  /\ WaitEnds(f, "idle") \/ CancelTooLate(f, "idle")
  /\ ReceiveResult(f)
  /\ UNCHANGED <<chanVars, waiter, sends, outcome, accepted, delivered>>

\* removeReceiverLocked
ReceiveCtxRemoves(f) ==
  /\ waiter[f].op = "recv"
  /\ Withdraw(f)
  /\ receivers' = Dequeue(receivers, f)
  /\ UNCHANGED <<capacity, buffer, closed, senders, waiter, history>>

ReceiveCtxFails(f) ==
  /\ waiter[f].op = "recv"
  /\ CancelReturns(f)
  /\ UNCHANGED <<chanVars, waiter, history>>

WaitCtxDone(f) == CtxDone(f) /\ UNCHANGED <<chanVars, waiter, history>>

-----------------------------------------------------------------------------
\* Mutant of Close: blocked senders are not woken.
CloseReceivers ==
  /\ ~ closed
  /\ closed' = TRUE
  /\ waiter' = [f \in Fibers |-> IF f \in Elements(receivers)
                                   THEN [waiter[f] EXCEPT !.err = "closed"] ELSE waiter[f]]
  /\ Wake(Elements(receivers))
  /\ receivers' = <<>>
  /\ UNCHANGED <<pc, capacity, buffer, senders, history>>

\* A second Close does nothing.
Close ==
  LET waiting == Elements(receivers) \cup Elements(senders)
  IN /\ ~ closed
     /\ closed' = TRUE
     /\ waiter' = [f \in Fibers |-> IF f \in waiting
                                      THEN [waiter[f] EXCEPT !.err = "closed"] ELSE waiter[f]]
     /\ Wake(waiting)
     /\ receivers' = <<>> /\ senders' = <<>>
     /\ UNCHANGED <<pc, capacity, buffer, history>>

Next ==
  \/ TrySend \/ TryReceive \/ Close
  \/ \E f \in Fibers :
       \/ Send(f) \/ SendCtx(f) \/ SendReturns(f) \/ SendCtxRemoves(f) \/ SendCtxFails(f)
       \/ Receive(f) \/ ReceiveCtx(f) \/ ReceiveReturns(f) \/ ReceiveCtxRemoves(f)
       \/ ReceiveCtxFails(f)
       \/ WaitCtxDone(f)

Spec == Init /\ [][Next]_vars

\* A call whose channel is closed, or whose context is done, goes on.
Proceed(f) ==
  \/ SendReturns(f) \/ SendCtxRemoves(f) \/ SendCtxFails(f)
  \/ ReceiveReturns(f) \/ ReceiveCtxRemoves(f) \/ ReceiveCtxFails(f)

FairSpec == Spec /\ \A f \in Fibers : WF_vars(Proceed(f))
-----------------------------------------------------------------------------
\* Type invariant of the channel, its waiters and the histories.
TypeOK ==
  /\ fb \in [Fibers -> FiberRecord]
  /\ pc \in [Fibers -> PC]
  /\ ready \subseteq Fibers
  /\ buffer \in Seq(Values) /\ capacity \in Capacities /\ Len(buffer) <= capacity
  /\ closed \in BOOLEAN
  /\ senders \in Seq(Fibers) /\ receivers \in Seq(Fibers)
  /\ waiter \in [Fibers -> WaiterRecord]
  /\ sends \in 0..MaxSends
  /\ outcome \in [Values -> {"none", "nil", "closed", "full", "ctx"}]
  /\ got \in [Values -> Nat]
  /\ accepted \in Seq(Values) /\ delivered \in Seq(Values)

\* A Send reports success only if the channel took its value, and an error only
\* if it did not, also when Close or a cancelled context races with the hand-over.
ResultsHonest ==
  \A v \in Values :
    /\ outcome[v] = "nil" => v \in Elements(accepted)
    /\ outcome[v] \in {"closed", "full", "ctx"} => v \notin Elements(accepted)

\* Every value handed out ends in exactly one receiver's hands: it has been
\* returned once, or one woken receiver holds it.  No cancellation loses it.
NothingLost ==
  \A v \in Values :
    got[v] + Cardinality({f \in Granted : waiter[f].op = "recv" /\ waiter[f].err = "nil"
                                          /\ waiter[f].value = v})
      = IF v \in Elements(delivered) THEN 1 ELSE 0

\* Fibers wait only for a reason: the queues hold the parked fibers, senders wait
\* for a full buffer and receivers for an empty channel, and nobody waits on a
\* closed one.
NobodyWaitsInVain ==
  /\ Elements(senders) = {f \in Parked : waiter[f].op = "send"}
  /\ Elements(receivers) = {f \in Parked : waiter[f].op = "recv"}
  /\ Len(senders) + Len(receivers) = Cardinality(Parked)
  /\ senders # <<>> => Len(buffer) = capacity /\ receivers = <<>> /\ ~ closed
  /\ receivers # <<>> => buffer = <<>> /\ ~ closed

\* The channel is a bounded FIFO: values are taken in the order of the Send calls
\* (nobody overtakes a blocked sender), given out in that order, at most capacity
\* are kept, and nothing is taken after Close.
Abstract == INSTANCE BoundedFifo WITH in <- accepted, out <- delivered, shut <- closed,
                                        room <- capacity

IsBoundedFifo == Abstract!Spec

\* Close releases everybody: every waiting call returns.
CloseReleases == closed ~> \A f \in Fibers : pc[f] = "idle"
=============================================================================
