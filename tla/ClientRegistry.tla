--------------------------- MODULE ClientRegistry ---------------------------
(***************************************************************************)
(* The WebSocket clients of the control server (web/server.go): admission  *)
(* of connections, the reader goroutine and the writePump of each client,  *)
(* the broadcast loop, and Shutdown.  A connection is used once.  What the *)
(* messages say and the rate limit are left out: every message a reader    *)
(* handles ends in one reply.  The peer may disconnect, the read deadline  *)
(* may expire, and a write may fail or be slow, at any time.  net/http is  *)
(* external: after Shutdown has begun it accepts nothing, and it waits for *)
(* the handlers whose connection has not been hijacked by the upgrade.     *)
(***************************************************************************)
EXTENDS Integers, FiniteSets

CONSTANTS Conns,
          MaxClients,        \* the largest limit considered
          SendBuffer,        \* clientSendBuffer
          ShutdownTimesOut   \* Shutdown's context may expire

VARIABLES
  limit,         \* Config.MaxClients; it does not change
  handler,       \* where handleWebSocket stands
  pump,          \* the client's writePump: "none", "run", "done"
  sendCh,        \* number of messages in the client's queue
  stop,          \* the client's stop channel is closed
  open,          \* the connection is open on this side
  clients,       \* s.clients
  clientCount,   \* s.clientCount
  ctxDone,       \* s.ctx is done
  broadcast, targets,        \* the broadcast loop and whom it still serves
  shutdown, closing, joining \* Shutdown, and the clients closeClients took

clientVars == <<pump, sendCh, stop, open>>
vars == <<limit, handler, clientVars, clients, clientCount, ctxDone, broadcast, targets,
          shutdown, closing, joining>>

Init ==
  /\ limit \in 1..MaxClients
  /\ handler = [c \in Conns |-> "none"] /\ pump = [c \in Conns |-> "none"]
  /\ sendCh = [c \in Conns |-> 0] /\ stop = [c \in Conns |-> FALSE]
  /\ open = [c \in Conns |-> TRUE]
  /\ clients = {} /\ clientCount = 0 /\ ctxDone = FALSE
  /\ broadcast = "idle" /\ targets = {}
  /\ shutdown = "none" /\ closing = {} /\ joining = {}

-----------------------------------------------------------------------------
(* handleWebSocket *)

Goto(c, from, to) == handler[c] = from /\ handler' = [handler EXCEPT ![c] = to]

ServerSame == UNCHANGED <<limit, ctxDone, broadcast, targets, shutdown, closing, joining>>

\* net/http accepts the connection and starts the handler.
Accept(c) ==
  /\ shutdown \in {"none", "http"} /\ Goto(c, "none", "accepted")
  /\ UNCHANGED <<clientVars, clients, clientCount>> /\ ServerSame

\* The CAS loop of reserveClient: reject at the limit, or take a slot.
reserveClient(c) ==
  /\ handler[c] = "accepted"
  /\ IF clientCount >= limit
       THEN Goto(c, "accepted", "gone") /\ UNCHANGED clientCount
       ELSE Goto(c, "accepted", "reserved") /\ clientCount' = clientCount + 1
  /\ UNCHANGED <<clientVars, clients>> /\ ServerSame

\* Upgrade takes the connection over from net/http ...
Hijack(c) ==
  /\ Goto(c, "reserved", "hijacked")
  /\ UNCHANGED <<clientVars, clients, clientCount>> /\ ServerSame

\* ... and may fail before or after that.
UpgradeFails(c) ==
  /\ Goto(c, "reserved", "gone") \/ Goto(c, "hijacked", "gone")
  /\ clientCount' = clientCount - 1
  /\ UNCHANGED <<clientVars, clients>> /\ ServerSame

Register(c) ==
  /\ Goto(c, "hijacked", "registered")
  /\ clients' = clients \cup {c}
  /\ UNCHANGED <<clientVars, clientCount>> /\ ServerSame

\* Mutant of StartPump: no writePump once the server is shutting down.
StartPumpUnlessDone(c) ==
  /\ Goto(c, "registered", IF ctxDone THEN "leaving" ELSE "reading")
  /\ pump' = IF ctxDone THEN pump ELSE [pump EXCEPT ![c] = "run"]
  /\ UNCHANGED <<sendCh, stop, open, clients, clientCount>> /\ ServerSame

StartPump(c) ==
  /\ Goto(c, "registered", "reading")
  /\ pump' = [pump EXCEPT ![c] = "run"]
  /\ UNCHANGED <<sendCh, stop, open, clients, clientCount>> /\ ServerSame

Enqueued(c) == [sendCh EXCEPT ![c] = IF @ < SendBuffer THEN @ + 1 ELSE @]

\* The initial state or the reply to a message, if sendJSON finds the client.
Reply(c) ==
  /\ handler[c] = "reading" /\ open[c]
  /\ sendCh' = IF c \in clients THEN Enqueued(c) ELSE sendCh
  /\ UNCHANGED <<handler, pump, stop, open, clients, clientCount>> /\ ServerSame

\* ReadMessage fails, or the token was rotated: the deferred Close.
ReadEnds(c) ==
  /\ Goto(c, "reading", "leaving")
  /\ open' = [open EXCEPT ![c] = FALSE]
  /\ UNCHANGED <<pump, sendCh, stop, clients, clientCount>> /\ ServerSame

\* Mutant of unregister: the slot is released without looking.
unregisterAlways(c) ==
  /\ Goto(c, "leaving", "joining")
  /\ clients' = clients \ {c} /\ clientCount' = clientCount - 1
  /\ stop' = [stop EXCEPT ![c] = TRUE]
  /\ UNCHANGED <<pump, sendCh, open>> /\ ServerSame

\* The deferred unregister: whoever takes the client out of s.clients, this
\* or closeClients, releases its slot; then both stop the writePump ...
unregister(c) ==
  /\ Goto(c, "leaving", "joining")
  /\ clients' = clients \ {c}
  /\ clientCount' = IF c \in clients THEN clientCount - 1 ELSE clientCount
  /\ stop' = [stop EXCEPT ![c] = TRUE]
  /\ UNCHANGED <<pump, sendCh, open>> /\ ServerSame

\* ... and wait for it.
unregisterJoins(c) ==
  /\ pump[c] = "done" /\ Goto(c, "joining", "gone")
  /\ UNCHANGED <<clientVars, clients, clientCount>> /\ ServerSame

-----------------------------------------------------------------------------
(* writePump *)

PumpGoto(c, to) ==
  /\ pump[c] = "run" /\ pump' = [pump EXCEPT ![c] = to]
  /\ UNCHANGED <<handler, stop, open, clients, clientCount>> /\ ServerSame

\* A message is written, or the write fails; a ping fails.
PumpWrites(c) ==
  \/ sendCh[c] > 0 /\ open[c] /\ sendCh' = [sendCh EXCEPT ![c] = @ - 1] /\ PumpGoto(c, "run")
  \/ sendCh[c] > 0 /\ sendCh' = [sendCh EXCEPT ![c] = @ - 1] /\ PumpGoto(c, "done")
  \/ PumpGoto(c, "done") /\ UNCHANGED sendCh

PumpStops(c) == (stop[c] \/ ctxDone) /\ PumpGoto(c, "done") /\ UNCHANGED sendCh

-----------------------------------------------------------------------------
(* broadcastLoop *)

ClientsSame == UNCHANGED <<limit, handler, pump, stop, open, clients, clientCount, ctxDone,
                           shutdown, closing, joining>>

\* A tick: copy the clients under clientsMu.
BroadcastBegins ==
  /\ broadcast = "idle"
  /\ broadcast' = "send" /\ targets' = clients
  /\ UNCHANGED sendCh /\ ClientsSame

\* Mutant of enqueue: it waits for room in the queue.
enqueueBlocking(c) ==
  /\ broadcast = "send" /\ c \in targets /\ sendCh[c] < SendBuffer
  /\ targets' = targets \ {c} /\ sendCh' = Enqueued(c)
  /\ UNCHANGED broadcast /\ ClientsSame

\* Add to the queue, or drop the message if it is full.
enqueue(c) ==
  /\ broadcast = "send" /\ c \in targets
  /\ targets' = targets \ {c} /\ sendCh' = Enqueued(c)
  /\ UNCHANGED broadcast /\ ClientsSame

BroadcastEnds ==
  /\ broadcast = "send" /\ targets = {} /\ broadcast' = "idle"
  /\ UNCHANGED <<targets, sendCh>> /\ ClientsSame

BroadcastExits ==
  /\ broadcast = "idle" /\ ctxDone /\ broadcast' = "off"
  /\ UNCHANGED <<targets, sendCh>> /\ ClientsSame

-----------------------------------------------------------------------------
(* Shutdown *)

Phase(from, to) == shutdown = from /\ shutdown' = to

ShutdownBegins ==
  /\ Phase("none", "http") /\ ctxDone' = TRUE
  /\ UNCHANGED <<limit, handler, clientVars, clients, clientCount, broadcast, targets, closing,
                 joining>>

\* httpServer.Shutdown closes the listener ...
HttpCloses ==
  /\ Phase("http", "drain")
  /\ UNCHANGED <<limit, handler, clientVars, clients, clientCount, ctxDone, broadcast, targets,
                 closing, joining>>

Serving == {c \in Conns : handler[c] \in {"accepted", "reserved"}}

\* ... and waits for the handlers it knows, or for Shutdown's context; rt.Stop
\* is bounded by the same context.
HttpDrained ==
  /\ Serving = {} \/ ShutdownTimesOut
  /\ Phase("drain", "close")
  /\ UNCHANGED <<limit, handler, clientVars, clients, clientCount, ctxDone, broadcast, targets,
                 closing, joining>>

closeClients ==
  /\ Phase("close", "closing")
  /\ closing' = clients /\ clients' = {}
  /\ UNCHANGED <<limit, handler, clientVars, clientCount, ctxDone, broadcast, targets, joining>>

\* One round of closeClients' loop: release, stop, close the connection ...
closeClient(c) ==
  /\ shutdown = "closing" /\ joining = {} /\ c \in closing
  /\ closing' = closing \ {c} /\ joining' = {c}
  /\ clientCount' = clientCount - 1
  /\ stop' = [stop EXCEPT ![c] = TRUE] /\ open' = [open EXCEPT ![c] = FALSE]
  /\ UNCHANGED <<limit, handler, pump, sendCh, clients, ctxDone, broadcast, targets, shutdown>>

\* ... and wait for its writePump.
closeClientJoins(c) ==
  /\ c \in joining /\ pump[c] = "done"
  /\ joining' = {}
  /\ UNCHANGED <<limit, handler, clientVars, clients, clientCount, ctxDone, broadcast, targets,
                 shutdown, closing>>

\* broadcastWG.Wait
ShutdownReturns ==
  /\ closing = {} /\ joining = {} /\ broadcast = "off"
  /\ Phase("closing", "returned")
  /\ UNCHANGED <<limit, handler, clientVars, clients, clientCount, ctxDone, broadcast, targets,
                 closing, joining>>

-----------------------------------------------------------------------------
Handler(c) ==
  \/ reserveClient(c) \/ Hijack(c) \/ UpgradeFails(c) \/ Register(c) \/ StartPump(c)
  \/ unregister(c) \/ unregisterJoins(c)

Broadcast == BroadcastBegins \/ BroadcastEnds \/ BroadcastExits \/ \E c \in Conns : enqueue(c)

Shutdown ==
  \/ HttpCloses \/ HttpDrained \/ closeClients \/ ShutdownReturns
  \/ \E c \in Conns : closeClient(c) \/ closeClientJoins(c)

Next ==
  \/ \E c \in Conns : Accept(c) \/ Handler(c) \/ Reply(c) \/ ReadEnds(c) \/ PumpWrites(c)
                      \/ PumpStops(c)
  \/ Broadcast \/ ShutdownBegins \/ Shutdown

Spec == Init /\ [][Next]_vars

-----------------------------------------------------------------------------
(* Properties *)

\* Type invariant: the queues keep to their capacity and clientCount to
\* Config.MaxClients.
TypeOK ==
  /\ handler \in [Conns -> {"none", "accepted", "reserved", "hijacked", "registered",
                            "reading", "leaving", "joining", "gone"}]
  /\ pump \in [Conns -> {"none", "run", "done"}]
  /\ sendCh \in [Conns -> 0..SendBuffer]
  /\ stop \in [Conns -> BOOLEAN] /\ open \in [Conns -> BOOLEAN]
  /\ clients \subseteq Conns /\ limit \in 1..MaxClients /\ clientCount \in 0..limit
  /\ ctxDone \in BOOLEAN
  /\ broadcast \in {"idle", "send", "off"} /\ targets \subseteq Conns
  /\ shutdown \in {"none", "http", "drain", "close", "closing", "returned"}
  /\ closing \subseteq Conns /\ joining \subseteq Conns

\* Every slot of clientCount belongs to one connection that is being upgraded,
\* registered, or taken by closeClients and not released yet: the upgrade
\* error, unregister and closeClients never release a slot twice nor forget it.
SlotsOwned ==
  clientCount = Cardinality(clients)
                + Cardinality({c \in Conns : handler[c] \in {"reserved", "hijacked"}})
                + Cardinality(closing)

\* A handler that has returned leaves nothing behind: its client is not
\* registered, and its writePump has ended or was never started.
HandlerLeavesNothing ==
  \A c \in Conns : handler[c] = "gone" => c \notin clients /\ pump[c] # "run"

\* What keeps the slots exact: a registered client has a handler that will take
\* it out, a writePump runs only between StartPump and the join, and closeClients
\* has taken nobody before it runs.
RegistryPhases ==
  /\ \A c \in Conns :
       /\ c \in clients => handler[c] \in {"registered", "reading", "leaving"}
       /\ pump[c] = "run" => handler[c] \in {"reading", "leaving", "joining"}
  /\ shutdown # "closing" => closing = {}

\* The goroutines of the server run, and select takes a case that is ready
\* again and again.  Nothing is assumed of the peers: they may
\* stay connected and silent, and read nothing.  A connection takes each of the
\* steps named here at most once, so that fairness to all of them is fairness to each.
Fairness ==
  /\ WF_vars(\E c \in Conns : Handler(c))
  /\ WF_vars(\E c \in Conns : ~open[c] /\ ReadEnds(c))
  /\ WF_vars(\E c \in Conns : PumpStops(c))
  /\ WF_vars(BroadcastEnds \/ \E c \in Conns : enqueue(c))
  /\ SF_vars(BroadcastExits)
  /\ WF_vars(Shutdown)

FairSpec == Spec /\ Fairness

\* "A slow client only drops its own updates; it never blocks broadcasts to
\* other clients" (writePump).
BroadcastProceeds == broadcast = "send" ~> broadcast # "send"

\* Shutdown returns: closeClients and unregister wait for writePumps, also of
\* clients whose handler has not started theirs yet, and all of them end.
ShutdownEnds == shutdown # "none" ~> shutdown = "returned"
=============================================================================
