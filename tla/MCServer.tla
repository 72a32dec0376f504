------------------------------ MODULE MCServer ------------------------------
(***************************************************************************)
(* The two views of the control server for TLC.  A behaviour is about one  *)
(* part: the connections (ClientRegistry), or the commands (ControlPlane): *)
(* of all clients, with the broadcaster off, or of one client, with the    *)
(* broadcaster.  The state of the other view does not change, and none of  *)
(* its fair actions is enabled.                                            *)
(***************************************************************************)
EXTENDS ControlPlane

CONSTANTS Conns, MaxClients, SendBuffer, ShutdownTimesOut,   \* ClientRegistry
          Operator   \* the client that sends commands while the broadcaster runs

ASSUME ServerAssumption ==
  /\ IsFiniteSet(Conns) /\ MaxClients \in Nat \ {0} /\ SendBuffer \in Nat \ {0}
  /\ ShutdownTimesOut \in BOOLEAN /\ Operator \in Clients

VARIABLES part,
          limit, handler, pump, sendCh, stop, open, clients, clientCount, closed,
          broadcast, targets, shutdown, closing, joining

Registry == INSTANCE ClientRegistry WITH ctxDone <- closed

registryVars == <<limit, handler, pump, sendCh, stop, open, clients, clientCount, closed, broadcast,
                  targets, shutdown, closing, joining>>
allVars == <<part, vars, registryVars>>

MCInit ==
  /\ Init /\ Registry!Init
  /\ \/ part = "registry" /\ runtime = Main /\ cast = "off"
     \/ part = "commands" /\ limit = MaxClients /\ runtime = Main /\ cast = "off"
     \/ part = "dashboard" /\ limit = MaxClients /\ cast = "idle"

\* Bounds of the commands beside the broadcaster: they come from one client and
\* spawn one fiber, and Shutdown comes without any.
DashboardBound ==
  /\ pc'[Operator] = "spawn" => spawned = {}
  /\ \A c \in Clients \ {Operator} : pc'[c] = "idle"
  /\ ctxDone' => commands' = 0

MCNext ==
  /\ UNCHANGED part
  /\ \/ part = "registry" /\ Registry!Next /\ UNCHANGED vars
     \/ part = "commands" /\ Next /\ UNCHANGED registryVars
     \/ part = "dashboard" /\ Next /\ DashboardBound /\ UNCHANGED registryVars

MCSpec == MCInit /\ [][MCNext]_allVars /\ Registry!Fairness /\ Fairness

-----------------------------------------------------------------------------
\* Type invariant of both views.
ServerTypeOK == TypeOK /\ Registry!TypeOK

\* Every slot belongs to one connection: reserveClient never exceeds MaxClients,
\* and nobody releases a slot twice or forgets it.  A handler that has returned
\* leaves nothing behind, neither the client nor its writePump.
SlotsKept == Registry!SlotsOwned /\ Registry!HandlerLeavesNothing

\* "A slow client only drops its own updates; it never blocks broadcasts to
\* other clients" (writePump).
BroadcastProceeds == Registry!BroadcastProceeds

\* Shutdown returns, in both views: with the connections, pumps and handlers to
\* join, and with a runtime to stop whose fibers may not return.
ShutdownEnds ==
  /\ Registry!ShutdownEnds
  /\ pc[Shutdowner] # "idle" ~> pc[Shutdowner] = "returned"
=============================================================================
