----------------------------- MODULE Telemetry -----------------------------
(***************************************************************************)
(* The two objects of internal/metrics side by side: the counters          *)
(* (Metrics) and the ring of lifecycle events (EventTracker).              *)
(***************************************************************************)
EXTENDS Metrics

CONSTANTS Events, NoEvent, Capacity       \* EventTracker

ASSUME TelemetryAssumption == Capacity \in Nat \ {0}

VARIABLES events, head, tail, count       \* EventTracker

Tracker == INSTANCE EventTracker

\* EventTracker: the ring buffer implements EventLog.
IsEventLog == Tracker!IsEventLog
=============================================================================
