---------------------------- MODULE MCHeartbeat ----------------------------
(* Heartbeat.tla for TLC, with a longer interval at the client. *)
EXTENDS Heartbeat

CONSTANTS ServerInterval, ClientInterval

IntervalDef == [p \in Ends |-> IF p = Server THEN ServerInterval ELSE ClientInterval]
=============================================================================
