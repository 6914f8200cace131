---------------------------- MODULE MCWebSocket -----------------------------
(* WebSocket with two sinks and payloads on both sides of the boundaries of   *)
(* the length encoding and of the size limit.                                *)
EXTENDS WebSocket

MCLens == {125, 126, 65536, 65537}
=============================================================================
