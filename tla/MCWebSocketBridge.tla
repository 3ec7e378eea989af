-------------------------- MODULE MCWebSocketBridge --------------------------
(* WebSocketBridge with every call made a bounded number of times.           *)
EXTENDS WebSocketBridge, TLC
=============================================================================
