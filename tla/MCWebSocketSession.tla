-------------------------- MODULE MCWebSocketSession --------------------------
(* WebSocketSession with two closing goroutines and a queue that fills up. *)
EXTENDS WebSocketSession
===============================================================================
