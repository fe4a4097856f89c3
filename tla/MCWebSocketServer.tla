-------------------------- MODULE MCWebSocketServer --------------------------
(* Model values for WebSocketServer: see MCEvents.cfg.                     *)
EXTENDS WebSocketServer, TLC
=============================================================================
