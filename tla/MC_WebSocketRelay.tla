-------------------------- MODULE MC_WebSocketRelay --------------------------
(* One connection with a few response.create messages, for TLC. *)
EXTENDS WebSocketRelay
===============================================================================
