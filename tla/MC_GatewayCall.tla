---------------------------- MODULE MC_GatewayCall ----------------------------
(* One call over three candidate routes, for TLC. *)
EXTENDS GatewayCall
===============================================================================
