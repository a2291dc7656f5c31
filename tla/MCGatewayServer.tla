-------------------------- MODULE MCGatewayServer --------------------------
(* Small instances of GatewayServer for TLC.                                *)
EXTENDS GatewayServer
=============================================================================
