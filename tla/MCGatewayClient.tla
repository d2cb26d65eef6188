-------------------------- MODULE MCGatewayClient --------------------------
(* Small instances of GatewayClient for TLC. *)
EXTENDS GatewayClient
=============================================================================
