--------------------------- MODULE MCBridgeRuntime ---------------------------
(* Small instances of BridgeRuntime for TLC. *)
EXTENDS BridgeRuntime
=============================================================================
