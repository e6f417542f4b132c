--------------------------- MODULE MCGatewayEvents ---------------------------
(* Small instances of GatewayEvents for TLC. *)
EXTENDS GatewayEvents

ThreeEvents == 1..3
=============================================================================
