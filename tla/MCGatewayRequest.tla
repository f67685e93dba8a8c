------------------------- MODULE MCGatewayRequest -------------------------
(* GatewayRequest has no constants: TLC checks it as it is.                *)
EXTENDS GatewayRequest
=============================================================================
