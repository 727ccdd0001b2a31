------------------------- MODULE MCGatewayAdmission -------------------------
(* Instances of GatewayAdmission for TLC.                                  *)
EXTENDS GatewayAdmission
=============================================================================
