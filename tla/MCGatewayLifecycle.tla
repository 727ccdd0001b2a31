------------------------- MODULE MCGatewayLifecycle -------------------------
(* Instances of GatewayLifecycle for TLC.                                  *)
EXTENDS GatewayLifecycle

\* Two classes: both of this controller, or the second of another one.
CONSTANTS c1, c2
=============================================================================
