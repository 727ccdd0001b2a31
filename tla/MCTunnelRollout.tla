--------------------------- MODULE MCTunnelRollout ---------------------------
(* Instances of TunnelRollout for TLC.                                     *)
EXTENDS TunnelRollout

\* No pod is broken.
NoneBad == {}
\* The first replica cannot run the version it is created with (a bad image or
\* an unschedulable placement); the next one it can.
FirstBadAtStart == {<<1, 1>>}
=============================================================================
