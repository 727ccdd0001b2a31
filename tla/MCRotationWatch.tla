--------------------------- MODULE MCRotationWatch ---------------------------
(* Instances of RotationWatch for TLC.                                     *)
EXTENDS RotationWatch

\* No pod is broken.
NoneBad == {}
=============================================================================
