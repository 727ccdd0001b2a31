--------------------------- MODULE MCTokenRotation ---------------------------
(* Instances of TokenRotation for TLC.                                     *)
EXTENDS TokenRotation

\* Two cron triggers within the horizon.
TwoTriggers == {4, 6}
\* One cron trigger.
OneTrigger == {4}
\* Time passes only between reconciles.
Instant == {"idle"}
\* The Gateway is read and the decision made, and Cloudflare answers a rotation,
\* within the clock's resolution.
PromptAnswer == {"idle", "rotate", "cgs"}
\* Every call may take long.
AllSlow == Steps
=============================================================================
