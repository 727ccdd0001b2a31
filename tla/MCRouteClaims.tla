---------------------------- MODULE MCRouteClaims ----------------------------
(* Instances of RouteClaims for TLC.                                       *)
EXTENDS RouteClaims

CONSTANTS k1, k2

\* Three routes with names of their own and two keys: the second route can be
\* caught between the other two.
Distinct == [r \in Route |-> r]
Overlapping == [r \in Route |-> IF r = 2 THEN {{k1, k2}, {k2}} ELSE IF r = 1 THEN {{k1}} ELSE {{k2}}]
=============================================================================
