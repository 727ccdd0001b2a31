---------------------------- MODULE MCManagedDNS ----------------------------
(* Instances of ManagedDNS for TLC: two Gateways, two hostnames.           *)
EXTENDS ManagedDNS

CONSTANTS g1, g2, ra, rab, a, b, za, zb

\* Route ra has one hostname, route rab both: the two can conflict in part.
Hosts == [r \in Route |-> IF r = ra THEN {a} ELSE {a, b}]
Zones == [h \in Host |-> IF h = a THEN za ELSE zb]
\* A zone list, which skips the deep hostname, and no DNS management at all.
Policies == {AllZones, Disabled, [all |-> FALSE, zones |-> {za, zb}]}
DeepB == {b}
=============================================================================
