---------------------------- MODULE TokenHandover ----------------------------
(***************************************************************************)
(* What the rotation of a tunnel token promises, without Deployments,      *)
(* caches, reconciles and faults: tokens are minted and stored one after   *)
(* the other, connectors load the stored token when they start, and a      *)
(* request to rotate is acknowledged only when every connector in scope    *)
(* runs a token minted after the request.  TunnelRollout implements it.    *)
(***************************************************************************)
EXTENDS Naturals

CONSTANT Place   \* where connectors may run: the replica names

VARIABLES
    newest,  \* the newest token
    stored,  \* the token a starting connector loads
    inuse,   \* the tokens loaded by the connectors of each place
    scope,   \* the places that count for an acknowledgement
    asked,   \* newest token at the time of the latest request
    acked    \* the request that was acknowledged last

handover == <<newest, stored, inuse, scope, asked, acked>>

HandoverInit ==
    /\ newest = 1 /\ stored = 0 /\ asked = 0 /\ acked = 0
    /\ inuse = [i \in Place |-> {}]
    /\ scope = Place

Mint ==
    /\ newest' = newest + 1
    /\ UNCHANGED <<stored, inuse, scope, asked, acked>>

\* A token is not skipped once it was stored, and never goes back.
Store ==
    /\ stored' = newest
    /\ UNCHANGED <<newest, inuse, scope, asked, acked>>

Ask ==
    /\ asked' = newest
    /\ UNCHANGED <<newest, stored, inuse, scope, acked>>

\* Connectors start with the stored token, keep the one they have, or stop.
Connect ==
    /\ inuse' \in [Place -> SUBSET ((UNION {inuse[i] : i \in Place}) \cup {stored})]
    /\ \A i \in Place : inuse'[i] \subseteq inuse[i] \cup {stored}
    /\ UNCHANGED <<newest, stored, scope, asked, acked>>

\* The list of replicas that counts changes between reconciles.
Rescope ==
    /\ scope' \in SUBSET Place
    /\ UNCHANGED <<newest, stored, inuse, asked, acked>>

\* A request not yet acknowledged is: the old tokens are out of use in scope.
Acknowledge(r) ==
    /\ acked < r /\ r <= asked /\ r < newest
    /\ \A i \in scope : \A t \in inuse[i] : r < t
    /\ acked' = r
    /\ UNCHANGED <<newest, stored, inuse, scope, asked>>

HandoverNext ==
    \/ Mint \/ Store \/ Ask \/ Connect \/ Rescope
    \/ \E r \in 1..asked : Acknowledge(r)

HandoverSpec == HandoverInit /\ [][HandoverNext]_handover
=============================================================================
