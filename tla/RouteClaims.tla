----------------------------- MODULE RouteClaims -----------------------------
(***************************************************************************)
(* Which routes a Gateway serves.  Each reconcile sorts the routes that    *)
(* reference the Gateway, rejects those that may not attach, those whose   *)
(* hostname and path are claimed by another route, and those whose         *)
(* hostname belongs to another Gateway, writes the rest to the route       *)
(* ConfigMap the proxies read, and reports on every route.  The ConfigMap  *)
(* is also the record of who owns a hostname and path.                     *)
(*                                                                         *)
(* A route is a number: its place in the order of namespace and name.  A   *)
(* key stands for a hostname, path and protocol.                           *)
(***************************************************************************)
EXTENDS Naturals, FiniteSets

CONSTANTS
    N,          \* number of routes
    NameOf,     \* NameOf[r]: namespace/name; an HTTPRoute and a GRPCRoute may share it
    Key,        \* keys
    KeySets,    \* KeySets[r]: the sets of keys route r may declare
    MaxEdits,   \* bound: edits by users and other Gateways
    MaxFaults   \* bound: failed calls and crashes

Route == 1..N

ASSUME RouteAssumption ==
    /\ N \in Nat
    /\ NameOf \in [Route -> Nat]
    /\ KeySets \in [Route -> SUBSET SUBSET Key]
ASSUME LimitAssumption == MaxEdits \in Nat /\ MaxFaults \in Nat

\* How a route relates to the Gateway: deleted; no parentRef to it (any more);
\* its namespace is not allowed by a listener; no listener matches its
\* sectionName or kind; it uses unsupported features; it may attach.
Classes == {"absent", "detached", "denied", "unmatched", "unsupported", "ok"}

\* What status.parents says about the route: no entry, Accepted=False for one of
\* the reasons, Accepted with all references resolved, or with a denied one.
Statuses == {"none", "denied", "unmatched", "unsupported", "conflict",
             "accepted", "refNotPermitted"}

VARIABLES
    class,    \* class[r]
    keys,     \* keys[r]: the keys its rules and hostnames produce
    granted,  \* granted[r]: ReferenceGrants permit its backends
    taken,    \* keys whose hostname has a CNAME of another Gateway
    cm,       \* the route ConfigMap: pairs of a key and its owner
    status,   \* status[r]
    queued,   \* a reconcile request is in the work queue
    rec,      \* the reconcile in progress
    used      \* how much of each bound was used

vars == <<class, keys, granted, taken, cm, status, queued, rec, used>>
inputs == <<class, keys, granted, taken>>

\* routes: those still in the running; class and keys: as read at the start;
\* foreign: rejected because of another Gateway's record; refs: with denied
\* references; errs: a status patch failed.
Idle == [pc |-> "idle", routes |-> {}, class |-> [r \in Route |-> "absent"],
         keys |-> [r \in Route |-> {}], foreign |-> {}, refs |-> {},
         errs |-> FALSE]

Init ==
    /\ class \in [Route -> {"absent", "ok"}]
    /\ keys \in [Route -> SUBSET Key] /\ \A r \in Route : keys[r] \in KeySets[r]
    /\ granted = [r \in Route |-> TRUE]
    /\ taken = {}
    /\ cm = {}
    /\ status = [r \in Route |-> "none"]
    /\ queued = TRUE
    /\ rec = Idle
    /\ used = [edits |-> 0, records |-> 0, faults |-> 0]

-----------------------------------------------------------------------------
(* Users and other Gateways.                                               *)

Edit ==
    /\ used.edits + used.records < MaxEdits
    /\ used' = [used EXCEPT !.edits = @ + 1]

\* The Gateways an event of a route of class c is mapped to: those in its
\* parentRefs, and those in its status.
mapHTTPRouteToGateway(r, c) == c \notin {"absent", "detached"} \/ status[r] # "none"

\* A route is created, edited or deleted, or the listeners are changed.  The
\* status goes with a deleted route.
EditRoute(r, c, ks) ==
    /\ Edit
    /\ c # class[r] \/ ks # keys[r]
    /\ class' = [class EXCEPT ![r] = c]
    /\ keys' = [keys EXCEPT ![r] = ks]
    /\ status' = IF c = "absent" THEN [status EXCEPT ![r] = "none"] ELSE status
    /\ queued' = (queued \/ \E x \in {class[r], c} : mapHTTPRouteToGateway(r, x))
    /\ UNCHANGED <<granted, taken, cm, rec>>

\* A ReferenceGrant is created or deleted; mapReferenceGrantToGateway follows
\* the parentRefs of the routes it is about.
EditGrant(r) ==
    /\ Edit
    /\ granted' = [granted EXCEPT ![r] = ~@]
    /\ queued' = (queued \/ class[r] \notin {"absent", "detached"})
    /\ UNCHANGED <<class, keys, taken, cm, status, rec>>

\* Another Gateway creates or deletes its record; nothing wakes this one.
EditRecord(k) ==
    /\ used.edits + used.records < MaxEdits
    /\ used' = [used EXCEPT !.records = @ + 1]
    /\ taken' = IF k \in taken THEN taken \ {k} ELSE taken \cup {k}
    /\ UNCHANGED <<class, keys, granted, cm, status, queued, rec>>

Requeue ==
    /\ ~queued
    /\ queued' = TRUE
    /\ UNCHANGED <<inputs, cm, status, rec, used>>

-----------------------------------------------------------------------------
(* One reconcile.                                                          *)

\* The routes that reference the Gateway are listed.
StartReconcile ==
    /\ rec.pc = "idle" /\ queued
    /\ queued' = FALSE
    /\ rec' = [Idle EXCEPT !.pc = "attach", !.class = class, !.keys = keys]
    /\ UNCHANGED <<inputs, cm, status, used>>

\* Status patches of a set of routes, some of which fail and are collected as
\* errors.  A route deleted in the meantime has no status.
Report(routes, value, failed) ==
    /\ failed \subseteq routes
    /\ used.faults + Cardinality(failed) <= MaxFaults
    /\ used' = [used EXCEPT !.faults = @ + Cardinality(failed)]
    /\ status' = [r \in Route |->
         IF r \in routes \ failed /\ class[r] # "absent" THEN value[r] ELSE status[r]]

\* removeRouteStatus for routes that no longer reference the Gateway, otherwise
\* Accepted=False with the reason.
Rejection ==
    [r \in Route |-> IF rec.class[r] = "detached" THEN "none" ELSE rec.class[r]]

\* The parentRef was removed, but the status still mentions the Gateway.
staleRoutes == {r \in Route : rec.class[r] = "detached"}

\* routeNamespaceAllowed: no listener admits the namespace.
deniedRoutes == {r \in Route : rec.class[r] = "denied"}

\* filterNoMatchingParentRoutes: no listener has the sectionName and kind.
noMatchRoutes == {r \in Route : rec.class[r] = "unmatched"}

\* validateHTTPRoute, validateGRPCRoute.
invalidRoutes == {r \in Route : rec.class[r] = "unsupported"}

\* Routes that no longer reference the Gateway lose their status entry, the
\* others that may not attach are rejected.
listGatewayRoutes(failed) ==
    /\ rec.pc = "attach"
    /\ Report(staleRoutes \cup deniedRoutes \cup noMatchRoutes \cup invalidRoutes,
              Rejection, failed)
    /\ rec' = [rec EXCEPT !.pc = "claims",
                          !.routes = {r \in Route : rec.class[r] = "ok"},
                          !.errs = (failed # {})]
    /\ UNCHANGED <<inputs, cm, queued>>

\* The owner of key k in the ConfigMap.
Owners(k) == {p[2] : p \in {q \in cm : q[1] = k}}

\* The routes in the running that want key k.
Claimers(k) == {r \in rec.routes : k \in rec.keys[r]}

First(routes) == {r \in routes : \A s \in routes : r <= s}

\* Mutant: only the ConfigMap claims keys, not the routes of this pass.
ClaimedBy_ConfigOnly(k) == Owners(k)

\* Mutant: the ConfigMap is not consulted.
ClaimedBy_OrderOnly(k) == First(Claimers(k))

\* The route that claims key k: its owner in the ConfigMap, or else the first
\* route in order, even one that is going to be rejected for another key.
ClaimedBy(k) == IF Owners(k) # {} THEN Owners(k) ELSE First(Claimers(k))

\* The routes in conflict are found by name: routes of different kinds that
\* share a name are rejected together.
findConflictingRoutes ==
    LET names == {NameOf[r] : r \in {s \in rec.routes :
                    \E k \in rec.keys[s] : \E o \in ClaimedBy(k) : NameOf[o] # NameOf[s]}}
    IN {r \in rec.routes : NameOf[r] \in names}

Conflict == [r \in Route |-> "conflict"]

filterConflictingRoutes(failed) ==
    /\ rec.pc = "claims"
    /\ Report(findConflictingRoutes, Conflict, failed)
    /\ rec' = [rec EXCEPT !.pc = "dns", !.routes = @ \ findConflictingRoutes,
                          !.errs = @ \/ failed # {}]
    /\ UNCHANGED <<inputs, cm, queued>>

\* Routes with a hostname that belongs to another Gateway (see ManagedDNS).
filterManagedDNSHostnameConflicts(failed) ==
    /\ rec.pc = "dns"
    /\ LET conflicting == {r \in rec.routes : rec.keys[r] \cap taken # {}} IN
       /\ Report(conflicting, Conflict, failed)
       /\ rec' = [rec EXCEPT !.pc = "config", !.routes = @ \ conflicting,
                             !.foreign = conflicting, !.errs = @ \/ failed # {}]
    /\ UNCHANGED <<inputs, cm, queued>>

\* Mutant: the entries of routes that are not served any more stay.
buildRouteConfig_Append ==
    cm \cup UNION {rec.keys[r] \X {r} : r \in {s \in rec.routes : granted[s]}}

\* A rule with a denied backend produces no entry.
buildRouteConfig ==
    UNION {rec.keys[r] \X {r} : r \in {s \in rec.routes : granted[s]}}

\* Denied references are recorded by name, too.
DeniedNames == {NameOf[r] : r \in {s \in rec.routes : ~granted[s]}}

\* Mutant: the ConfigMap is not watched.
reconcileRouteConfigMap_NoWatch ==
    /\ rec.pc = "config"
    /\ cm' = buildRouteConfig
    /\ rec' = [rec EXCEPT !.pc = "statuses",
                          !.refs = {r \in rec.routes : NameOf[r] \in DeniedNames}]
    /\ UNCHANGED <<inputs, status, queued, used>>

\* The controller watches the ConfigMap: a change enqueues the Gateway again,
\* so that routes waiting for a key that became free get it.
reconcileRouteConfigMap ==
    /\ rec.pc = "config"
    /\ cm' = buildRouteConfig
    /\ queued' = (queued \/ cm' # cm)
    /\ rec' = [rec EXCEPT !.pc = "statuses",
                          !.refs = {r \in rec.routes : NameOf[r] \in DeniedNames}]
    /\ UNCHANGED <<inputs, status, used>>

\* Mutant: denied references are not carried over to the status.
RouteConditions_Resolved == [r \in Route |-> "accepted"]

RouteConditions ==
    [r \in Route |-> IF r \in rec.refs THEN "refNotPermitted" ELSE "accepted"]

\* updateRouteStatuses, then the end of the reconcile.  A served route that was
\* deleted in the meantime is an error too, so that its entry is removed.
updateRouteStatuses(failed) ==
    /\ rec.pc = "statuses"
    /\ Report(rec.routes, RouteConditions, failed)
    /\ queued' = \/ queued \/ rec.errs \/ failed # {}
                 \/ \E r \in rec.routes : class[r] = "absent"
    /\ rec' = Idle
    /\ UNCHANGED <<inputs, cm>>

\* A fatal error (reading the ConfigMap, the tunnel, the token...) or a crash.
Abort ==
    /\ rec.pc # "idle"
    /\ used.faults < MaxFaults
    /\ used' = [used EXCEPT !.faults = @ + 1]
    /\ rec' = Idle
    /\ queued' = TRUE
    /\ UNCHANGED <<inputs, cm, status>>

-----------------------------------------------------------------------------
User ==
    \/ \E r \in Route : \E c \in Classes : \E ks \in KeySets[r] : EditRoute(r, c, ks)
    \/ \E r \in Route : EditGrant(r)
    \/ \E k \in Key : EditRecord(k)

Reconcile ==
    \/ StartReconcile \/ reconcileRouteConfigMap
    \/ \E failed \in SUBSET Route :
        \/ listGatewayRoutes(failed) \/ filterConflictingRoutes(failed)
        \/ filterManagedDNSHostnameConflicts(failed) \/ updateRouteStatuses(failed)

Next == User \/ Requeue \/ Reconcile \/ Abort

Spec == Init /\ [][Next]_vars

\* The worker works and the periodic reconcile goes on.
FairSpec == Spec /\ WF_vars(Reconcile) /\ WF_vars(Requeue)

-----------------------------------------------------------------------------
(* Properties.                                                             *)

TypeOK ==
    /\ class \in [Route -> Classes]
    /\ keys \in [Route -> SUBSET Key]
    /\ granted \in [Route -> BOOLEAN]
    /\ taken \subseteq Key
    /\ cm \subseteq Key \X Route
    /\ status \in [Route -> Statuses]
    /\ queued \in BOOLEAN
    /\ rec \in [pc : {"idle", "attach", "claims", "dns", "config", "statuses"},
                routes : SUBSET Route, class : [Route -> Classes],
                keys : [Route -> SUBSET Key], foreign : SUBSET Route,
                refs : SUBSET Route, errs : BOOLEAN]
    /\ used \in [edits : Nat, records : Nat, faults : Nat]

\* A key has one owner: two routes never compete in the proxies ("only one can
\* actually receive traffic", findConflictingRoutes).
OneOwner ==
    \A p \in cm : \A q \in cm : p[1] = q[1] => NameOf[p[2]] = NameOf[q[2]]

Served(r) == rec.keys[r] \X {r} \subseteq cm

\* A route that is served with all its keys, and whose own configuration is
\* still fine, is not displaced by anything other routes do: existing entries
\* "pre-claim" their keys, "protecting existing traffic" (findConflictingRoutes).
OwnersKeepClaims ==
    [][rec.pc = "config" /\ cm' # cm =>
        \A r \in Route :
            /\ rec.class[r] = "ok" /\ Served(r)
            /\ granted[r] /\ r \notin rec.foreign
            => rec.keys[r] \X {r} \subseteq cm']_vars

\* Route names are unique across kinds.  Without it OwnersKeepClaims is false.
DistinctNames == \A r, s \in Route : NameOf[r] = NameOf[s] => r = s

\* A route is reported as accepted with its references resolved only when the
\* proxies serve every one of its keys (updateRouteStatuses).
AcceptedIsServed ==
    [][\A r \in Route : status'[r] = "accepted" /\ status[r] # "accepted" => Served(r)]_vars

\* After the conflicts are filtered, routes that share a key share the name.
Compatible ==
    rec.pc \in {"dns", "config"} =>
        \A r, s \in rec.routes :
            rec.keys[r] \cap rec.keys[s] # {} => NameOf[r] = NameOf[s]

\* A served route is still in the running unless another Gateway has a record.
OwnersRunning ==
    /\ rec.pc = "claims" => \A r \in Route : rec.class[r] = "ok" => r \in rec.routes
    /\ DistinctNames =>
        \A r \in Route : rec.class[r] = "ok" /\ Served(r) =>
            /\ rec.pc = "dns" => r \in rec.routes
            /\ rec.pc = "config" => r \in rec.routes \cup rec.foreign

\* Once the ConfigMap is written, it has the routes about to be accepted.
AcceptedRecorded ==
    rec.pc = "statuses" => \A r \in rec.routes \ rec.refs : Served(r)

\* The inductive invariant behind the three properties above
\* (findConflictingRoutes, buildRouteConfig).
ClaimInv == TypeOK /\ OneOwner /\ Compatible /\ OwnersRunning /\ AcceptedRecorded

\* Another route that may attach wants one of the keys, or another Gateway has it.
Contested(r) ==
    \/ keys[r] \cap taken # {}
    \/ \E s \in Route \ {r} : /\ class[s] = "ok" /\ NameOf[s] # NameOf[r]
                              /\ keys[s] \cap keys[r] # {}

\* The ConfigMap and every status are what the routes call for.
Settled ==
    \A r \in Route :
        LET entries == {p \in cm : p[2] = r} IN
        \/ /\ class[r] = "ok" /\ status[r] = "conflict"
           /\ Contested(r) /\ entries = {}
        \/ /\ class[r] = "ok" /\ granted[r]
           /\ status[r] = "accepted" /\ entries = keys[r] \X {r}
        \/ /\ class[r] = "ok" /\ ~granted[r]
           /\ status[r] = "refNotPermitted" /\ entries = {}
        \/ /\ class[r] \in {"denied", "unmatched", "unsupported"}
           /\ status[r] = class[r] /\ entries = {}
        \/ /\ class[r] \in {"absent", "detached"}
           /\ status[r] = "none" /\ entries = {}

\* As long as no other Gateway interferes, nothing waits for the periodic
\* reconcile: when no request is pending, everything is settled (the watches of
\* SetupWithManager and the errors of the status patches wake the controller).
QuietMeansSettled ==
    rec.pc = "idle" /\ ~queued /\ used.records = 0 => Settled

\* When edits stop, claims stop moving and the statuses tell the truth: rejected
\* routes do not block each other in turn for ever, and entries of removed
\* routes disappear (filterConflictingRoutes, reconcileRouteConfigMap).
Converges == <>[]Settled
-----------------------------------------------------------------------------
(* Why nothing is left to do when no request is pending: every edit that   *)
(* the reconcile in progress has missed has made a request, and so does a  *)
(* patch that failed or a ConfigMap that changed.                          *)

Gone == {"absent", "detached"}

\* The reconcile has read the route as it is, or there is nothing to say of it.
UpToDate(r) ==
    \/ class[r] = rec.class[r] /\ keys[r] = rec.keys[r]
    \/ {class[r], rec.class[r]} \subseteq Gone /\ status[r] = "none"

\* The route lost a key to another one, which may attach or has it in the ConfigMap.
Outclaimed(r) ==
    \E s \in Route : \E k \in rec.keys[r] :
        /\ NameOf[s] # NameOf[r]
        /\ (rec.class[s] = "ok" /\ k \in rec.keys[s]) \/ <<k, s>> \in cm

\* What the reconcile in progress has already reported and written.
Reported ==
    /\ rec.pc # "idle" => \A r \in Route : UpToDate(r)
    /\ rec.pc \notin {"idle", "attach"} /\ ~rec.errs =>
          \A r \in Route : rec.class[r] # "ok" =>
              status[r] = IF rec.class[r] \in Gone THEN "none" ELSE rec.class[r]
    /\ rec.pc \notin {"idle", "attach"} /\ ~rec.errs =>
          \A r \in Route : rec.class[r] = "ok" /\ r \notin rec.routes =>
              status[r] = "conflict" /\ Outclaimed(r)
    /\ rec.pc = "statuses" =>
          cm = buildRouteConfig /\ rec.refs = {r \in rec.routes : ~granted[r]}

\* The inductive invariant behind QuietMeansSettled, if names are unique.
QuietInv ==
    /\ used.records = 0 => taken = {}
    /\ \A r \in Route : class[r] = "absent" => status[r] = "none"
    /\ \A r \in rec.routes : rec.class[r] = "ok"
    /\ ~queued /\ used.records = 0 => Reported
    /\ QuietMeansSettled
=============================================================================
