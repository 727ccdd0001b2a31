----------------------------- MODULE ManagedDNS -----------------------------
(***************************************************************************)
(* The CNAME records the controller keeps in Cloudflare for the hostnames  *)
(* of the routes, and how several Gateways share one account: each         *)
(* reconcile rejects the routes whose hostname already belongs to another  *)
(* Gateway, diffs the records that point to its tunnel against the         *)
(* hostnames it wants, reports the result on the routes and publishes its  *)
(* tunnel host in the Gateway status, which is how other Gateways learn    *)
(* whom a record belongs to.  Deleting a Gateway deletes its records.      *)
(*                                                                         *)
(* Reconciles of all Gateways are serial (one worker).  A reconcile is     *)
(* several API calls, each of which may fail, and the controller may       *)
(* crash between any two of them.                                          *)
(***************************************************************************)
EXTENDS Naturals, FiniteSets

CONSTANTS
    Gateway,     \* Gateways of the same Cloudflare account
    Route,       \* HTTPRoutes and GRPCRoutes
    Host,        \* hostnames
    HostsOf,     \* HostsOf[r]: the hostnames of route r
    Zone,        \* DNS zones of the account
    ZoneOf,      \* ZoneOf[h]: the zone FindZoneIDByHostname returns for h
    Deep,        \* hostnames that are not direct subdomains of their zone
    NoRecord,    \* no CNAME exists
    Foreign,     \* a CNAME that no Gateway of this controller owns
    Policy,      \* the DNS policies users choose from
    Faults,      \* kinds of faults that happen: "lookup" (of a zone), "call" (a
                 \* record operation), "crash" (or a fatal error)
    MaxEdits,    \* bound: user edits
    MaxFaults    \* bound: faults

ASSUME ShapeAssumption ==
    /\ HostsOf \in [Route -> SUBSET Host]
    /\ ZoneOf \in [Host -> Zone]
    /\ Deep \subseteq Host
    /\ NoRecord \notin Gateway /\ Foreign \notin Gateway /\ NoRecord # Foreign
    /\ Policy \subseteq [all : BOOLEAN, zones : SUBSET Zone]
    /\ IsFiniteSet(Host)
ASSUME FaultAssumption ==
    /\ Faults \subseteq {"lookup", "call", "crash"}
    /\ MaxEdits \in Nat /\ MaxFaults \in Nat

VARIABLES
    phase,     \* phase[g]: "live", "deleting" (deletionTimestamp set) or "gone"
    attached,  \* attached[g]: the routes that reference g and are valid for it
    policy,    \* policy[g]: spec.dns of its CloudflareGatewayParameters
    published, \* published[g]: status.addresses holds its tunnel host
    cname,     \* cname[h]: what the CNAME of h points to
    applied,   \* applied[g]: hostnames its routes report as applied
    queue,     \* Gateways waiting to be reconciled
    rec,       \* the reconcile in progress
    used       \* how much of each bound was used

vars == <<phase, attached, policy, published, cname, applied, queue, rec, used>>
spec == <<phase, attached, policy>>

-----------------------------------------------------------------------------
(* Policies and desired hostnames.                                         *)

AllZones == [all |-> TRUE, zones |-> {}]
Disabled == [all |-> FALSE, zones |-> {}]
Enabled(p) == p.all \/ p.zones # {}

\* A zone list matches direct subdomains only.
hostnameInZone(h, z) == ZoneOf[h] = z /\ h \notin Deep

\* The hostnames that get a record, given the lookups that failed.  With all
\* zones managed, a hostname whose zone lookup fails is skipped.
computeDesiredDNSHostnames(p, hosts, failed) ==
    IF p.all THEN hosts \ failed
    ELSE {h \in hosts : \E z \in p.zones : hostnameInZone(h, z)}

\* With a zone list, one failed lookup fails the whole computation.
LookupError(p, failed) == Enabled(p) /\ ~p.all /\ failed # {}

Hostnames(routes) == UNION {HostsOf[r] : r \in routes}

\* What Gateway g should manage when nothing fails.
Wanted(g) == computeDesiredDNSHostnames(policy[g], Hostnames(attached[g]), {})

Idle == [pc |-> "idle", gw |-> NoRecord, final |-> FALSE, policy |-> Disabled,
         routes |-> {}, missing |-> {}, stale |-> {}, dnsErr |-> FALSE]

-----------------------------------------------------------------------------
Init ==
    /\ phase = [g \in Gateway |-> "live"]
    /\ attached = [g \in Gateway |-> {}]
    /\ policy = [g \in Gateway |-> AllZones]
    /\ published = [g \in Gateway |-> FALSE]
    /\ cname \in [Host -> {NoRecord, Foreign}]
    /\ applied = [g \in Gateway |-> {}]
    /\ queue = Gateway
    /\ rec = Idle
    /\ used = [edits |-> 0, faults |-> 0]

-----------------------------------------------------------------------------
(* Users.                                                                  *)

Edit == used.edits < MaxEdits /\ used' = [used EXCEPT !.edits = @ + 1]

\* Routes are created, deleted or edited so that others reference g.
EditRoutes(g, routes) ==
    /\ Edit
    /\ phase[g] = "live" /\ routes # attached[g]
    /\ attached' = [attached EXCEPT ![g] = routes]
    /\ queue' = queue \cup {g}
    /\ UNCHANGED <<phase, policy, published, cname, applied, rec>>

EditPolicy(g, p) ==
    /\ Edit
    /\ phase[g] = "live" /\ p # policy[g]
    /\ policy' = [policy EXCEPT ![g] = p]
    /\ queue' = queue \cup {g}
    /\ UNCHANGED <<phase, attached, published, cname, applied, rec>>

DeleteGateway(g) ==
    /\ Edit
    /\ phase[g] = "live"
    /\ phase' = [phase EXCEPT ![g] = "deleting"]
    /\ queue' = queue \cup {g}
    /\ UNCHANGED <<attached, policy, published, cname, applied, rec>>

\* RequeueAfter: every Gateway is reconciled periodically.
Requeue(g) ==
    /\ phase[g] = "live" /\ g \notin queue
    /\ queue' = queue \cup {g}
    /\ UNCHANGED <<spec, published, cname, applied, rec, used>>

-----------------------------------------------------------------------------
(* One reconcile of Gateway rec.gw.                                        *)

\* Reads the Gateway, its parameters and its routes.  The finalizer uses the
\* disabled policy and no routes, so that every record is deleted.
StartReconcile(g) ==
    /\ rec.pc = "idle" /\ g \in queue
    /\ queue' = queue \ {g}
    /\ rec' = IF phase[g] = "live"
              THEN [Idle EXCEPT !.pc = "filter", !.gw = g, !.policy = policy[g],
                                !.routes = attached[g]]
              ELSE [Idle EXCEPT !.pc = "list", !.gw = g, !.final = TRUE]
    /\ UNCHANGED <<spec, published, cname, applied, used>>

\* Zone lookups that fail, charged as one fault.
LookupFaults(failed) ==
    /\ failed \subseteq Hostnames(rec.routes)
    /\ failed # {} => /\ "lookup" \in Faults /\ used.faults < MaxFaults
                      /\ Enabled(rec.policy)
    /\ used' = IF failed = {} THEN used ELSE [used EXCEPT !.faults = @ + 1]

\* Mutant: every record that points elsewhere is taken for a stale one.
findManagedDNSHostnameConflicts_None(failed) == {}

\* The wanted hostnames whose record points to the published tunnel host of
\* another Gateway.  After a failed lookup there is no check.
findManagedDNSHostnameConflicts(failed) ==
    IF LookupError(rec.policy, failed) THEN {}
    ELSE {h \in computeDesiredDNSHostnames(rec.policy, Hostnames(rec.routes), failed) :
            cname[h] \in Gateway \ {rec.gw} /\ published[cname[h]]}

\* A route with a conflicting hostname is rejected as a whole.
filterManagedDNSHostnameConflicts(failed) ==
    /\ rec.pc = "filter"
    /\ LookupFaults(failed)
    /\ LET conflicts == findManagedDNSHostnameConflicts(failed) IN
       rec' = [rec EXCEPT !.pc = "list",
                 !.routes = {r \in @ : HostsOf[r] \cap conflicts = {}}]
    /\ UNCHANGED <<spec, published, cname, applied, queue>>

\* Mutant: only the zones of the current policy are searched.
Records_PolicyZones(g) ==
    {h \in Host : cname[h] = g /\ (rec.policy.all \/ ZoneOf[h] \in rec.policy.zones)}

\* The records that point to the tunnel of g, in all zones of the account.
Records(g) == {h \in Host : cname[h] = g}

\* The next step when these records are still to be created and deleted.
AfterDNS(missing, stale) ==
    IF missing # {} \/ stale # {} THEN "write"
    ELSE IF rec.final THEN "finalize" ELSE "routes"

\* reconcileDNS: list the records of the tunnel and diff them.
ListDNS(failed) ==
    /\ rec.pc = "list"
    /\ LookupFaults(failed)
    /\ LET hosts   == Hostnames(rec.routes)
           desired == computeDesiredDNSHostnames(rec.policy, hosts, failed)
           actual  == Records(rec.gw)
           missing == desired \ actual
           stale   == actual \ desired
       IN rec' = IF LookupError(rec.policy, failed)
                 THEN [rec EXCEPT !.pc = "routes", !.dnsErr = TRUE]
                 ELSE [rec EXCEPT !.pc = AfterDNS(missing, stale),
                                  !.missing = missing, !.stale = stale]
    /\ UNCHANGED <<spec, published, cname, applied, queue>>

\* Creates the record of h, or repoints the one that exists.
EnsureDNSCNAME(h) ==
    /\ rec.pc = "write" /\ h \in rec.missing
    /\ cname' = [cname EXCEPT ![h] = rec.gw]
    /\ rec' = [rec EXCEPT !.missing = @ \ {h},
                          !.pc = AfterDNS(rec.missing \ {h}, rec.stale)]
    /\ UNCHANGED <<spec, published, applied, queue, used>>

\* Deletes the record of h, once nothing is missing.
DeleteDNSCNAME(h) ==
    /\ rec.pc = "write" /\ rec.missing = {} /\ h \in rec.stale
    /\ cname' = [cname EXCEPT ![h] = NoRecord]
    /\ rec' = [rec EXCEPT !.stale = @ \ {h},
                          !.pc = AfterDNS({}, rec.stale \ {h})]
    /\ UNCHANGED <<spec, published, applied, queue, used>>

\* Mutant: the finalizer goes on when the records could not be deleted.
DNSError_Ignored ==
    /\ rec.pc \in {"list", "write"}
    /\ "call" \in Faults /\ used.faults < MaxFaults
    /\ used' = [used EXCEPT !.faults = @ + 1]
    /\ rec' = [rec EXCEPT !.pc = IF rec.final THEN "finalize" ELSE "routes",
                          !.dnsErr = TRUE]
    /\ UNCHANGED <<spec, published, cname, applied, queue>>

\* A list, create or delete call fails: the rest of the records are left for
\* the retry.  A finalizer stops, a reconcile goes on with the error.
DNSError ==
    /\ rec.pc \in {"list", "write"}
    /\ "call" \in Faults /\ used.faults < MaxFaults
    /\ used' = [used EXCEPT !.faults = @ + 1]
    /\ \/ /\ rec.final
          /\ rec' = Idle
          /\ queue' = queue \cup {rec.gw}
       \/ /\ ~rec.final
          /\ rec' = [rec EXCEPT !.pc = "routes", !.dnsErr = TRUE]
          /\ queue' = queue
    /\ UNCHANGED <<spec, published, cname, applied>>

\* Mutant: a failed DNS reconciliation is not noticed.
routeDNSMessage_IgnoreError ==
    computeDesiredDNSHostnames(rec.policy, Hostnames(rec.routes), {})

\* The hostnames the accepted routes report as applied.
routeDNSMessage ==
    IF rec.dnsErr THEN {}
    ELSE computeDesiredDNSHostnames(rec.policy, Hostnames(rec.routes), {})

updateRouteStatuses ==
    /\ rec.pc = "routes"
    /\ applied' = [applied EXCEPT ![rec.gw] = routeDNSMessage]
    /\ rec' = [rec EXCEPT !.pc = "status"]
    /\ UNCHANGED <<spec, published, cname, queue, used>>

\* Publishes the tunnel host; a DNS error is returned, hence retried.
patchGatewayStatus ==
    /\ rec.pc = "status"
    /\ published' = [published EXCEPT ![rec.gw] = TRUE]
    /\ queue' = IF rec.dnsErr THEN queue \cup {rec.gw} ELSE queue
    /\ rec' = Idle
    /\ UNCHANGED <<spec, cname, applied, used>>

\* The tunnel is deleted, the route statuses are removed, then the finalizer:
\* the Gateway and its status disappear.
finalize ==
    /\ rec.pc = "finalize"
    /\ phase' = [phase EXCEPT ![rec.gw] = "gone"]
    /\ published' = [published EXCEPT ![rec.gw] = FALSE]
    /\ applied' = [applied EXCEPT ![rec.gw] = {}]
    /\ queue' = queue \ {rec.gw}
    /\ rec' = Idle
    /\ UNCHANGED <<attached, policy, cname, used>>

\* A fatal error or a crash; a restarted controller reconciles every Gateway.
Abort ==
    /\ rec.pc # "idle"
    /\ "crash" \in Faults /\ used.faults < MaxFaults
    /\ used' = [used EXCEPT !.faults = @ + 1]
    /\ rec' = Idle
    /\ queue' = {g \in Gateway : phase[g] # "gone"}
    /\ UNCHANGED <<spec, published, cname, applied>>

-----------------------------------------------------------------------------
User ==
    \E g \in Gateway :
        \/ \E routes \in SUBSET Route : EditRoutes(g, routes)
        \/ \E p \in Policy : EditPolicy(g, p)
        \/ DeleteGateway(g)

Reconcile ==
    \/ \E g \in Gateway : StartReconcile(g)
    \/ \E failed \in SUBSET Host :
        filterManagedDNSHostnameConflicts(failed) \/ ListDNS(failed)
    \/ \E h \in Host : EnsureDNSCNAME(h) \/ DeleteDNSCNAME(h)
    \/ updateRouteStatuses \/ patchGatewayStatus \/ finalize

Next == User \/ Reconcile \/ DNSError \/ Abort \/ \E g \in Gateway : Requeue(g)

Spec == Init /\ [][Next]_vars

\* The worker keeps working and serves every queued Gateway in turn; the
\* periodic requeue never stops.  Users and faults are never forced.
Fairness ==
    /\ WF_vars(Reconcile)
    /\ \A g \in Gateway : SF_vars(StartReconcile(g)) /\ WF_vars(Requeue(g))

FairSpec == Spec /\ Fairness

-----------------------------------------------------------------------------
(* Properties.                                                             *)

TypeOK ==
    /\ phase \in [Gateway -> {"live", "deleting", "gone"}]
    /\ attached \in [Gateway -> SUBSET Route]
    /\ policy \in [Gateway -> Policy \cup {AllZones}]
    /\ published \in [Gateway -> BOOLEAN]
    /\ cname \in [Host -> Gateway \cup {NoRecord, Foreign}]
    /\ applied \in [Gateway -> SUBSET Host]
    /\ queue \subseteq Gateway
    /\ rec \in [pc : {"idle", "filter", "list", "write", "routes", "status", "finalize"},
                gw : Gateway \cup {NoRecord}, final : BOOLEAN,
                policy : Policy \cup {AllZones, Disabled},
                routes : SUBSET Route, missing : SUBSET Host, stale : SUBSET Host,
                dnsErr : BOOLEAN]
    /\ used \in [edits : Nat, faults : Nat]

\* A record that points to the tunnel of another Gateway, one that has
\* published its tunnel host, is neither repointed nor deleted, whatever fails
\* or crashes: "If a hostname's CNAME already points to another Gateway's
\* tunnel, the route is rejected" (README.md, findManagedDNSHostnameConflicts).
PublishedRecordsKept ==
    [][\A h \in Host :
        cname[h] \in Gateway \ {rec.gw} /\ published[cname[h]] => cname'[h] = cname[h]]_vars

\* When a Gateway is gone no record points to its deleted tunnel, although its
\* finalizer was interrupted and records were half created (finalizeEnabled).
NoDanglingRecords ==
    \A h \in Host : cname[h] \in Gateway => phase[cname[h]] # "gone"

\* A hostname is reported as applied only when its record points to the tunnel
\* (updateRouteStatuses, routeDNSMessage).
AppliedMeansRecord ==
    [][\A g \in Gateway : applied'[g] # applied[g] =>
        \A h \in applied'[g] : cname[h] = g]_vars

\* Every record that points to a Gateway is wanted by it, and every accepted
\* route has all its records: a route is without records only when another
\* Gateway owns one of its hostnames.
Settled ==
    /\ \A h \in Host : cname[h] \in Gateway => h \in Wanted(cname[h])
    /\ \A g \in Gateway : phase[g] = "live" => \A r \in attached[g] :
        LET hosts == HostsOf[r] \cap Wanted(g) IN
        \/ \A h \in hosts : cname[h] = g
        \/ \E h \in hosts : cname[h] \in Gateway \ {g}

\* Once users stop editing, the records settle: Gateways that want the same
\* hostnames do not fight over them for ever (reconcileDNS).
Converges == <>[]Settled

-----------------------------------------------------------------------------
(* The inductive invariants behind the safety properties.                  *)

\* A finalizer deletes all records of its Gateway before it lets go of it, and
\* nothing reconciles a Gateway that is gone.
DanglingInv ==
    /\ NoDanglingRecords
    /\ \A g \in queue : phase[g] # "gone"
    /\ rec.pc # "idle" => rec.gw \in Gateway /\ phase[rec.gw] # "gone"
    /\ rec.final => /\ rec.pc \in {"list", "write", "finalize"}
                    /\ rec.routes = {} /\ rec.missing = {}
    /\ rec.pc = "finalize" => rec.final /\ Records(rec.gw) = {}
    /\ rec.pc = "write" => /\ rec.stale \subseteq Records(rec.gw)
                           /\ rec.final => Records(rec.gw) \subseteq rec.stale

\* The record of h belongs to another Gateway, and others can tell.
Taken(h) == cname[h] \in Gateway \ {rec.gw} /\ published[cname[h]]

\* The hostnames the reconcile in progress manages when no lookup fails.
Desired == computeDesiredDNSHostnames(rec.policy, Hostnames(rec.routes), {})

\* Without failed lookups, the routes that passed the filter need no record of
\* another Gateway, and every record they need is there or about to be written.
SharingInv ==
    /\ rec.pc = "list" => \A h \in Desired : ~Taken(h)
    /\ rec.pc = "write" =>
        /\ \A h \in rec.missing : ~Taken(h)
        /\ rec.missing \cap rec.stale = {}
        /\ Desired \subseteq rec.missing \cup (Records(rec.gw) \ rec.stale)
    /\ rec.pc = "routes" /\ ~rec.dnsErr => Desired \subseteq Records(rec.gw)
=============================================================================
