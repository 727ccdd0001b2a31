-------------------------- MODULE RouteClaimsProofs --------------------------
(***************************************************************************)
(* Safety of RouteClaims for any number of routes and keys, and that the   *)
(* watches and retries leave nothing undone.                               *)
(***************************************************************************)
EXTENDS RouteClaims, WellFoundedInduction, FiniteSetTheorems, TLAPS

USE RouteAssumption, LimitAssumption

\* A set of routes that claim a key has a first one.
LEMMA FirstExists ==
    ASSUME NEW S \in SUBSET Route, S # {}
    PROVE  First(S) # {}
<1> DEFINE lt == OpToRel(<, Nat)
<1>1. IsWellFoundedOn(lt, Nat)
  BY NatLessThanWellFounded
<1>2. S \subseteq Nat
  BY DEF Route
<1>3. PICK x \in S : \A y \in S : <<y, x>> \notin lt
  <2> HIDE DEF lt
  <2> QED BY <1>1, <1>2, WFMin
<1>4. \A y \in S : ~(y < x)
  BY <1>3, <1>2 DEF OpToRel
<1> QED BY <1>4, <1>2 DEF First

\* Every key that a route in the running wants is claimed by somebody.
LEMMA ClaimedByExists ==
    ASSUME TypeOK, NEW r \in rec.routes, NEW k \in rec.keys[r]
    PROVE  ClaimedBy(k) # {}
<1>1. Claimers(k) \in SUBSET Route /\ Claimers(k) # {}
  BY DEF TypeOK, Claimers
<1>2. First(Claimers(k)) # {}
  BY <1>1, FirstExists
<1> QED BY <1>2 DEF ClaimedBy

\* A route that survives the filter has the name of whoever claims its keys.
LEMMA Survivor ==
    ASSUME NEW r \in rec.routes, r \notin findConflictingRoutes,
           NEW k \in rec.keys[r], NEW o \in ClaimedBy(k)
    PROVE  NameOf[o] = NameOf[r]
BY DEF findConflictingRoutes

\* What the status patches leave: types, and nobody becomes accepted unless
\* the reported value says so.
LEMMA ReportStep ==
    ASSUME TypeOK, NEW routes, NEW value \in [Route -> Statuses \cup Classes], NEW failed \in SUBSET Route,
           routes \subseteq Route,
           \A r \in routes : value[r] \in Statuses,
           Report(routes, value, failed)
    PROVE  /\ used' \in [edits : Nat, records : Nat, faults : Nat]
           /\ status' \in [Route -> Statuses]
           /\ \A r \in Route : status'[r] = status[r] \/ (r \in routes /\ status'[r] = value[r])
<1>1. Cardinality(failed) \in Nat
  <2>1. IsFiniteSet(Route)
    BY FS_Interval, 1 \in Int, N \in Int DEF Route
  <2> QED BY <2>1, FS_Subset, FS_CardinalityType
<1>2. used' \in [edits : Nat, records : Nat, faults : Nat]
  BY <1>1 DEF TypeOK, Report
<1> QED BY <1>2 DEF TypeOK, Report

\* The initial states satisfy the invariant.
LEMMA InitClaims == Init => ClaimInv
BY DEF Init, Idle, ClaimInv, TypeOK, Classes, Statuses, OneOwner, Compatible, OwnersRunning,
       AcceptedRecorded

\* Edits change neither the ConfigMap nor the reconcile in progress.
LEMMA UserStep ==
    ASSUME ClaimInv, User \/ Requeue
    PROVE  ClaimInv'
<1> USE DEF ClaimInv
<1>1. UNCHANGED <<cm, rec>>
  BY DEF User, Requeue, EditRoute, EditGrant, EditRecord
<1>2. OneOwner' /\ Compatible' /\ OwnersRunning' /\ AcceptedRecorded'
  BY <1>1 DEF OneOwner, Compatible, OwnersRunning, AcceptedRecorded, Served
<1>3. TypeOK'
  <2>1. CASE Requeue
    BY <2>1 DEF Requeue, TypeOK, inputs
  <2>2. ASSUME NEW r \in Route, NEW c \in Classes, NEW ks \in KeySets[r], EditRoute(r, c, ks)
        PROVE  TypeOK'
    <3>1. ks \in SUBSET Key
      OBVIOUS
    <3>2. /\ class' \in [Route -> Classes] /\ keys' \in [Route -> SUBSET Key]
          /\ status' \in [Route -> Statuses]
      BY <2>2, <3>1 DEF EditRoute, TypeOK, Statuses
    <3>3. used' \in [edits : Nat, records : Nat, faults : Nat]
      BY <2>2 DEF EditRoute, Edit, TypeOK
    <3> QED BY <2>2, <3>2, <3>3 DEF EditRoute, TypeOK
  <2>3. ASSUME NEW r \in Route, EditGrant(r)
        PROVE  TypeOK'
    BY <2>3 DEF EditGrant, Edit, TypeOK
  <2>4. ASSUME NEW k \in Key, EditRecord(k)
        PROVE  TypeOK'
    BY <2>4 DEF EditRecord, Edit, TypeOK
  <2> QED BY <2>1, <2>2, <2>3, <2>4 DEF User
<1> QED BY <1>2, <1>3

\* The routes that may attach are those of class ok.
LEMMA AttachStep ==
    ASSUME ClaimInv, NEW failed \in SUBSET Route, listGatewayRoutes(failed)
    PROVE  ClaimInv'
<1> USE DEF ClaimInv
<1>1. /\ used' \in [edits : Nat, records : Nat, faults : Nat]
      /\ status' \in [Route -> Statuses]
  <2> DEFINE routes == staleRoutes \cup deniedRoutes \cup noMatchRoutes \cup invalidRoutes
  <2>1. rec.class \in [Route -> Classes]
    BY DEF TypeOK
  <2>2. Rejection \in [Route -> Statuses \cup Classes]
    BY <2>1 DEF Rejection, Statuses
  <2>3. \A r \in routes : Rejection[r] \in Statuses
    BY <2>1 DEF Rejection, Classes, Statuses, staleRoutes, deniedRoutes, noMatchRoutes, invalidRoutes
  <2>4. Report(routes, Rejection, failed)
    BY DEF listGatewayRoutes
  <2>5. routes \subseteq Route
    BY DEF staleRoutes, deniedRoutes, noMatchRoutes, invalidRoutes
  <2> QED BY <2>2, <2>3, <2>4, <2>5, ReportStep
<1>2. TypeOK'
  BY <1>1 DEF TypeOK, listGatewayRoutes, inputs
<1>3. OneOwner' /\ Compatible' /\ AcceptedRecorded' /\ OwnersRunning'
  BY DEF listGatewayRoutes, inputs, OneOwner, Compatible, OwnersRunning, AcceptedRecorded, TypeOK
<1> QED BY <1>2, <1>3

\* The conflict filter leaves compatible routes and keeps every owner.
LEMMA ClaimsStep ==
    ASSUME ClaimInv, NEW failed \in SUBSET Route, filterConflictingRoutes(failed)
    PROVE  ClaimInv'
<1> USE DEF ClaimInv
<1>1. findConflictingRoutes \subseteq rec.routes /\ rec.routes \subseteq Route
  BY DEF findConflictingRoutes, TypeOK
<1>2. /\ used' \in [edits : Nat, records : Nat, faults : Nat]
      /\ status' \in [Route -> Statuses]
  <2>1. Conflict \in [Route -> Statuses \cup Classes] /\ \A r \in Route : Conflict[r] \in Statuses
    BY DEF Conflict, Statuses
  <2> QED BY <1>1, <2>1, ReportStep DEF filterConflictingRoutes
<1>3. /\ rec' = [rec EXCEPT !.pc = "dns", !.routes = @ \ findConflictingRoutes,
                            !.errs = @ \/ failed # {}]
      /\ rec.pc = "claims" /\ UNCHANGED <<inputs, cm, queued>>
  BY DEF filterConflictingRoutes
<1>a. TypeOK' /\ rec'.pc = "dns" /\ rec'.routes = rec.routes \ findConflictingRoutes
      /\ rec'.keys = rec.keys /\ rec'.class = rec.class
  <2> HIDE DEF findConflictingRoutes
  <2> QED BY <1>1, <1>2, <1>3 DEF TypeOK, inputs
<1>4. Compatible'
  <2> SUFFICES ASSUME NEW r \in rec.routes \ findConflictingRoutes,
                      NEW s \in rec.routes \ findConflictingRoutes,
                      NEW k \in rec.keys[r] \cap rec.keys[s]
               PROVE  NameOf[r] = NameOf[s]
    BY <1>a DEF Compatible
  <2>1. PICK o \in ClaimedBy(k) : TRUE
    BY ClaimedByExists
  <2> QED BY <2>1, Survivor
<1>5. OwnersRunning'
  <2> SUFFICES ASSUME DistinctNames, NEW r \in Route, rec.class[r] = "ok", Served(r)
               PROVE  r \notin findConflictingRoutes
    BY <1>a, <1>3 DEF OwnersRunning, Served, DistinctNames
  <2>1. SUFFICES ASSUME NEW s \in rec.routes, NameOf[s] = NameOf[r],
                        NEW k \in rec.keys[s], NEW o \in ClaimedBy(k), NameOf[o] # NameOf[s]
                 PROVE  FALSE
    BY DEF findConflictingRoutes
  <2>2. s = r
    BY <2>1, <1>1 DEF DistinctNames
  <2>3. <<k, r>> \in cm
    BY <2>1, <2>2 DEF Served
  <2>4. r \in Owners(k)
    BY <2>3 DEF Owners
  <2>5. o \in Owners(k)
    BY <2>4, <2>1 DEF ClaimedBy
  <2>6. PICK p \in cm : p[1] = k /\ p[2] = o
    BY <2>5 DEF Owners
  <2>7. NameOf[o] = NameOf[r]
    BY <2>3, <2>6 DEF OneOwner
  <2> QED BY <2>1, <2>2, <2>7
<1>6. OneOwner' /\ AcceptedRecorded'
  BY <1>a, <1>3 DEF OneOwner, AcceptedRecorded
<1> QED BY <1>a, <1>4, <1>5, <1>6

\* The filter of foreign records remembers whom it removed.
LEMMA DNSStep ==
    ASSUME ClaimInv, NEW failed \in SUBSET Route, filterManagedDNSHostnameConflicts(failed)
    PROVE  ClaimInv'
<1> USE DEF ClaimInv
<1> DEFINE out == {r \in rec.routes : rec.keys[r] \cap taken # {}}
<1>1. out \subseteq Route
  BY DEF TypeOK
<1>2. /\ Report(out, Conflict, failed)
      /\ rec' = [rec EXCEPT !.pc = "config", !.routes = @ \ out,
                            !.foreign = out, !.errs = @ \/ failed # {}]
      /\ rec.pc = "dns" /\ UNCHANGED <<inputs, cm, queued>>
  BY DEF filterManagedDNSHostnameConflicts
<1> HIDE DEF out
<1>3. /\ used' \in [edits : Nat, records : Nat, faults : Nat]
      /\ status' \in [Route -> Statuses]
  <2>1. Conflict \in [Route -> Statuses \cup Classes] /\ \A r \in Route : Conflict[r] \in Statuses
    BY DEF Conflict, Statuses
  <2> QED BY <1>1, <1>2, <2>1, ReportStep
<1>4. TypeOK' /\ rec'.pc = "config" /\ rec'.routes = rec.routes \ out /\ rec'.foreign = out
      /\ rec'.keys = rec.keys /\ rec'.class = rec.class
  BY <1>1, <1>2, <1>3 DEF TypeOK, inputs
<1>5. Compatible' /\ OneOwner' /\ AcceptedRecorded'
  BY <1>2, <1>4 DEF Compatible, OneOwner, AcceptedRecorded
<1>6. OwnersRunning'
  BY <1>2, <1>4 DEF OwnersRunning, Served, DistinctNames
<1> QED BY <1>4, <1>5, <1>6

\* The new ConfigMap holds the keys of compatible routes only.
LEMMA ConfigStep ==
    ASSUME ClaimInv, reconcileRouteConfigMap
    PROVE  ClaimInv'
<1> USE DEF ClaimInv
<1>1. \A p : p \in buildRouteConfig <=>
          \E r \in rec.routes : granted[r] /\ p \in rec.keys[r] \X {r}
  BY DEF buildRouteConfig
<1>2. /\ cm' = buildRouteConfig /\ rec.pc = "config"
      /\ rec'.pc = "statuses" /\ rec'.routes = rec.routes /\ rec'.keys = rec.keys
      /\ rec'.class = rec.class
      /\ rec'.refs = {r \in rec.routes : NameOf[r] \in DeniedNames}
  BY DEF reconcileRouteConfigMap, TypeOK
<1>3. TypeOK'
  <2>1. cm' \subseteq Key \X Route
    <3> SUFFICES ASSUME NEW p \in cm' PROVE p \in Key \X Route
      OBVIOUS
    <3>1. PICK r \in rec.routes : p \in rec.keys[r] \X {r}
      BY <1>1, <1>2
    <3> QED BY <3>1 DEF TypeOK
  <2>2. rec'.refs \in SUBSET Route
    BY <1>2 DEF TypeOK
  <2>3. rec' = [rec EXCEPT !.pc = "statuses", !.refs = rec'.refs]
    BY <1>2 DEF reconcileRouteConfigMap, TypeOK
  <2> QED BY <2>1, <2>2, <2>3 DEF TypeOK, reconcileRouteConfigMap, inputs
<1>4. OneOwner'
  <2> SUFFICES ASSUME NEW p \in cm', NEW q \in cm', p[1] = q[1]
               PROVE  NameOf[p[2]] = NameOf[q[2]]
    BY DEF OneOwner
  <2>1. PICK r \in rec.routes : p \in rec.keys[r] \X {r}
    BY <1>1, <1>2
  <2>2. PICK s \in rec.routes : q \in rec.keys[s] \X {s}
    BY <1>1, <1>2
  <2>3. p[1] \in rec.keys[r] \cap rec.keys[s] /\ p[2] = r /\ q[2] = s
    BY <2>1, <2>2
  <2> QED BY <2>3, <1>2 DEF Compatible
<1>5. AcceptedRecorded'
  <2> SUFFICES ASSUME NEW r \in rec.routes, NameOf[r] \notin DeniedNames,
                      NEW p \in rec.keys[r] \X {r}
               PROVE  p \in buildRouteConfig
    BY <1>2 DEF AcceptedRecorded, Served
  <2>1. granted[r]
    BY DEF DeniedNames
  <2> QED BY <1>1, <2>1
<1>6. Compatible' /\ OwnersRunning'
  BY <1>2 DEF Compatible, OwnersRunning
<1> QED BY <1>3, <1>4, <1>5, <1>6

\* Starting, finishing and abandoning a reconcile.
LEMMA OtherStep ==
    ASSUME ClaimInv,
           StartReconcile \/ Abort \/ \E failed \in SUBSET Route : updateRouteStatuses(failed)
    PROVE  ClaimInv'
<1> USE DEF ClaimInv
<1>1. cm' = cm /\ rec'.pc \in {"idle", "attach"}
  <2>1. cm' = cm /\ (rec' = Idle \/ rec' = [Idle EXCEPT !.pc = "attach", !.class = class, !.keys = keys])
    <3> HIDE DEF ClaimInv
    <3> QED BY Zenon DEF StartReconcile, Abort, updateRouteStatuses
  <2>2. /\ Idle.pc = "idle"
        /\ Idle \in [pc : {"idle"}, routes : SUBSET Route, class : [Route -> Classes],
                     keys : [Route -> SUBSET Key], foreign : SUBSET Route,
                     refs : SUBSET Route, errs : BOOLEAN]
    BY DEF Idle, Classes
  <2>3. [Idle EXCEPT !.pc = "attach", !.class = class, !.keys = keys].pc = "attach"
    BY <2>2 DEF TypeOK
  <2> QED BY <2>1, <2>2, <2>3
<1>2. TypeOK'
  <2>1. CASE StartReconcile
    BY <2>1 DEF StartReconcile, TypeOK, inputs, Idle
  <2>2. CASE Abort
    BY <2>2 DEF Abort, TypeOK, inputs, Idle, Classes
  <2>3. ASSUME NEW failed \in SUBSET Route, updateRouteStatuses(failed)
        PROVE  TypeOK'
    <3>1. /\ RouteConditions \in [Route -> Statuses \cup Classes]
          /\ \A r \in Route : RouteConditions[r] \in Statuses
      BY DEF RouteConditions, Statuses
    <3>2. rec.routes \subseteq Route
      BY DEF TypeOK
    <3>3. /\ used' \in [edits : Nat, records : Nat, faults : Nat]
          /\ status' \in [Route -> Statuses]
      BY <2>3, <3>1, <3>2, ReportStep DEF updateRouteStatuses
    <3>4. rec' \in [pc : {"idle", "attach", "claims", "dns", "config", "statuses"},
                    routes : SUBSET Route, class : [Route -> Classes],
                    keys : [Route -> SUBSET Key], foreign : SUBSET Route,
                    refs : SUBSET Route, errs : BOOLEAN]
      BY <2>3 DEF updateRouteStatuses, Idle, Classes
    <3>5. queued' \in BOOLEAN
      BY <2>3 DEF updateRouteStatuses
    <3> QED BY <2>3, <3>3, <3>4, <3>5 DEF updateRouteStatuses, TypeOK, inputs
  <2> QED BY <2>1, <2>2, <2>3
<1> QED BY <1>1, <1>2 DEF OneOwner, Compatible, OwnersRunning, AcceptedRecorded

\* The invariant is inductive.
LEMMA StepClaims == ClaimInv /\ [Next]_vars => ClaimInv'
<1> SUFFICES ASSUME ClaimInv, [Next]_vars PROVE ClaimInv'
  OBVIOUS
<1>1. CASE User \/ Requeue
  BY <1>1, UserStep
<1>2. CASE Abort \/ StartReconcile \/ \E failed \in SUBSET Route : updateRouteStatuses(failed)
  BY <1>2, OtherStep
<1>3. CASE reconcileRouteConfigMap
  BY <1>3, ConfigStep
<1>4. CASE \E failed \in SUBSET Route : \/ listGatewayRoutes(failed)
                                         \/ filterConflictingRoutes(failed)
                                         \/ filterManagedDNSHostnameConflicts(failed)
  BY <1>4, AttachStep, ClaimsStep, DNSStep
<1>5. CASE UNCHANGED vars
  BY <1>5 DEF vars, ClaimInv, TypeOK, OneOwner, Compatible, OwnersRunning, AcceptedRecorded, Served
<1> QED BY <1>1, <1>2, <1>3, <1>4, <1>5 DEF Next, Reconcile

\* ClaimInv holds in every reachable state, for any routes, keys and bounds.
THEOREM ClaimInvariant == Spec => []ClaimInv
BY InitClaims, StepClaims, PTL DEF Spec

\* Two routes never own the same hostname and path in the route ConfigMap
\* (findConflictingRoutes, buildRouteConfig).
THEOREM OwnerUnique == Spec => []OneOwner
<1>1. ClaimInv => OneOwner
  BY DEF ClaimInv
<1> QED BY <1>1, ClaimInvariant, PTL

\* If names are unique across route kinds, a route that is served keeps its
\* entries whatever other routes claim (findConflictingRoutes).
THEOREM ClaimsKept ==
    ASSUME DistinctNames
    PROVE  Spec => OwnersKeepClaims
<1> DEFINE Keep == rec.pc = "config" /\ cm' # cm =>
        \A r \in Route :
            /\ rec.class[r] = "ok" /\ Served(r)
            /\ granted[r] /\ r \notin rec.foreign
            => rec.keys[r] \X {r} \subseteq cm'
<1>1. ClaimInv /\ [Next]_vars => [Keep]_vars
  <2> SUFFICES ASSUME ClaimInv, Next, rec.pc = "config", cm' # cm, NEW r \in Route,
                      rec.class[r] = "ok", Served(r), granted[r], r \notin rec.foreign
               PROVE  rec.keys[r] \X {r} \subseteq cm'
    OBVIOUS
  <2>1. reconcileRouteConfigMap
    BY DEF Next, User, Requeue, Reconcile, Abort, EditRoute, EditGrant, EditRecord, StartReconcile,
           listGatewayRoutes, filterConflictingRoutes, filterManagedDNSHostnameConflicts,
           updateRouteStatuses
  <2>2. r \in rec.routes
    BY DEF ClaimInv, OwnersRunning
  <2> QED BY <2>1, <2>2 DEF reconcileRouteConfigMap, buildRouteConfig
<1> QED BY <1>1, ClaimInvariant, PTL DEF Spec, OwnersKeepClaims

\* A route becomes accepted only when the ConfigMap has all its keys
\* (updateRouteStatuses).
THEOREM AcceptedServed == Spec => AcceptedIsServed
<1> DEFINE Report1 == \A r \in Route :
        status'[r] = "accepted" /\ status[r] # "accepted" => Served(r)
<1>1. ClaimInv /\ [Next]_vars => [Report1]_vars
  <2> SUFFICES ASSUME ClaimInv, Next, NEW r \in Route, status'[r] = "accepted",
                      status[r] # "accepted"
               PROVE  Served(r)
    OBVIOUS
  <2> USE DEF ClaimInv
  <2>1. CASE User \/ Requeue \/ Abort \/ StartReconcile \/ reconcileRouteConfigMap
    BY <2>1 DEF User, Requeue, Abort, EditRoute, EditGrant, EditRecord, StartReconcile,
                reconcileRouteConfigMap, TypeOK
  <2>2. ASSUME NEW failed \in SUBSET Route,
               \/ listGatewayRoutes(failed) \/ filterConflictingRoutes(failed)
               \/ filterManagedDNSHostnameConflicts(failed)
        PROVE  FALSE
    BY <2>2 DEF listGatewayRoutes, filterConflictingRoutes, filterManagedDNSHostnameConflicts,
                Report, Rejection, Conflict, TypeOK, Classes
  <2>3. ASSUME NEW failed \in SUBSET Route, updateRouteStatuses(failed)
        PROVE  Served(r)
    BY <2>3 DEF updateRouteStatuses, Report, RouteConditions, AcceptedRecorded
  <2> QED BY <2>1, <2>2, <2>3 DEF Next, Reconcile
<1> QED BY <1>1, ClaimInvariant, PTL DEF Spec, AcceptedIsServed

-----------------------------------------------------------------------------
(* QuietMeansSettled, from QuietInv.                                       *)

LEMMA ReportFacts ==
    ASSUME NEW routes, NEW value, NEW failed, TypeOK, Report(routes, value, failed)
    PROVE  /\ used'.records = used.records
           /\ \A r \in Route :
                status'[r] = IF r \in routes \ failed /\ class[r] # "absent" THEN value[r]
                             ELSE status[r]
<1>1. used' = [used EXCEPT !.faults = used.faults + Cardinality(failed)]
  BY DEF Report
<1> QED BY <1>1 DEF Report, TypeOK

\* What the new ConfigMap has of a route.
LEMMA ConfigEntries ==
    ASSUME TypeOK, NEW r \in Route
    PROVE  {p \in buildRouteConfig : p[2] = r} =
              IF r \in rec.routes /\ granted[r] THEN rec.keys[r] \X {r} ELSE {}
<1>1. \A p : p \in buildRouteConfig <=>
          \E s \in rec.routes : granted[s] /\ p \in rec.keys[s] \X {s}
  BY DEF buildRouteConfig
<1>2. \A p : p \in {q \in buildRouteConfig : q[2] = r} <=>
          r \in rec.routes /\ granted[r] /\ p \in rec.keys[r] \X {r}
  BY <1>1
<1> QED BY <1>2

LEMMA QuietInit == Init => QuietInv
<1> SUFFICES ASSUME Init PROVE QuietInv
  OBVIOUS
<1>1. queued /\ taken = {} /\ rec.routes = {} /\ \A r \in Route : status[r] = "none"
  BY DEF Init, Idle
<1> QED BY <1>1 DEF QuietInv, QuietMeansSettled

\* An edit that makes no request changes nothing that is reported or written.
LEMMA QuietUser ==
    ASSUME ClaimInv, QuietInv, User \/ Requeue
    PROVE  QuietInv'
<1>0. TypeOK /\ UNCHANGED <<rec, cm>>
  BY DEF ClaimInv, User, Requeue, EditRoute, EditGrant, EditRecord
<1>1. CASE Requeue
  BY <1>1 DEF Requeue, QuietInv, QuietMeansSettled, inputs
<1>2. ASSUME NEW k \in Key, EditRecord(k) PROVE QuietInv'
  <2>1. used'.records # 0
    <3>1. used.records \in Nat /\ used'.records = used.records + 1
      BY <1>0, <1>2 DEF EditRecord, TypeOK
    <3> QED BY <3>1
  <2> QED BY <1>2, <2>1 DEF EditRecord, QuietInv, QuietMeansSettled
<1>3. ASSUME NEW r \in Route, NEW c \in Classes, NEW ks \in KeySets[r], EditRoute(r, c, ks)
      PROVE  QuietInv'
  <2>1. /\ used'.records = used.records /\ UNCHANGED <<granted, taken>>
        /\ \A x \in Route : x # r => class'[x] = class[x] /\ keys'[x] = keys[x]
        /\ class'[r] = c
    BY <1>0, <1>3 DEF EditRoute, Edit, TypeOK
  <2>2. \A x \in Route : class'[x] = "absent" => status'[x] = "none"
    BY <1>0, <1>3, <2>1 DEF EditRoute, QuietInv, TypeOK
  <2>3. ASSUME ~queued'
        PROVE  /\ ~queued /\ {class[r], c} \subseteq Gone /\ status[r] = "none"
               /\ \A x \in Route : status'[x] = status[x]
    <3>1. ~queued /\ \A x \in {class[r], c} : ~mapHTTPRouteToGateway(r, x)
      BY <1>3, <2>3 DEF EditRoute
    <3>2. {class[r], c} \subseteq Gone /\ status[r] = "none"
      BY <3>1 DEF mapHTTPRouteToGateway, Gone
    <3> QED BY <1>0, <1>3, <3>1, <3>2 DEF EditRoute, TypeOK
  <2>4. ~queued' /\ used'.records = 0 => Reported'
    <3> SUFFICES ASSUME ~queued', used'.records = 0 PROVE Reported'
      OBVIOUS
    <3>1. Reported
      BY <2>1, <2>3 DEF QuietInv
    <3>2. rec.pc # "idle" => \A x \in Route : UpToDate(x)'
      <4> SUFFICES ASSUME rec.pc # "idle", NEW x \in Route PROVE UpToDate(x)'
        OBVIOUS
      <4>1. UpToDate(x)
        BY <3>1 DEF Reported
      <4>2. CASE x = r
        <5>1. rec.class[r] \in Gone
          BY <2>3, <4>1, <4>2 DEF UpToDate
        <5> QED BY <1>0, <2>1, <2>3, <4>2, <5>1 DEF UpToDate
      <4>3. CASE x # r
        BY <1>0, <2>1, <2>3, <4>1, <4>3 DEF UpToDate
      <4> QED BY <4>2, <4>3
    <3>3. buildRouteConfig' = buildRouteConfig
      BY <1>0, <2>1 DEF buildRouteConfig
    <3>4. \A x \in Route : Outclaimed(x) => Outclaimed(x)'
      BY <1>0 DEF Outclaimed
    <3> QED BY <1>0, <2>1, <2>3, <3>1, <3>2, <3>3, <3>4 DEF Reported
  <2>5. QuietMeansSettled'
    <3> SUFFICES ASSUME rec.pc = "idle", ~queued', used'.records = 0 PROVE Settled'
      BY <1>0 DEF QuietMeansSettled
    <3>1. Settled
      BY <2>1, <2>3 DEF QuietInv, QuietMeansSettled
    <3>2. ASSUME NEW x \in Route, x # r, Contested(x) PROVE Contested(x)'
      <4>1. class[r] # "ok"
        BY <2>3 DEF Gone
      <4> QED BY <2>1, <3>2, <4>1 DEF Contested
    <3>3. {p \in cm : p[2] = r} = {}
      BY <2>3, <3>1 DEF Settled
    <3>4. c \in {"absent", "detached"} /\ status'[r] = "none"
      BY <2>3 DEF Gone
    <3> QED BY <1>0, <2>1, <2>3, <3>1, <3>2, <3>3, <3>4 DEF Settled
  <2> QED BY <1>0, <2>1, <2>2, <2>4, <2>5 DEF QuietInv
<1>4. ASSUME NEW r \in Route, EditGrant(r) PROVE QuietInv'
  <2>1. /\ used'.records = used.records /\ UNCHANGED <<class, keys, taken, status>>
        /\ \A x \in Route : x # r => granted'[x] = granted[x]
        /\ ~queued' => ~queued /\ class[r] \in Gone
    BY <1>0, <1>4 DEF EditGrant, Edit, TypeOK, Gone
  <2>2. ~queued' /\ used'.records = 0 => Reported'
    <3> SUFFICES ASSUME ~queued', used'.records = 0 PROVE Reported'
      OBVIOUS
    <3>1. Reported
      BY <2>1 DEF QuietInv
    <3>2. rec.pc # "idle" => r \notin rec.routes
      BY <2>1, <3>1 DEF Reported, UpToDate, QuietInv, Gone
    <3>3. rec.pc # "idle" => buildRouteConfig' = buildRouteConfig
      <4>1. rec.routes \subseteq Route
        BY <1>0 DEF TypeOK
      <4> QED BY <1>0, <2>1, <3>2, <4>1 DEF buildRouteConfig
    <3>4. rec.pc # "idle" => {x \in rec.routes : ~granted'[x]} = {x \in rec.routes : ~granted[x]}
      <4>1. rec.routes \subseteq Route
        BY <1>0 DEF TypeOK
      <4> QED BY <2>1, <3>2, <4>1
    <3> QED BY <1>0, <2>1, <3>1, <3>3, <3>4 DEF Reported, UpToDate, Outclaimed
  <2>3. QuietMeansSettled'
    <3> SUFFICES ASSUME rec.pc = "idle", ~queued', used'.records = 0 PROVE Settled'
      BY <1>0 DEF QuietMeansSettled
    <3>1. Settled /\ class[r] # "ok"
      BY <2>1 DEF QuietInv, QuietMeansSettled, Gone
    <3>2. \A x \in Route : Contested(x)' = Contested(x)
      BY <2>1 DEF Contested
    <3> QED BY <1>0, <2>1, <3>1, <3>2 DEF Settled
  <2> QED BY <1>0, <2>1, <2>2, <2>3 DEF QuietInv
<1> QED BY <1>1, <1>2, <1>3, <1>4 DEF User

\* The reconcile starts from what it reads.
LEMMA QuietStart ==
    ASSUME ClaimInv, QuietInv, StartReconcile
    PROVE  QuietInv'
<1>0. /\ class \in [Route -> Classes] /\ keys \in [Route -> SUBSET Key]
      /\ UNCHANGED <<inputs, cm, status, used>>
  BY DEF ClaimInv, TypeOK, StartReconcile
<1>1. /\ rec'.pc = "attach" /\ rec'.routes = {}
      /\ rec'.class = class /\ rec'.keys = keys
  BY DEF StartReconcile, Idle
<1>2. Reported'
  BY <1>0, <1>1 DEF Reported, UpToDate, inputs
<1> QED BY <1>0, <1>1, <1>2 DEF QuietInv, QuietMeansSettled, inputs

\* The routes that may not attach are reported.
LEMMA QuietAttach ==
    ASSUME ClaimInv, QuietInv, NEW failed \in SUBSET Route, listGatewayRoutes(failed)
    PROVE  QuietInv'
<1> DEFINE out == staleRoutes \cup deniedRoutes \cup noMatchRoutes \cup invalidRoutes
<1>0. TypeOK /\ rec.class \in [Route -> Classes]
  BY DEF ClaimInv, TypeOK
<1>1. /\ rec.pc = "attach" /\ Report(out, Rejection, failed) /\ UNCHANGED <<inputs, cm, queued>>
  BY DEF listGatewayRoutes
<1>2. /\ rec'.pc = "claims" /\ rec'.routes = {r \in Route : rec.class[r] = "ok"}
      /\ rec'.class = rec.class /\ rec'.keys = rec.keys /\ rec'.errs = (failed # {})
  BY <1>0 DEF listGatewayRoutes, TypeOK
<1>3. \A r \in Route : r \in out <=> rec.class[r] \in {"detached", "denied", "unmatched", "unsupported"}
  BY DEF staleRoutes, deniedRoutes, noMatchRoutes, invalidRoutes
<1> HIDE DEF out
<1>4. /\ used'.records = used.records
      /\ \A r \in Route :
           status'[r] = IF r \in out \ failed /\ class[r] # "absent" THEN Rejection[r] ELSE status[r]
  BY <1>0, <1>1, ReportFacts
<1>5. \A r \in Route : class'[r] = "absent" => status'[r] = "none"
  BY <1>1, <1>4 DEF QuietInv, inputs
<1>6. ~queued' /\ used'.records = 0 => Reported'
  <2> SUFFICES ASSUME ~queued, used.records = 0 PROVE Reported'
    BY <1>1, <1>4
  <2>1. ASSUME NEW r \in Route
        PROVE  UpToDate(r)' /\ (failed = {} /\ rec.class[r] # "ok" =>
                 status'[r] = IF rec.class[r] \in Gone THEN "none" ELSE rec.class[r])
    <3>1. UpToDate(r)
      BY <1>1 DEF QuietInv, Reported
    <3>2. class[r] = "absent" => status[r] = "none"
      BY DEF QuietInv
    <3>3. Rejection[r] = IF rec.class[r] = "detached" THEN "none" ELSE rec.class[r]
      BY DEF Rejection
    <3>4. CASE class[r] = rec.class[r] /\ keys[r] = rec.keys[r]
      <4>1. UpToDate(r)'
        BY <1>1, <1>2, <3>4 DEF UpToDate, inputs
      <4>2. CASE rec.class[r] = "absent"
        BY <1>3, <1>4, <3>2, <3>4, <4>1, <4>2 DEF Gone
      <4>3. CASE rec.class[r] # "absent" /\ rec.class[r] # "ok" /\ failed = {}
        <5>1. r \in out
          BY <1>0, <1>3, <4>3 DEF Classes
        <5>2. status'[r] = Rejection[r]
          BY <1>4, <3>4, <4>3, <5>1
        <5> QED BY <3>3, <4>1, <4>3, <5>2 DEF Gone
      <4> QED BY <4>1, <4>2, <4>3
    <3>5. CASE {class[r], rec.class[r]} \subseteq Gone /\ status[r] = "none"
      <4>1. status'[r] = "none"
        BY <1>3, <1>4, <3>3, <3>5 DEF Gone
      <4> QED BY <1>1, <1>2, <3>5, <4>1 DEF UpToDate, inputs
    <3> QED BY <3>1, <3>4, <3>5 DEF UpToDate
  <2> QED BY <1>2, <2>1 DEF Reported
<1> QED BY <1>1, <1>2, <1>4, <1>5, <1>6 DEF QuietInv, QuietMeansSettled, inputs

\* A route rejected here has lost a key to somebody, who keeps it.
LEMMA QuietClaims ==
    ASSUME DistinctNames, ClaimInv, QuietInv, NEW failed \in SUBSET Route,
           filterConflictingRoutes(failed)
    PROVE  QuietInv'
<1> DEFINE out == findConflictingRoutes
<1>0. TypeOK /\ rec.routes \subseteq Route /\ rec.errs \in BOOLEAN
  BY DEF ClaimInv, TypeOK
<1>1. /\ rec.pc = "claims" /\ Report(out, Conflict, failed) /\ UNCHANGED <<inputs, cm, queued>>
  BY DEF filterConflictingRoutes
<1>2. /\ rec'.pc = "dns" /\ rec'.routes = rec.routes \ out
      /\ rec'.class = rec.class /\ rec'.keys = rec.keys /\ rec'.errs = (rec.errs \/ failed # {})
  <2> HIDE DEF findConflictingRoutes
  <2> QED BY <1>0 DEF filterConflictingRoutes, TypeOK
<1>3. out \subseteq rec.routes /\ \A r \in out : Outclaimed(r)
  <2>1. out \subseteq rec.routes
    BY DEF findConflictingRoutes
  <2>2. ASSUME NEW r \in out PROVE Outclaimed(r)
    <3>1. PICK s \in rec.routes : /\ NameOf[s] = NameOf[r]
                                  /\ \E k \in rec.keys[s] : \E o \in ClaimedBy(k) : NameOf[o] # NameOf[s]
      BY DEF findConflictingRoutes
    <3>2. s = r
      BY <1>0, <2>1, <3>1 DEF DistinctNames
    <3>a. PICK k \in rec.keys[r] : \E o \in ClaimedBy(k) : NameOf[o] # NameOf[r]
      BY <3>1, <3>2
    <3>3. PICK o \in ClaimedBy(k) : NameOf[o] # NameOf[r]
      BY <3>a
    <3>4. CASE o \in Owners(k)
      <4>1. PICK p \in cm : p[1] = k /\ p[2] = o
        BY <3>4 DEF Owners
      <4>2. p = <<k, o>> /\ o \in Route
        BY <1>0, <4>1 DEF TypeOK
      <4> QED BY <3>3, <4>1, <4>2 DEF Outclaimed
    <3>5. CASE o \in Claimers(k)
      <4>1. o \in rec.routes /\ k \in rec.keys[o]
        BY <3>5 DEF Claimers
      <4> QED BY <1>0, <3>3, <4>1 DEF Outclaimed, QuietInv
    <3> QED BY <3>3, <3>4, <3>5 DEF ClaimedBy, First
  <2> QED BY <2>1, <2>2
<1> HIDE DEF out
<1>4. /\ used'.records = used.records
      /\ \A r \in Route :
           status'[r] = IF r \in out \ failed /\ class[r] # "absent" THEN Conflict[r] ELSE status[r]
  BY <1>0, <1>1, ReportFacts
<1>5. \A r \in Route : class'[r] = "absent" => status'[r] = "none"
  BY <1>1, <1>4 DEF QuietInv, inputs
<1>6. ~queued' /\ used'.records = 0 => Reported'
  <2> SUFFICES ASSUME ~queued, used.records = 0 PROVE Reported'
    BY <1>1, <1>4
  <2>1. ASSUME NEW r \in Route
        PROVE  /\ UpToDate(r)'
               /\ ~rec.errs /\ rec.class[r] # "ok" =>
                    status'[r] = IF rec.class[r] \in Gone THEN "none" ELSE rec.class[r]
    <3>1. UpToDate(r)
      BY <1>1 DEF QuietInv, Reported
    <3>2. rec.class[r] # "ok" => status'[r] = status[r]
      BY <1>3, <1>4 DEF QuietInv
    <3>3. UpToDate(r)'
      BY <1>1, <1>2, <3>1, <3>2 DEF UpToDate, inputs, Gone
    <3> QED BY <1>1, <3>2, <3>3 DEF QuietInv, Reported
  <2>2. ASSUME failed = {}, NEW r \in Route, rec.class[r] = "ok", r \notin rec'.routes
        PROVE  status'[r] = "conflict" /\ Outclaimed(r)'
    <3>1. r \in out
      BY <1>1, <1>2, <2>2 DEF ClaimInv, OwnersRunning
    <3>2. class[r] # "absent"
      BY <1>1, <2>2 DEF QuietInv, Reported, UpToDate, Gone
    <3>3. status'[r] = "conflict"
      BY <1>4, <2>2, <3>1, <3>2 DEF Conflict
    <3> QED BY <1>1, <1>2, <1>3, <3>1, <3>3 DEF Outclaimed
  <2> QED BY <1>2, <2>1, <2>2 DEF Reported
<1>7. \A r \in rec'.routes : rec'.class[r] = "ok"
  BY <1>2 DEF QuietInv
<1> QED BY <1>1, <1>2, <1>4, <1>5, <1>6, <1>7 DEF QuietInv, QuietMeansSettled, inputs

\* Without records of other Gateways nothing is rejected here.
LEMMA QuietDNS ==
    ASSUME ClaimInv, QuietInv, NEW failed \in SUBSET Route,
           filterManagedDNSHostnameConflicts(failed)
    PROVE  QuietInv'
<1> DEFINE out == {r \in rec.routes : rec.keys[r] \cap taken # {}}
<1>0. TypeOK /\ rec.routes \subseteq Route /\ rec.errs \in BOOLEAN
  BY DEF ClaimInv, TypeOK
<1>1. /\ rec.pc = "dns" /\ Report(out, Conflict, failed) /\ UNCHANGED <<inputs, cm, queued>>
  BY DEF filterManagedDNSHostnameConflicts
<1>2. /\ rec'.pc = "config" /\ rec'.routes = rec.routes \ out
      /\ rec'.class = rec.class /\ rec'.keys = rec.keys /\ rec'.errs = (rec.errs \/ failed # {})
  BY <1>0 DEF filterManagedDNSHostnameConflicts, TypeOK
<1>3. used.records = 0 => out = {}
  BY DEF QuietInv
<1> HIDE DEF out
<1>4. /\ used'.records = used.records
      /\ \A r \in Route :
           status'[r] = IF r \in out \ failed /\ class[r] # "absent" THEN Conflict[r] ELSE status[r]
  BY <1>0, <1>1, ReportFacts
<1>5. \A r \in Route : class'[r] = "absent" => status'[r] = "none"
  BY <1>1, <1>4 DEF QuietInv, inputs
<1>6. ~queued' /\ used'.records = 0 => Reported'
  <2> SUFFICES ASSUME ~queued, used.records = 0 PROVE Reported'
    BY <1>1, <1>4
  <2>1. Reported /\ rec'.routes = rec.routes /\ \A r \in Route : status'[r] = status[r]
    BY <1>2, <1>3, <1>4 DEF QuietInv
  <2>2. \A r \in Route : UpToDate(r) => UpToDate(r)'
    BY <1>1, <1>2, <2>1 DEF UpToDate, inputs
  <2>3. \A r \in Route : Outclaimed(r) => Outclaimed(r)'
    BY <1>1, <1>2 DEF Outclaimed
  <2> QED BY <1>1, <1>2, <2>1, <2>2, <2>3 DEF Reported
<1>7. \A r \in rec'.routes : rec'.class[r] = "ok"
  BY <1>2 DEF QuietInv
<1> QED BY <1>1, <1>2, <1>4, <1>5, <1>6, <1>7 DEF QuietInv, QuietMeansSettled, inputs

\* A ConfigMap that changes makes a request.
LEMMA QuietConfig ==
    ASSUME DistinctNames, ClaimInv, QuietInv, reconcileRouteConfigMap
    PROVE  QuietInv'
<1>0. TypeOK /\ rec.routes \subseteq Route
  BY DEF ClaimInv, TypeOK
<1>1. /\ rec.pc = "config" /\ UNCHANGED <<inputs, status, used>>
      /\ cm' = buildRouteConfig /\ queued' = (queued \/ cm' # cm)
  BY DEF reconcileRouteConfigMap
<1>2. /\ rec'.pc = "statuses" /\ rec'.routes = rec.routes /\ rec'.class = rec.class
      /\ rec'.keys = rec.keys /\ rec'.errs = rec.errs
      /\ rec'.refs = {r \in rec.routes : NameOf[r] \in DeniedNames}
  BY <1>0 DEF reconcileRouteConfigMap, TypeOK
<1>3. {r \in rec.routes : NameOf[r] \in DeniedNames} = {r \in rec.routes : ~granted[r]}
  BY <1>0 DEF DeniedNames, DistinctNames
<1>4. ~queued' /\ used'.records = 0 => Reported'
  <2> SUFFICES ASSUME ~queued', used.records = 0 PROVE Reported'
    BY <1>1
  <2>1. Reported /\ cm' = cm
    BY <1>1 DEF QuietInv
  <2>2. \A r \in Route : UpToDate(r) => UpToDate(r)'
    BY <1>1, <1>2 DEF UpToDate, inputs
  <2>3. \A r \in Route : Outclaimed(r) => Outclaimed(r)'
    BY <1>2, <2>1 DEF Outclaimed
  <2>4. buildRouteConfig' = buildRouteConfig
    BY <1>1, <1>2 DEF buildRouteConfig, inputs
  <2>5. rec'.refs = {r \in rec'.routes : ~granted'[r]}
    BY <1>1, <1>2, <1>3 DEF inputs
  <2> QED BY <1>1, <1>2, <2>1, <2>2, <2>3, <2>4, <2>5 DEF Reported
<1> QED BY <1>1, <1>2, <1>4 DEF QuietInv, QuietMeansSettled, inputs

\* With the last patch everything is reported.
LEMMA QuietStatuses ==
    ASSUME DistinctNames, ClaimInv, QuietInv, NEW failed \in SUBSET Route,
           updateRouteStatuses(failed)
    PROVE  QuietInv'
<1>0. TypeOK /\ rec.routes \subseteq Route /\ rec.class \in [Route -> Classes]
  BY DEF ClaimInv, TypeOK
<1>1. /\ rec.pc = "statuses" /\ Report(rec.routes, RouteConditions, failed)
      /\ UNCHANGED <<inputs, cm>>
      /\ queued' = (queued \/ rec.errs \/ failed # {} \/ \E r \in rec.routes : class[r] = "absent")
      /\ rec'.routes = {} /\ rec'.pc = "idle"
  BY DEF updateRouteStatuses, Idle
<1>2. /\ used'.records = used.records
      /\ \A r \in Route :
           status'[r] = IF r \in rec.routes \ failed /\ class[r] # "absent" THEN RouteConditions[r]
                        ELSE status[r]
  BY <1>0, <1>1, ReportFacts
<1>3. \A r \in Route : class'[r] = "absent" => status'[r] = "none"
  BY <1>1, <1>2 DEF QuietInv, inputs
<1>4. ~queued' /\ used'.records = 0 => Reported' /\ Settled'
  <2> SUFFICES ASSUME ~queued', used.records = 0 PROVE Reported' /\ Settled'
    BY <1>2
  <2>1. /\ ~queued /\ ~rec.errs /\ failed = {}
        /\ \A r \in rec.routes : class[r] # "absent"
    BY <1>1
  <2>2. Reported /\ cm = buildRouteConfig /\ rec.refs = {r \in rec.routes : ~granted[r]}
    BY <1>1, <2>1 DEF QuietInv, Reported
  <2>3. ASSUME NEW r \in Route
        PROVE  /\ rec.class[r] = "ok" => class[r] = "ok" /\ keys[r] = rec.keys[r]
               /\ rec.class[r] \in Gone <=> class[r] \in Gone
               /\ rec.class[r] \notin Gone => class[r] = rec.class[r]
    BY <1>1, <2>2 DEF Reported, UpToDate, Gone
  <2>4. ASSUME NEW r \in Route
        PROVE  {p \in cm : p[2] = r} = IF r \in rec.routes /\ granted[r] THEN rec.keys[r] \X {r} ELSE {}
    BY <1>0, <2>2, ConfigEntries
  <2>5. ASSUME NEW r \in Route
        PROVE  LET entries == {p \in cm : p[2] = r} IN
               \/ class[r] = "ok" /\ status'[r] = "conflict" /\ Contested(r) /\ entries = {}
               \/ class[r] = "ok" /\ granted[r] /\ status'[r] = "accepted" /\ entries = keys[r] \X {r}
               \/ class[r] = "ok" /\ ~granted[r] /\ status'[r] = "refNotPermitted" /\ entries = {}
               \/ /\ class[r] \in {"denied", "unmatched", "unsupported"}
                  /\ status'[r] = class[r] /\ entries = {}
               \/ class[r] \in {"absent", "detached"} /\ status'[r] = "none" /\ entries = {}
    <3>1. CASE r \in rec.routes
      <4>1. rec.class[r] = "ok"
        BY <3>1 DEF QuietInv
      <4>2. status'[r] = IF granted[r] THEN "accepted" ELSE "refNotPermitted"
        BY <1>2, <2>1, <2>2, <3>1 DEF RouteConditions
      <4> QED BY <2>3, <2>4, <3>1, <4>1, <4>2
    <3>2. CASE r \notin rec.routes /\ rec.class[r] = "ok"
      <4>1. status'[r] = "conflict" /\ Outclaimed(r)
        BY <1>1, <1>2, <2>1, <2>2, <3>2 DEF Reported
      <4>2. PICK s \in Route, k \in rec.keys[r] :
                   /\ NameOf[s] # NameOf[r]
                   /\ (rec.class[s] = "ok" /\ k \in rec.keys[s]) \/ <<k, s>> \in cm
        BY <4>1 DEF Outclaimed
      <4>3. rec.class[s] = "ok" /\ k \in rec.keys[s]
        <5>1. CASE <<k, s>> \in cm
          <6>1. <<k, s>> \in {p \in cm : p[2] = s}
            BY <5>1
          <6>2. s \in rec.routes /\ k \in rec.keys[s]
            BY <2>4, <6>1
          <6> QED BY <6>2 DEF QuietInv
        <5> QED BY <4>2, <5>1
      <4>4. Contested(r)
        BY <2>3, <3>2, <4>2, <4>3 DEF Contested
      <4> QED BY <2>3, <2>4, <3>2, <4>1, <4>4
    <3>3. CASE rec.class[r] # "ok"
      <4>1. r \notin rec.routes
        BY <3>3 DEF QuietInv
      <4>2. status'[r] = IF rec.class[r] \in Gone THEN "none" ELSE rec.class[r]
        BY <1>1, <1>2, <2>1, <2>2, <3>3, <4>1 DEF Reported
      <4>3. rec.class[r] \in Classes
        BY <1>0
      <4> QED BY <2>3, <2>4, <3>3, <4>1, <4>2, <4>3 DEF Classes, Gone
    <3> QED BY <3>1, <3>2, <3>3
  <2>6. \A r \in Route : Contested(r)' = Contested(r)
    BY <1>1 DEF Contested, inputs
  <2>7. Settled'
    BY <1>1, <2>5, <2>6 DEF Settled, inputs
  <2> QED BY <1>1, <2>7 DEF Reported
<1> QED BY <1>1, <1>2, <1>3, <1>4 DEF QuietInv, QuietMeansSettled, inputs

LEMMA QuietStep ==
    ASSUME DistinctNames, ClaimInv, QuietInv, [Next]_vars
    PROVE  QuietInv'
<1>1. CASE User \/ Requeue
  BY <1>1, QuietUser
<1>2. CASE Reconcile
  BY <1>2, QuietStart, QuietAttach, QuietClaims, QuietDNS, QuietConfig, QuietStatuses
    DEF Reconcile
<1>3. CASE Abort
  <2>1. rec'.routes = {} /\ queued' /\ UNCHANGED <<inputs, cm, status>>
    BY <1>3 DEF Abort, Idle
  <2>2. used'.records = used.records
    BY <1>3 DEF Abort, ClaimInv, TypeOK
  <2> QED BY <2>1, <2>2 DEF QuietInv, QuietMeansSettled, inputs
<1>4. CASE UNCHANGED vars
  BY <1>4 DEF vars, QuietInv, QuietMeansSettled, Settled, Contested, Reported, UpToDate, Outclaimed,
              buildRouteConfig
<1> QED BY <1>1, <1>2, <1>3, <1>4 DEF Next

\* When no request is pending, every status and the ConfigMap are what the routes
\* call for, as long as no other Gateway interferes: every missed edit, failed
\* patch and change of the ConfigMap has made a request (SetupWithManager,
\* updateRouteStatuses).
THEOREM NothingForgotten ==
    ASSUME DistinctNames
    PROVE  Spec => []QuietMeansSettled
<1>1. QuietInv /\ ClaimInv /\ [Next]_vars => QuietInv'
  BY QuietStep
<1>2. QuietInv => QuietMeansSettled
  BY DEF QuietInv
<1> QED BY <1>1, <1>2, QuietInit, ClaimInvariant, PTL DEF Spec

=============================================================================
