--------------------------- MODULE ManagedDNSProofs ---------------------------
(***************************************************************************)
(* The safety properties of ManagedDNS, for any Gateways, routes,          *)
(* hostnames, zones and policies, and any number of edits and faults.      *)
(***************************************************************************)
EXTENDS ManagedDNS, TLAPS

USE ShapeAssumption, FaultAssumption

Record == [pc : {"idle", "filter", "list", "write", "routes", "status", "finalize"},
           gw : Gateway \cup {NoRecord}, final : BOOLEAN,
           policy : Policy \cup {AllZones, Disabled},
           routes : SUBSET Route, missing : SUBSET Host, stale : SUBSET Host,
           dnsErr : BOOLEAN]

Counters == [edits : Nat, faults : Nat]

-----------------------------------------------------------------------------
(* Types.                                                                  *)

LEMMA IdleType == Idle \in Record
BY DEF Idle, Record

\* The desired hostnames are some of the hostnames of the routes.
LEMMA DesiredType ==
    ASSUME NEW p, NEW hosts, NEW failed
    PROVE  /\ computeDesiredDNSHostnames(p, hosts, failed) \subseteq hosts
           /\ hosts = {} => computeDesiredDNSHostnames(p, hosts, failed) = {}
           /\ computeDesiredDNSHostnames(p, hosts, {}) \ failed
                \subseteq computeDesiredDNSHostnames(p, hosts, failed)
BY DEF computeDesiredDNSHostnames

LEMMA HostnamesType ==
    ASSUME NEW routes \in SUBSET Route
    PROVE  Hostnames(routes) \subseteq Host /\ (routes = {} => Hostnames(routes) = {})
BY DEF Hostnames

\* What one fault or edit counts.
LEMMA CountType ==
    ASSUME used \in Counters
    PROVE  /\ [used EXCEPT !.edits = used.edits + 1] \in Counters
           /\ [used EXCEPT !.faults = used.faults + 1] \in Counters
<1>1. used.edits + 1 \in Nat /\ used.faults + 1 \in Nat
  BY DEF Counters
<1>2. \A n \in Nat : [used EXCEPT !.edits = n] \in Counters
  BY DEF Counters
<1>3. \A n \in Nat : [used EXCEPT !.faults = n] \in Counters
  BY DEF Counters
<1> QED BY <1>1, <1>2, <1>3

\* The diff of reconcileDNS leads to the writes, or past them.
LEMMA AfterType ==
    ASSUME NEW missing, NEW stale
    PROVE  /\ AfterDNS(missing, stale) \in {"write", "finalize", "routes"}
           /\ AfterDNS(missing, stale) = "write" <=> missing # {} \/ stale # {}
           /\ AfterDNS(missing, stale) = "finalize" => rec.final
           /\ AfterDNS(missing, stale) = "routes" => ~rec.final
BY DEF AfterDNS

\* The record of a reconcile after each of the steps on DNS records.
LEMMA ListType ==
    ASSUME TypeOK, NEW failed, ListDNS(failed)
    PROVE  /\ rec.pc = "list" /\ rec' \in Record /\ used' \in Counters
           /\ UNCHANGED <<phase, attached, policy, published, cname, applied, queue>>
           /\ rec'.gw = rec.gw /\ rec'.final = rec.final /\ rec'.policy = rec.policy
           /\ rec'.routes = rec.routes
           /\ LET desired == computeDesiredDNSHostnames(rec.policy, Hostnames(rec.routes), failed)
                  actual  == Records(rec.gw)
              IN \/ /\ ~LookupError(rec.policy, failed)
                    /\ rec'.pc = AfterDNS(desired \ actual, actual \ desired)
                    /\ rec'.missing = desired \ actual
                    /\ rec'.stale = actual \ desired /\ rec'.dnsErr = rec.dnsErr
                 \/ /\ LookupError(rec.policy, failed)
                    /\ rec'.pc = "routes" /\ rec'.dnsErr
                    /\ rec'.missing = rec.missing
<1> DEFINE desired == computeDesiredDNSHostnames(rec.policy, Hostnames(rec.routes), failed)
           actual == Records(rec.gw)
           missing == desired \ actual
           stale == actual \ desired
<1>1. rec \in Record /\ rec.pc = "list" /\ rec.routes \in SUBSET Route /\ used \in Counters
  BY DEF TypeOK, Record, ListDNS, Counters
<1>2. desired \subseteq Host /\ actual \subseteq Host
  BY <1>1, DesiredType, HostnamesType DEF Records
<1>3. missing \in SUBSET Host /\ stale \in SUBSET Host
  BY <1>2
<1>4. AfterDNS(missing, stale) \in {"write", "finalize", "routes"}
  BY AfterType
<1>5. used' \in Counters
  BY <1>1, CountType DEF ListDNS, LookupFaults
<1>6. CASE LookupError(rec.policy, failed)
  <2>1. rec' = [rec EXCEPT !.pc = "routes", !.dnsErr = TRUE]
    BY <1>6 DEF ListDNS
  <2> QED BY <1>1, <1>5, <1>6, <2>1 DEF ListDNS, Record, spec
<1>7. CASE ~LookupError(rec.policy, failed)
  <2>1. rec' = [rec EXCEPT !.pc = AfterDNS(missing, stale), !.missing = missing, !.stale = stale]
    BY <1>7 DEF ListDNS
  <2> HIDE DEF missing, stale
  <2>2. /\ rec' \in Record
        /\ rec'.gw = rec.gw /\ rec'.final = rec.final /\ rec'.policy = rec.policy
        /\ rec'.routes = rec.routes /\ rec'.dnsErr = rec.dnsErr
        /\ rec'.missing = missing /\ rec'.stale = stale
        /\ rec'.pc = AfterDNS(missing, stale)
    BY <1>1, <1>3, <1>4, <2>1 DEF Record
  <2> QED BY <1>1, <1>5, <1>7, <2>2 DEF ListDNS, spec, missing, stale
<1> QED BY <1>6, <1>7

LEMMA EnsureType ==
    ASSUME TypeOK, NEW h \in Host, EnsureDNSCNAME(h)
    PROVE  /\ rec.pc = "write" /\ h \in rec.missing /\ rec' \in Record
           /\ UNCHANGED <<phase, attached, policy, published, applied, queue, used>>
           /\ cname' = [cname EXCEPT ![h] = rec.gw]
           /\ rec'.gw = rec.gw /\ rec'.final = rec.final /\ rec'.policy = rec.policy
           /\ rec'.routes = rec.routes /\ rec'.dnsErr = rec.dnsErr
           /\ rec'.missing = rec.missing \ {h} /\ rec'.stale = rec.stale
           /\ rec'.pc = AfterDNS(rec.missing \ {h}, rec.stale)
<1>1. rec \in Record /\ rec.missing \in SUBSET Host
  BY DEF TypeOK, Record
<1>2. AfterDNS(rec.missing \ {h}, rec.stale) \in {"write", "finalize", "routes"}
  BY AfterType
<1>3. rec' = [rec EXCEPT !.missing = rec.missing \ {h},
                         !.pc = AfterDNS(rec.missing \ {h}, rec.stale)]
  BY DEF EnsureDNSCNAME
<1> QED BY <1>1, <1>2, <1>3 DEF EnsureDNSCNAME, spec, Record

LEMMA DeleteType ==
    ASSUME TypeOK, NEW h \in Host, DeleteDNSCNAME(h)
    PROVE  /\ rec.pc = "write" /\ rec.missing = {} /\ h \in rec.stale /\ rec' \in Record
           /\ UNCHANGED <<phase, attached, policy, published, applied, queue, used>>
           /\ cname' = [cname EXCEPT ![h] = NoRecord]
           /\ rec'.gw = rec.gw /\ rec'.final = rec.final /\ rec'.policy = rec.policy
           /\ rec'.routes = rec.routes /\ rec'.dnsErr = rec.dnsErr
           /\ rec'.missing = {} /\ rec'.stale = rec.stale \ {h}
           /\ rec'.pc = AfterDNS({}, rec.stale \ {h})
<1>1. rec \in Record /\ rec.stale \in SUBSET Host
  BY DEF TypeOK, Record
<1>2. AfterDNS({}, rec.stale \ {h}) \in {"write", "finalize", "routes"}
  BY AfterType
<1>3. rec' = [rec EXCEPT !.stale = rec.stale \ {h}, !.pc = AfterDNS({}, rec.stale \ {h})]
  BY DEF DeleteDNSCNAME
<1> QED BY <1>1, <1>2, <1>3 DEF DeleteDNSCNAME, spec, Record

\* Filtering only drops routes.
LEMMA FilterType ==
    ASSUME TypeOK, NEW failed, filterManagedDNSHostnameConflicts(failed)
    PROVE  /\ rec.pc = "filter" /\ rec' \in Record /\ used' \in Counters
           /\ UNCHANGED <<phase, attached, policy, published, cname, applied, queue>>
           /\ rec'.pc = "list" /\ rec'.gw = rec.gw /\ rec'.final = rec.final
           /\ rec'.policy = rec.policy /\ rec'.missing = rec.missing
           /\ rec'.dnsErr = rec.dnsErr
           /\ rec'.routes = {r \in rec.routes :
                               HostsOf[r] \cap findManagedDNSHostnameConflicts(failed) = {}}
<1> DEFINE kept == {r \in rec.routes :
                      HostsOf[r] \cap findManagedDNSHostnameConflicts(failed) = {}}
<1>1. rec \in Record /\ kept \in SUBSET Route /\ used \in Counters
  BY DEF TypeOK, Record, Counters
<1>2. rec' = [rec EXCEPT !.pc = "list", !.routes = kept]
  BY DEF filterManagedDNSHostnameConflicts
<1> HIDE DEF kept
<1>3. /\ rec' \in Record /\ rec'.routes = kept
      /\ rec'.pc = "list" /\ rec'.gw = rec.gw /\ rec'.final = rec.final
      /\ rec'.policy = rec.policy /\ rec'.missing = rec.missing
      /\ rec'.dnsErr = rec.dnsErr
  BY <1>1, <1>2 DEF Record
<1>4. used' \in Counters
  BY <1>1, CountType DEF filterManagedDNSHostnameConflicts, LookupFaults
<1> QED BY <1>3, <1>4 DEF filterManagedDNSHostnameConflicts, spec, kept

\* The start of a reconcile or a finalization.
LEMMA StartType ==
    ASSUME TypeOK, NEW g \in Gateway, StartReconcile(g)
    PROVE  /\ rec.pc = "idle" /\ g \in queue /\ queue' = queue \ {g}
           /\ UNCHANGED <<phase, attached, policy, published, cname, applied, used>>
           /\ rec' \in Record /\ rec'.gw = g /\ rec'.missing = {} /\ ~rec'.dnsErr
           /\ \/ rec'.pc = "filter" /\ ~rec'.final
              \/ rec'.pc = "list" /\ rec'.final /\ rec'.routes = {} /\ rec'.policy = Disabled
<1>1. Idle \in Record /\ policy[g] \in Policy \cup {AllZones} /\ attached[g] \in SUBSET Route
  BY IdleType DEF TypeOK
<1>2. /\ Idle.missing = {} /\ Idle.final = FALSE /\ Idle.dnsErr = FALSE /\ Idle.routes = {}
      /\ Idle.policy = Disabled
  BY DEF Idle
<1>3. CASE phase[g] = "live"
  <2>1. rec' = [Idle EXCEPT !.pc = "filter", !.gw = g, !.policy = policy[g],
                            !.routes = attached[g]]
    BY <1>3 DEF StartReconcile
  <2> QED BY <1>1, <1>2, <2>1 DEF StartReconcile, spec, Record
<1>4. CASE phase[g] # "live"
  <2>1. rec' = [Idle EXCEPT !.pc = "list", !.gw = g, !.final = TRUE]
    BY <1>4 DEF StartReconcile
  <2> QED BY <1>1, <1>2, <2>1 DEF StartReconcile, spec, Record
<1> QED BY <1>3, <1>4

\* A call that fails.
LEMMA ErrorType ==
    ASSUME TypeOK, DNSError
    PROVE  /\ rec.pc \in {"list", "write"} /\ rec' \in Record /\ used' \in Counters
           /\ UNCHANGED <<phase, attached, policy, published, cname, applied>>
           /\ \/ rec' = Idle /\ queue' = queue \cup {rec.gw}
              \/ /\ rec'.pc = "routes" /\ rec'.gw = rec.gw /\ rec'.dnsErr
                 /\ ~rec'.final /\ ~rec.final /\ queue' = queue
<1>1. rec \in Record /\ used \in Counters /\ Idle \in Record
  BY IdleType DEF TypeOK, Record, Counters
<1>2. used' \in Counters
  BY <1>1, CountType DEF DNSError
<1>3. CASE rec' = Idle /\ queue' = queue \cup {rec.gw}
  BY <1>1, <1>2, <1>3 DEF DNSError, spec
<1>4. CASE ~rec.final /\ rec' = [rec EXCEPT !.pc = "routes", !.dnsErr = TRUE] /\ queue' = queue
  BY <1>1, <1>2, <1>4 DEF DNSError, spec, Record
<1> QED BY <1>3, <1>4 DEF DNSError

\* The last steps of a reconcile.
LEMMA ReportType ==
    ASSUME TypeOK, updateRouteStatuses
    PROVE  /\ rec.pc = "routes" /\ rec' \in Record
           /\ UNCHANGED <<phase, attached, policy, published, cname, queue, used>>
           /\ applied' = [applied EXCEPT ![rec.gw] = routeDNSMessage]
           /\ routeDNSMessage \subseteq Host
           /\ rec'.pc = "status" /\ rec'.gw = rec.gw /\ rec'.final = rec.final
<1>1. rec \in Record /\ rec.routes \in SUBSET Route
  BY DEF TypeOK, Record
<1>2. routeDNSMessage \subseteq Host
  BY <1>1, DesiredType, HostnamesType DEF routeDNSMessage
<1>3. rec' = [rec EXCEPT !.pc = "status"]
  BY DEF updateRouteStatuses
<1> QED BY <1>1, <1>2, <1>3 DEF updateRouteStatuses, spec, Record

LEMMA TypeStep == TypeOK /\ DanglingInv /\ [Next]_vars => TypeOK'
<1> SUFFICES ASSUME TypeOK, DanglingInv, [Next]_vars PROVE TypeOK'
  OBVIOUS
<1>0. /\ rec \in Record /\ used \in Counters /\ Idle \in Record
      /\ phase \in [Gateway -> {"live", "deleting", "gone"}]
      /\ attached \in [Gateway -> SUBSET Route]
      /\ policy \in [Gateway -> Policy \cup {AllZones}]
      /\ published \in [Gateway -> BOOLEAN]
      /\ cname \in [Host -> Gateway \cup {NoRecord, Foreign}]
      /\ applied \in [Gateway -> SUBSET Host]
      /\ queue \subseteq Gateway
  BY IdleType DEF TypeOK, Record, Counters
<1> DEFINE Rest == rec' \in Record /\ used' \in Counters
<1>1. ASSUME UNCHANGED <<phase, attached, policy, published, cname, applied>>,
             queue' \subseteq Gateway, Rest
      PROVE  TypeOK'
  BY <1>0, <1>1 DEF TypeOK, Record, Counters
<1>2. ASSUME NEW g \in Gateway, NEW routes \in SUBSET Route, EditRoutes(g, routes)
      PROVE  TypeOK'
  <2>1. Rest
    BY <1>0, <1>2, CountType DEF EditRoutes, Edit
  <2> QED BY <1>0, <1>2, <2>1 DEF EditRoutes, TypeOK, Record, Counters
<1>3. ASSUME NEW g \in Gateway, NEW p \in Policy, EditPolicy(g, p)
      PROVE  TypeOK'
  <2>1. Rest
    BY <1>0, <1>3, CountType DEF EditPolicy, Edit
  <2> QED BY <1>0, <1>3, <2>1 DEF EditPolicy, TypeOK, Record, Counters
<1>4. ASSUME NEW g \in Gateway, DeleteGateway(g)
      PROVE  TypeOK'
  <2>1. Rest
    BY <1>0, <1>4, CountType DEF DeleteGateway, Edit
  <2> QED BY <1>0, <1>4, <2>1 DEF DeleteGateway, TypeOK, Record, Counters
<1>5. ASSUME NEW g \in Gateway, Requeue(g) PROVE TypeOK'
  BY <1>0, <1>1, <1>5 DEF Requeue, spec
<1>6. ASSUME NEW g \in Gateway, StartReconcile(g) PROVE TypeOK'
  BY <1>0, <1>1, <1>6, StartType
<1>7. ASSUME NEW failed, filterManagedDNSHostnameConflicts(failed) PROVE TypeOK'
  BY <1>0, <1>1, <1>7, FilterType
<1>8. ASSUME NEW failed, ListDNS(failed) PROVE TypeOK'
  <2>1. /\ rec' \in Record /\ used' \in Counters
        /\ UNCHANGED <<phase, attached, policy, published, cname, applied, queue>>
    BY <1>8, ListType
  <2> QED BY <1>0, <1>1, <2>1
<1>9. ASSUME NEW h \in Host, EnsureDNSCNAME(h) \/ DeleteDNSCNAME(h) PROVE TypeOK'
  <2>1. /\ rec' \in Record
        /\ UNCHANGED <<phase, attached, policy, published, applied, queue, used>>
        /\ cname' = [cname EXCEPT ![h] = rec.gw] \/ cname' = [cname EXCEPT ![h] = NoRecord]
    BY <1>9, EnsureType, DeleteType
  <2>2. rec.gw \in Gateway \cup {NoRecord, Foreign}
    BY <1>0 DEF Record
  <2> QED BY <1>0, <2>1, <2>2 DEF TypeOK, Record, Counters
<1>10. CASE DNSError
  <2>1. rec.gw \in Gateway
    BY <1>10 DEF DNSError, DanglingInv
  <2>2. queue' \subseteq Gateway
    BY <1>0, <1>10, <2>1, ErrorType
  <2> QED BY <1>1, <1>10, <2>2, ErrorType
<1>11. CASE updateRouteStatuses
  <2>1. rec' \in Record /\ UNCHANGED <<phase, attached, policy, published, cname, queue, used>>
        /\ applied' = [applied EXCEPT ![rec.gw] = routeDNSMessage] /\ routeDNSMessage \subseteq Host
    BY <1>11, ReportType
  <2> QED BY <1>0, <2>1 DEF TypeOK, Record, Counters
<1>12. CASE patchGatewayStatus
  BY <1>0, <1>12 DEF patchGatewayStatus, spec, DanglingInv, TypeOK, Record, Counters
<1>13. CASE finalize
  BY <1>0, <1>13 DEF finalize, TypeOK, Record, Counters
<1>14. CASE Abort
  <2>1. Rest
    BY <1>0, <1>14, CountType DEF Abort
  <2> QED BY <1>1, <1>14, <2>1 DEF Abort, spec
<1>15. CASE UNCHANGED vars
  BY <1>0, <1>1, <1>15 DEF vars
<1> QED BY <1>2, <1>3, <1>4, <1>5, <1>6, <1>7, <1>8, <1>9, <1>10, <1>11, <1>12, <1>13, <1>14,
           <1>15 DEF Next, User, Reconcile

-----------------------------------------------------------------------------
(* No record points to the tunnel of a Gateway that is gone.               *)

\* The records of the same Gateway after a step.
LEMMA RecordsNext ==
    ASSUME rec'.gw = rec.gw
    PROVE  Records(rec.gw)' = {k \in Host : cname'[k] = rec.gw}
BY DEF Records

\* The steps of a reconcile that write records.
LEMMA DanglingWrite ==
    ASSUME TypeOK, DanglingInv, NEW h \in Host, EnsureDNSCNAME(h) \/ DeleteDNSCNAME(h)
    PROVE  DanglingInv'
<1>0. /\ cname \in [Host -> Gateway \cup {NoRecord, Foreign}]
      /\ rec.pc = "write" /\ rec.gw \in Gateway /\ phase[rec.gw] # "gone"
      /\ rec.stale \subseteq Records(rec.gw)
      /\ rec.final => Records(rec.gw) \subseteq rec.stale /\ rec.missing = {} /\ rec.routes = {}
  <2>1. rec.pc = "write"
    BY EnsureType, DeleteType
  <2> QED BY <2>1 DEF TypeOK, DanglingInv
<1>1. CASE EnsureDNSCNAME(h)
  <2>1. /\ h \in rec.missing /\ UNCHANGED <<phase, queue>>
        /\ cname' = [cname EXCEPT ![h] = rec.gw]
        /\ rec'.gw = rec.gw /\ rec'.final = rec.final
        /\ rec'.missing = rec.missing \ {h} /\ rec'.stale = rec.stale
        /\ rec'.pc = AfterDNS(rec.missing \ {h}, rec.stale)
    BY <1>1, EnsureType
  <2>2. ~rec.final
    BY <1>0, <2>1
  <2>3. \A k \in Host : cname'[k] = IF k = h THEN rec.gw ELSE cname[k]
    BY <1>0, <2>1
  <2>4. rec'.pc \in {"write", "routes"}
    BY <2>1, <2>2, AfterType
  <2>5. Records(rec.gw) \subseteq Records(rec.gw)'
    BY <2>1, <2>3, RecordsNext DEF Records
  <2>6. NoDanglingRecords'
    BY <1>0, <2>1, <2>3 DEF NoDanglingRecords, DanglingInv
  <2> QED BY <1>0, <2>1, <2>2, <2>4, <2>5, <2>6 DEF DanglingInv
<1>2. CASE DeleteDNSCNAME(h)
  <2>1. /\ h \in rec.stale /\ UNCHANGED <<phase, queue>>
        /\ cname' = [cname EXCEPT ![h] = NoRecord]
        /\ rec'.gw = rec.gw /\ rec'.final = rec.final /\ rec'.routes = rec.routes
        /\ rec'.missing = {} /\ rec'.stale = rec.stale \ {h}
        /\ rec'.pc = AfterDNS({}, rec.stale \ {h})
    BY <1>2, DeleteType
  <2>2. \A k \in Host : cname'[k] = IF k = h THEN NoRecord ELSE cname[k]
    BY <1>0, <2>1
  <2>3. Records(rec.gw)' = Records(rec.gw) \ {h}
    BY <1>0, <2>1, <2>2, RecordsNext DEF Records
  <2>4. /\ rec'.pc \in {"write", "finalize", "routes"}
        /\ rec'.pc = "finalize" => rec.final /\ rec.stale \ {h} = {}
        /\ rec'.pc = "routes" => ~rec.final
    BY <2>1, AfterType
  <2>5. NoDanglingRecords'
    BY <2>1, <2>2 DEF NoDanglingRecords, DanglingInv
  <2> QED BY <1>0, <2>1, <2>3, <2>4, <2>5 DEF DanglingInv
<1> QED BY <1>1, <1>2

\* The diff of a finalizer finds every record of the Gateway stale.
LEMMA DanglingList ==
    ASSUME TypeOK, DanglingInv, NEW failed, ListDNS(failed)
    PROVE  DanglingInv'
<1> DEFINE desired == computeDesiredDNSHostnames(rec.policy, Hostnames(rec.routes), failed)
           actual == Records(rec.gw)
<1>1. /\ rec.pc = "list"
      /\ UNCHANGED <<phase, cname, queue>>
      /\ rec'.gw = rec.gw /\ rec'.final = rec.final
      /\ rec'.routes = rec.routes
      /\ \/ /\ rec'.pc = AfterDNS(desired \ actual, actual \ desired)
            /\ rec'.missing = desired \ actual /\ rec'.stale = actual \ desired
         \/ LookupError(rec.policy, failed) /\ rec'.pc = "routes" /\ rec'.missing = rec.missing
  BY ListType
<1>2. rec.final => desired = {} /\ failed = {}
  <2>1. rec.final => Hostnames(rec.routes) = {}
    BY HostnamesType DEF DanglingInv, TypeOK
  <2>2. failed \subseteq Hostnames(rec.routes)
    BY DEF ListDNS, LookupFaults
  <2> QED BY <2>1, <2>2, DesiredType
<1>3. rec.final => ~LookupError(rec.policy, failed)
  BY <1>2 DEF LookupError
<1>4. Records(rec.gw)' = actual
  BY <1>1, RecordsNext DEF Records
<1> HIDE DEF desired, actual
<1>5. /\ rec'.pc \in {"write", "finalize", "routes"}
      /\ rec'.pc = "finalize" => rec.final /\ actual \ desired = {}
      /\ rec'.pc = "routes" => ~rec.final
      /\ rec'.pc = "write" => rec'.stale = actual \ desired
  BY <1>1, <1>3, AfterType
<1>6. rec.final => rec'.missing = {}
  BY <1>1, <1>2, <1>3
<1>7. NoDanglingRecords'
  BY <1>1 DEF DanglingInv, NoDanglingRecords
<1> QED BY <1>1, <1>2, <1>4, <1>5, <1>6, <1>7 DEF DanglingInv

LEMMA DanglingStep == TypeOK /\ DanglingInv /\ [Next]_vars => DanglingInv'
<1> SUFFICES ASSUME TypeOK, DanglingInv, [Next]_vars PROVE DanglingInv'
  OBVIOUS
<1>0. /\ phase \in [Gateway -> {"live", "deleting", "gone"}] /\ queue \subseteq Gateway
      /\ cname \in [Host -> Gateway \cup {NoRecord, Foreign}]
      /\ rec \in Record
  BY DEF TypeOK, Record
<1>1. ASSUME UNCHANGED cname,
             \A g \in Gateway : phase'[g] = "gone" => phase[g] = "gone",
             \A g \in queue' : g \in queue \/ phase[g] # "gone",
             queue' \subseteq Gateway,
             \/ UNCHANGED rec
             \/ rec' = Idle
             \/ /\ rec'.pc \in {"filter", "routes", "status"} \/ (rec'.pc = "list" /\ ~rec'.final)
                /\ ~rec'.final /\ rec'.gw \in Gateway /\ phase[rec'.gw] # "gone"
             \/ /\ rec'.pc = "list" /\ rec'.routes = {} /\ rec'.missing = {}
                /\ rec'.gw \in Gateway /\ phase[rec'.gw] # "gone"
      PROVE  DanglingInv'
  <2>1. NoDanglingRecords' /\ \A g \in queue' : phase'[g] # "gone"
    BY <1>1 DEF DanglingInv, NoDanglingRecords
  <2>2. CASE UNCHANGED rec
    BY <1>1, <2>1, <2>2 DEF DanglingInv, Records
  <2>3. CASE rec' = Idle
    BY <2>1, <2>3 DEF DanglingInv, Idle
  <2>4. CASE /\ rec'.pc \in {"filter", "routes", "status"} \/ (rec'.pc = "list" /\ ~rec'.final)
             /\ ~rec'.final /\ rec'.gw \in Gateway /\ phase[rec'.gw] # "gone"
    BY <1>1, <2>1, <2>4 DEF DanglingInv
  <2>5. CASE /\ rec'.pc = "list" /\ rec'.routes = {} /\ rec'.missing = {}
             /\ rec'.gw \in Gateway /\ phase[rec'.gw] # "gone"
    BY <1>1, <2>1, <2>5 DEF DanglingInv
  <2> QED BY <1>1, <2>2, <2>3, <2>4, <2>5
<1>2. CASE User \/ (\E g \in Gateway : Requeue(g)) \/ UNCHANGED vars
  <2>1. UNCHANGED <<cname, rec>>
    BY <1>2 DEF User, EditRoutes, EditPolicy, DeleteGateway, Requeue, vars
  <2>2. \A g \in Gateway : phase'[g] = "gone" => phase[g] = "gone"
    BY <1>0, <1>2 DEF User, EditRoutes, EditPolicy, DeleteGateway, Requeue, spec, vars
  <2>3. queue' \subseteq Gateway /\ \A g \in queue' : g \in queue \/ phase[g] # "gone"
    BY <1>0, <1>2 DEF User, EditRoutes, EditPolicy, DeleteGateway, Requeue, vars
  <2> QED BY <1>1, <2>1, <2>2, <2>3
<1>3. ASSUME NEW g \in Gateway, StartReconcile(g) PROVE DanglingInv'
  <2>1. /\ g \in queue /\ queue' = queue \ {g} /\ UNCHANGED <<phase, cname>>
        /\ rec'.gw = g /\ rec'.missing = {}
        /\ \/ rec'.pc = "filter" /\ ~rec'.final
           \/ rec'.pc = "list" /\ rec'.routes = {}
    BY <1>3, StartType
  <2>2. phase[g] # "gone"
    BY <2>1 DEF DanglingInv
  <2> QED BY <1>0, <1>1, <2>1, <2>2
<1>4. ASSUME NEW failed, filterManagedDNSHostnameConflicts(failed) PROVE DanglingInv'
  <2>1. /\ rec.pc = "filter" /\ UNCHANGED <<phase, cname, queue>>
        /\ rec'.pc = "list" /\ rec'.gw = rec.gw /\ rec'.final = rec.final
    BY <1>4, FilterType
  <2>2. ~rec.final /\ rec.gw \in Gateway /\ phase[rec.gw] # "gone"
    BY <2>1 DEF DanglingInv
  <2> QED BY <1>0, <1>1, <2>1, <2>2
<1>5. ASSUME NEW failed, ListDNS(failed) PROVE DanglingInv'
  BY <1>5, DanglingList
<1>6. ASSUME NEW h \in Host, EnsureDNSCNAME(h) \/ DeleteDNSCNAME(h) PROVE DanglingInv'
  BY <1>6, DanglingWrite
<1>7. CASE DNSError
  <2>1. /\ rec.pc \in {"list", "write"} /\ UNCHANGED <<phase, cname>>
        /\ \/ rec' = Idle /\ queue' = queue \cup {rec.gw}
           \/ /\ rec'.pc = "routes" /\ rec'.gw = rec.gw /\ ~rec'.final /\ queue' = queue
    BY <1>7, ErrorType
  <2>2. rec.gw \in Gateway /\ phase[rec.gw] # "gone"
    BY <2>1 DEF DanglingInv
  <2> QED BY <1>0, <1>1, <2>1, <2>2
<1>8. CASE updateRouteStatuses
  <2>1. /\ rec.pc = "routes" /\ UNCHANGED <<phase, cname, queue>>
        /\ rec'.pc = "status" /\ rec'.gw = rec.gw /\ rec'.final = rec.final
    BY <1>8, ReportType
  <2>2. ~rec.final /\ rec.gw \in Gateway /\ phase[rec.gw] # "gone"
    BY <2>1 DEF DanglingInv
  <2> QED BY <1>0, <1>1, <2>1, <2>2
<1>9. CASE patchGatewayStatus
  <2>1. /\ rec.pc = "status" /\ UNCHANGED <<phase, cname>> /\ rec' = Idle
        /\ queue' = queue \/ queue' = queue \cup {rec.gw}
    BY <1>9 DEF patchGatewayStatus, spec
  <2>2. rec.gw \in Gateway /\ phase[rec.gw] # "gone"
    BY <2>1 DEF DanglingInv
  <2> QED BY <1>0, <1>1, <2>1, <2>2
<1>10. CASE finalize
  <2>1. /\ rec.pc = "finalize" /\ rec' = Idle /\ cname' = cname
        /\ phase' = [phase EXCEPT ![rec.gw] = "gone"] /\ queue' = queue \ {rec.gw}
    BY <1>10 DEF finalize
  <2>2. rec.gw \in Gateway /\ Records(rec.gw) = {}
    BY <2>1 DEF DanglingInv
  <2>3. \A h \in Host : cname[h] # rec.gw
    BY <2>2 DEF Records
  <2>4. NoDanglingRecords' /\ \A g \in queue' : phase'[g] # "gone"
    BY <1>0, <2>1, <2>3 DEF DanglingInv, NoDanglingRecords
  <2> QED BY <2>1, <2>4 DEF DanglingInv, Idle
<1>11. CASE Abort
  BY <1>0, <1>1, <1>11 DEF Abort, spec
<1> QED BY <1>2, <1>3, <1>4, <1>5, <1>6, <1>7, <1>8, <1>9, <1>10, <1>11 DEF Next, Reconcile

LEMMA InitDNS == Init => TypeOK /\ DanglingInv /\ SharingInv
<1> SUFFICES ASSUME Init PROVE TypeOK /\ DanglingInv /\ SharingInv
  OBVIOUS
<1>1. TypeOK
  BY IdleType DEF Init, TypeOK, Record
<1>2. cname \in [Host -> {NoRecord, Foreign}] /\ rec = Idle /\ \A g \in Gateway : phase[g] = "live"
  BY DEF Init
<1>3. NoDanglingRecords /\ \A g \in queue : phase[g] # "gone"
  BY <1>1, <1>2 DEF NoDanglingRecords, TypeOK
<1> QED BY <1>1, <1>2, <1>3 DEF DanglingInv, SharingInv, Idle

\* Every reachable state is well typed, finalizers have their records in hand.
THEOREM DNSInvariant == Spec => [](TypeOK /\ DanglingInv)
BY InitDNS, TypeStep, DanglingStep, PTL DEF Spec

\* When a Gateway is gone no record points to its tunnel, whatever lookups and
\* calls failed and however often its finalizer was interrupted.
THEOREM NothingDangles == Spec => []NoDanglingRecords
<1>1. DanglingInv => NoDanglingRecords
  BY DEF DanglingInv
<1> QED BY <1>1, DNSInvariant, PTL

-----------------------------------------------------------------------------
(* Sharing an account, when no zone lookup fails: a lookup that fails in   *)
(* the filter and succeeds in the diff hides a conflict.                   *)

\* The reconcile and the records it looks at are unchanged.
LEMMA SharingSame ==
    ASSUME SharingInv, UNCHANGED <<cname, published, rec>>
    PROVE  SharingInv'
BY DEF SharingInv, Desired, Taken, Records, computeDesiredDNSHostnames, Hostnames, hostnameInZone

\* A failed reconcile, or one that reads or reports, claims nothing.
LEMMA SharingIdle ==
    ASSUME rec'.pc \in {"idle", "filter", "status", "finalize"} \/ (rec'.pc = "routes" /\ rec'.dnsErr)
    PROVE  SharingInv'
BY DEF SharingInv

\* The desired hostnames of a reconcile with the same policy and routes.
LEMMA DesiredNext ==
    ASSUME rec'.policy = rec.policy
    PROVE  Desired' = computeDesiredDNSHostnames(rec.policy, Hostnames(rec'.routes), {})
BY DEF Desired, computeDesiredDNSHostnames, Hostnames, hostnameInZone

\* The routes that pass the filter want no record of another Gateway.
LEMMA SharingFilter ==
    ASSUME TypeOK, filterManagedDNSHostnameConflicts({})
    PROVE  SharingInv'
<1> DEFINE conflicts == findManagedDNSHostnameConflicts({})
<1>1. /\ UNCHANGED <<published, cname>> /\ rec'.pc = "list" /\ rec'.gw = rec.gw
      /\ rec'.policy = rec.policy
      /\ rec'.routes = {r \in rec.routes : HostsOf[r] \cap conflicts = {}}
  BY FilterType
<1>2. Desired' = computeDesiredDNSHostnames(rec.policy, Hostnames(rec'.routes), {})
  BY <1>1, DesiredNext
<1>3. conflicts = {h \in computeDesiredDNSHostnames(rec.policy, Hostnames(rec.routes), {}) :
                     cname[h] \in Gateway \ {rec.gw} /\ published[cname[h]]}
  BY DEF findManagedDNSHostnameConflicts, LookupError
<1>4. ASSUME NEW h \in Desired', Taken(h)' PROVE FALSE
  <2>1. Taken(h)
    BY <1>1, <1>4 DEF Taken
  <2>2. PICK r \in rec'.routes : h \in HostsOf[r]
    BY <1>2, <1>4, DesiredType DEF Hostnames
  <2>3. r \in rec.routes /\ h \notin conflicts
    BY <1>1, <2>2
  <2>4. h \in computeDesiredDNSHostnames(rec.policy, Hostnames(rec.routes), {})
    BY <1>2, <1>4, <2>2, <2>3 DEF computeDesiredDNSHostnames, Hostnames
  <2> QED BY <1>3, <2>1, <2>3, <2>4 DEF Taken
<1> QED BY <1>1, <1>4 DEF SharingInv

\* The diff writes what is desired and deletes nothing that is.
LEMMA SharingList ==
    ASSUME TypeOK, SharingInv, ListDNS({})
    PROVE  SharingInv'
<1> DEFINE actual == Records(rec.gw)
<1>1. /\ rec.pc = "list" /\ UNCHANGED <<published, cname>> /\ rec'.gw = rec.gw
      /\ rec'.policy = rec.policy /\ rec'.routes = rec.routes
      /\ rec'.pc = AfterDNS(Desired \ actual, actual \ Desired)
      /\ rec'.missing = Desired \ actual /\ rec'.stale = actual \ Desired
  BY ListType DEF LookupError, Desired
<1>2. Desired' = Desired
  BY <1>1, DesiredNext DEF Desired
<1>3. Records(rec.gw)' = actual
  BY <1>1, RecordsNext DEF Records
<1>4. \A h \in Desired : ~Taken(h)
  BY <1>1 DEF SharingInv
<1>5. \A h : Taken(h)' <=> Taken(h)
  BY <1>1 DEF Taken
<1>6. rec'.pc # "list" /\ (rec'.pc = "routes" => Desired \ actual = {})
  BY <1>1, AfterType
<1> HIDE DEF actual
<1> QED BY <1>1, <1>2, <1>3, <1>4, <1>5, <1>6 DEF SharingInv

\* Each write carries out a part of the diff.
LEMMA SharingWrite ==
    ASSUME TypeOK, DanglingInv, SharingInv, NEW h \in Host,
           EnsureDNSCNAME(h) \/ DeleteDNSCNAME(h)
    PROVE  SharingInv'
<1>0. /\ cname \in [Host -> Gateway \cup {NoRecord, Foreign}]
      /\ rec.pc = "write" /\ rec.stale \subseteq Records(rec.gw)
      /\ rec.missing \in SUBSET Host
      /\ \A k \in rec.missing : ~Taken(k)
      /\ rec.missing \cap rec.stale = {}
      /\ Desired \subseteq rec.missing \cup (Records(rec.gw) \ rec.stale)
  <2>1. rec.pc = "write"
    BY EnsureType, DeleteType
  <2> QED BY <2>1 DEF TypeOK, DanglingInv, SharingInv
<1>1. CASE EnsureDNSCNAME(h)
  <2>1. /\ h \in rec.missing /\ UNCHANGED published
        /\ cname' = [cname EXCEPT ![h] = rec.gw]
        /\ rec'.gw = rec.gw /\ rec'.policy = rec.policy /\ rec'.routes = rec.routes
        /\ rec'.missing = rec.missing \ {h} /\ rec'.stale = rec.stale
        /\ rec'.pc = AfterDNS(rec.missing \ {h}, rec.stale)
    BY <1>1, EnsureType
  <2>2. Desired' = Desired
    BY <2>1, DesiredNext DEF Desired
  <2>3. \A k \in Host : cname'[k] = IF k = h THEN rec.gw ELSE cname[k]
    BY <1>0, <2>1
  <2>4. Records(rec.gw)' = Records(rec.gw) \cup {h}
    BY <2>1, <2>3, RecordsNext DEF Records
  <2>5. \A k \in rec'.missing : ~Taken(k)'
    BY <1>0, <2>1, <2>3 DEF Taken
  <2>6. /\ rec'.pc # "list"
        /\ rec'.pc = "routes" => rec.missing \ {h} = {} /\ rec.stale = {}
    BY <2>1, AfterType
  <2>7. Desired \subseteq rec'.missing \cup ((Records(rec.gw) \cup {h}) \ rec'.stale)
    BY <1>0, <2>1
  <2>8. rec'.missing \cap rec'.stale = {}
    BY <1>0, <2>1
  <2>9. rec'.pc = "routes" => Desired \subseteq Records(rec.gw) \cup {h}
    BY <2>1, <2>6, <2>7
  <2> QED BY <2>2, <2>4, <2>5, <2>6, <2>7, <2>8, <2>9 DEF SharingInv
<1>2. CASE DeleteDNSCNAME(h)
  <2>1. /\ rec.missing = {} /\ h \in rec.stale
        /\ cname' = [cname EXCEPT ![h] = NoRecord]
        /\ rec'.gw = rec.gw /\ rec'.policy = rec.policy /\ rec'.routes = rec.routes
        /\ rec'.missing = {} /\ rec'.stale = rec.stale \ {h}
        /\ rec'.pc = AfterDNS({}, rec.stale \ {h})
    BY <1>2, DeleteType
  <2>2. Desired' = Desired
    BY <2>1, DesiredNext DEF Desired
  <2>3. \A k \in Host : cname'[k] = IF k = h THEN NoRecord ELSE cname[k]
    BY <1>0, <2>1
  <2>4. Records(rec.gw) \ {h} \subseteq Records(rec.gw)'
    BY <2>1, <2>3, RecordsNext DEF Records
  <2>5. rec'.pc # "list" /\ (rec'.pc = "routes" => rec.stale \ {h} = {})
    BY <2>1, AfterType
  <2>6. Desired \subseteq Records(rec.gw) \ rec.stale
    BY <1>0, <2>1
  <2>7. Desired \subseteq (Records(rec.gw)' \ rec'.stale)
    BY <2>1, <2>4, <2>6
  <2> QED BY <2>1, <2>2, <2>5, <2>7 DEF SharingInv
<1> QED BY <1>1, <1>2

LEMMA SharingStep ==
    ASSUME "lookup" \notin Faults
    PROVE  TypeOK /\ DanglingInv /\ SharingInv /\ [Next]_vars => SharingInv'
<1> SUFFICES ASSUME TypeOK, DanglingInv, SharingInv, [Next]_vars PROVE SharingInv'
  OBVIOUS
<1>0. Idle.pc = "idle"
  BY DEF Idle
<1>1. CASE User \/ (\E g \in Gateway : Requeue(g)) \/ UNCHANGED vars
  BY <1>1, SharingSame DEF User, EditRoutes, EditPolicy, DeleteGateway, Requeue, vars
<1>2. ASSUME NEW g \in Gateway, StartReconcile(g) PROVE SharingInv'
  <2>1. \/ rec'.pc = "filter"
        \/ rec'.pc = "list" /\ rec'.routes = {}
    BY <1>2, StartType
  <2>2. CASE rec'.pc = "list" /\ rec'.routes = {}
    <3>1. Desired' = {}
      BY <2>2 DEF Desired, computeDesiredDNSHostnames, Hostnames
    <3> QED BY <2>2, <3>1 DEF SharingInv
  <2> QED BY <2>1, <2>2, SharingIdle
<1>3. ASSUME NEW failed, filterManagedDNSHostnameConflicts(failed) PROVE SharingInv'
  <2>1. failed = {}
    BY <1>3 DEF filterManagedDNSHostnameConflicts, LookupFaults
  <2> QED BY <1>3, <2>1, SharingFilter
<1>4. ASSUME NEW failed, ListDNS(failed) PROVE SharingInv'
  <2>1. failed = {}
    BY <1>4 DEF ListDNS, LookupFaults
  <2> QED BY <1>4, <2>1, SharingList
<1>5. ASSUME NEW h \in Host, EnsureDNSCNAME(h) \/ DeleteDNSCNAME(h) PROVE SharingInv'
  BY <1>5, SharingWrite
<1>6. CASE DNSError
  BY <1>0, <1>6, ErrorType, SharingIdle
<1>7. CASE updateRouteStatuses
  BY <1>7, ReportType, SharingIdle
<1>8. CASE patchGatewayStatus \/ finalize \/ Abort
  BY <1>0, <1>8, SharingIdle DEF patchGatewayStatus, finalize, Abort
<1> QED BY <1>1, <1>2, <1>3, <1>4, <1>5, <1>6, <1>7, <1>8 DEF Next, Reconcile

\* No step of a reconcile touches a record of another Gateway, one that has
\* published its tunnel host, whatever calls fail and wherever it crashes.
THEOREM PublishedKept ==
    ASSUME "lookup" \notin Faults
    PROVE  Spec => PublishedRecordsKept
<1> DEFINE Kept == \A h \in Host :
        cname[h] \in Gateway \ {rec.gw} /\ published[cname[h]] => cname'[h] = cname[h]
<1>1. TypeOK /\ DanglingInv /\ SharingInv /\ [Next]_vars => [Kept]_vars
  <2> SUFFICES ASSUME TypeOK, DanglingInv, SharingInv, Next, NEW h \in Host, Taken(h)
               PROVE  cname'[h] = cname[h]
    BY DEF Taken
  <2>0. cname \in [Host -> Gateway \cup {NoRecord, Foreign}]
    BY DEF TypeOK
  <2>1. ASSUME NEW k \in Host, EnsureDNSCNAME(k) PROVE cname'[h] = cname[h]
    <3>1. ~Taken(k)
      BY <2>1, EnsureType DEF SharingInv
    <3> QED BY <2>0, <2>1, <3>1, EnsureType
  <2>2. ASSUME NEW k \in Host, DeleteDNSCNAME(k) PROVE cname'[h] = cname[h]
    <3>1. cname[k] = rec.gw
      BY <2>2, DeleteType DEF DanglingInv, Records
    <3>2. k # h
      BY <3>1 DEF Taken
    <3> QED BY <2>0, <2>2, <3>2, DeleteType
  <2>3. CASE UNCHANGED cname
    BY <2>3
  <2> QED BY <2>1, <2>2, <2>3 DEF Next, User, Reconcile, EditRoutes, EditPolicy,
          DeleteGateway, Requeue, StartReconcile, filterManagedDNSHostnameConflicts, ListDNS,
          DNSError, updateRouteStatuses, patchGatewayStatus, finalize, Abort
<1> QED BY <1>1, InitDNS, DNSInvariant, SharingStep, PTL DEF Spec, PublishedRecordsKept

\* A hostname is reported as applied on a route only when its record points to
\* the tunnel of the Gateway.
THEOREM AppliedRecorded ==
    ASSUME "lookup" \notin Faults
    PROVE  Spec => AppliedMeansRecord
<1> DEFINE Recorded == \A g \in Gateway : applied'[g] # applied[g] =>
        \A h \in applied'[g] : cname[h] = g
<1>1. TypeOK /\ DanglingInv /\ SharingInv /\ [Next]_vars => [Recorded]_vars
  <2> SUFFICES ASSUME TypeOK, DanglingInv, SharingInv, Next,
                      NEW g \in Gateway, applied'[g] # applied[g], NEW h \in applied'[g]
               PROVE  cname[h] = g
    OBVIOUS
  <2>0. applied \in [Gateway -> SUBSET Host]
    BY DEF TypeOK
  <2>1. CASE updateRouteStatuses
    <3>1. rec.pc = "routes" /\ applied' = [applied EXCEPT ![rec.gw] = routeDNSMessage]
      BY <2>1, ReportType
    <3>2. g = rec.gw /\ h \in routeDNSMessage
      BY <2>0, <3>1
    <3>3. ~rec.dnsErr /\ h \in Desired
      BY <3>2 DEF routeDNSMessage, Desired
    <3>4. h \in Records(rec.gw)
      BY <3>1, <3>3 DEF SharingInv
    <3> QED BY <3>2, <3>4 DEF Records
  <2>2. CASE finalize
    BY <2>0, <2>2 DEF finalize
  <2>3. CASE UNCHANGED applied
    BY <2>3
  <2> QED BY <2>1, <2>2, <2>3 DEF Next, User, Reconcile, EditRoutes, EditPolicy,
          DeleteGateway, Requeue, StartReconcile, filterManagedDNSHostnameConflicts, ListDNS,
          EnsureDNSCNAME, DeleteDNSCNAME, DNSError, patchGatewayStatus, Abort
<1> QED BY <1>1, InitDNS, DNSInvariant, SharingStep, PTL DEF Spec, AppliedMeansRecord
=============================================================================
