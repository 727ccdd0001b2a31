-------------------------- MODULE GatewayLifecycle --------------------------
(***************************************************************************)
(* The life of a Gateway: its finalizer, the finalizer it holds on its     *)
(* GatewayClass, the tunnel, the Kubernetes objects it owns and its        *)
(* CloudflareGatewayStatus (CGS), from creation to deletion with           *)
(* reconciliation enabled (everything is deleted) or disabled (everything  *)
(* is left, without owner references), and re-creation under the same      *)
(* name.  Composed with the controller of GatewayClassStatus.              *)
(*                                                                         *)
(* Gateways, classes, CGS and most objects are read from informer caches;  *)
(* Secrets and ConfigMaps are read from the API server.  A write is one    *)
(* step.  The contents of objects are those of TunnelRollout, RouteClaims  *)
(* and ManagedDNS and are left out.                                        *)
(***************************************************************************)
EXTENDS GatewayClassStatus, Sequences

CONSTANTS
    Kind,    \* the kinds of objects in use
    MaxUID   \* bound: how many Gateways are created under the name

\* The order in which reconcile applies the objects, and in which
\* removeOwnerReferences visits them.  RBAC stands for the ServiceAccount, the
\* Role and the RoleBinding.
ApplyOrder == <<"Secret", "ConfigMap", "RBAC", "Deployment", "VPA">>
OrphanOrder == <<"Deployment", "Secret", "ConfigMap", "RBAC", "VPA">>
First(order, S) ==
    order[CHOOSE i \in DOMAIN order : order[i] \in S /\ \A j \in 1..(i - 1) : order[j] \notin S]

\* Secrets and ConfigMaps are not cached by the client.
CachedKind == Kind \ {"Secret", "ConfigMap"}

ASSUME KindAssumption ==
    Kind \subseteq {"Secret", "ConfigMap", "RBAC", "Deployment", "VPA"} /\ "Deployment" \in Kind
ASSUME UIDAssumption == MaxUID \in Nat \ {0}

UID == 1..MaxUID

VARIABLES
    gw,      \* the Gateway in the API server
    obj,     \* obj[k]: whether the object exists, and its controller (0: none)
    cgs,     \* the CloudflareGatewayStatus
    cache,   \* gw, obj and cgs as the informers have them
    tunnel,  \* the Gateway that last ensured the tunnel; 0: there is no tunnel
    source,  \* the class the tunnel was created from, while the Gateway stays with it
    left,    \* Gateways that were finalized with reconciliation disabled
    queued,  \* a reconcile request is in the work queue
    rec      \* the reconcile in progress

gwvars == <<gw, obj, cgs, cache, tunnel, source, left, queued, rec>>
vars == <<gwvars, classvars, lagging, used>>

GatewayRecord == [phase : {"absent", "live", "deleting"}, fin : BOOLEAN,
                  class : Class, disabled : BOOLEAN, uid : UID]
Object == [exists : BOOLEAN, owner : {0} \cup UID]
NoObject == [exists |-> FALSE, owner |-> 0]
OwnedBy(u) == [exists |-> TRUE, owner |-> u]
Status == [exists : BOOLEAN, deleting : BOOLEAN, fin : BOOLEAN, owner : {0} \cup UID]
NoStatus == [exists |-> FALSE, deleting |-> FALSE, fin |-> FALSE, owner |-> 0]

NewGateway(u, c) == [phase |-> "live", fin |-> FALSE, class |-> c, disabled |-> FALSE, uid |-> u]

\* gw: the Gateway as it was read; cgs: the status as it was read; kinds,
\* classes: what is still to do in the current step.
Idle == [pc |-> "idle", gw |-> [NewGateway(1, CHOOSE c \in Ours : TRUE) EXCEPT !.phase = "absent"],
         cgs |-> NoStatus, kinds |-> {}, classes |-> {}]

Current == [gw |-> gw, obj |-> [k \in CachedKind |-> obj[k]], cgs |-> cgs]

Init ==
    /\ ClassInit
    /\ \E c \in Ours : gw = NewGateway(1, c)
    /\ obj = [k \in Kind |-> NoObject]
    /\ cgs = NoStatus
    /\ cache = Current
    /\ tunnel = 0
    /\ source = {}
    /\ left = {}
    /\ queued = TRUE
    /\ rec = Idle

-----------------------------------------------------------------------------
(* Users.                                                                  *)

CreateGateway(c) ==
    /\ Edit
    /\ gw.phase = "absent" /\ gw.uid < MaxUID
    /\ gw' = NewGateway(gw.uid + 1, c)
    /\ source' = {}
    /\ UNCHANGED <<obj, cgs, cache, tunnel, left, queued, rec, classvars, lagging>>

DeleteGateway ==
    /\ Edit
    /\ gw.phase = "live"
    /\ gw' = [gw EXCEPT !.phase = IF gw.fin THEN "deleting" ELSE "absent"]
    /\ UNCHANGED <<obj, cgs, cache, tunnel, source, left, queued, rec, classvars, lagging>>

SwitchClass(c) ==
    /\ Edit
    /\ gw.phase # "absent" /\ gw.class # c
    /\ gw' = [gw EXCEPT !.class = c]
    /\ source' = {}
    /\ UNCHANGED <<obj, cgs, cache, tunnel, left, queued, rec, classvars, lagging>>

\* The annotation cloudflare-gateway-controller.io/reconcile.
ToggleReconcile ==
    /\ Edit
    /\ gw.phase # "absent"
    /\ gw' = [gw EXCEPT !.disabled = ~@]
    /\ UNCHANGED <<obj, cgs, cache, tunnel, source, left, queued, rec, classvars, lagging>>

DeleteStatus ==
    /\ Edit
    /\ cgs.exists /\ ~cgs.deleting
    /\ cgs' = IF cgs.fin THEN [cgs EXCEPT !.deleting = TRUE] ELSE NoStatus
    /\ UNCHANGED <<gw, obj, cache, tunnel, source, left, queued, rec, classvars, lagging>>

EditClass ==
    /\ \/ \E c \in Class : DeleteClass(c) \/ CreateClass(c)
       \/ \E what \in {"crd", "secret"} : EditConfig(what)
    /\ UNCHANGED gwvars

-----------------------------------------------------------------------------
(* Kubernetes: the garbage collector and the informers.                    *)

Dead(owner) == owner # 0 /\ ~(gw.phase # "absent" /\ gw.uid = owner)

CollectObject(k) ==
    /\ obj[k].exists /\ Dead(obj[k].owner)
    /\ obj' = [obj EXCEPT ![k] = NoObject]
    /\ queued' = (queued \/ k \notin CachedKind)
    /\ UNCHANGED <<gw, cgs, cache, tunnel, source, left, rec, classvars, lagging, used>>

CollectStatus ==
    /\ cgs.exists /\ ~cgs.deleting /\ Dead(cgs.owner)
    /\ cgs' = IF cgs.fin THEN [cgs EXCEPT !.deleting = TRUE] ELSE NoStatus
    /\ UNCHANGED <<gw, obj, cache, tunnel, source, left, queued, rec, classvars, lagging, used>>

\* Generation or annotations changed, or another Gateway of that name: a change
\* of finalizers alone makes no request.
GatewayEvent(old, new) == [old EXCEPT !.fin = FALSE] # [new EXCEPT !.fin = FALSE]

SeeGateway ==
    /\ cache.gw # gw
    /\ cache' = [cache EXCEPT !.gw = gw]
    /\ queued' = (queued \/ GatewayEvent(cache.gw, gw))
    /\ UNCHANGED <<gw, obj, cgs, tunnel, source, left, rec, classvars, lagging, used>>

\* The owner named by the old or the new object is enqueued; VPAs are cached but
\* not watched.
SeeObject(k) ==
    /\ k \in CachedKind /\ cache.obj[k] # obj[k]
    /\ cache' = [cache EXCEPT !.obj[k] = obj[k]]
    /\ queued' = (queued \/ (k # "VPA" /\ {cache.obj[k].owner, obj[k].owner} # {0}))
    /\ UNCHANGED <<gw, obj, cgs, tunnel, source, left, rec, classvars, lagging, used>>

SeeStatus ==
    /\ cache.cgs # cgs
    /\ cache' = [cache EXCEPT !.cgs = cgs]
    /\ UNCHANGED <<gw, obj, cgs, tunnel, source, left, queued, rec, classvars, lagging, used>>

\* mapGatewayClassToGateway, for creation, deletion and changes of Ready.
mapGatewayClassToGateway(c) ==
    /\ cache.gw.phase # "absent" /\ cache.gw.class = c
    /\ seen[c].ready # class[c].ready \/ "absent" \in {seen[c].phase, class[c].phase}

SeeGatewayClass(c) ==
    /\ SeeClass(c)
    /\ queued' = (queued \/ mapGatewayClassToGateway(c))
    /\ UNCHANGED <<gw, obj, cgs, cache, tunnel, source, left, rec>>

-----------------------------------------------------------------------------
(* Reconcile.  An error ends it and leaves the request in the queue.       *)

Retry == rec' = Idle /\ queued' = TRUE
At(pc) == rec.pc = pc
Goto(pc) == rec' = [rec EXCEPT !.pc = pc, !.kinds = {}, !.classes = {}]

\* Reads that are never stale wait for the informers.
Fresh == lagging \/ (seen = class /\ cache = Current)

\* Mutant: the class in use is not skipped.
Finalized_All(skip) == {c \in Class : seen[c].fin}

\* The classes that carry the Gateway's finalizer, from the index of the cache.
Finalized(skip) == {c \in Class : seen[c].fin} \ skip

\* Mutant: the Gateway is reconciled before it has the finalizer.
Dispatch_NoFinalizer(g) ==
    IF g.class \notin Ours THEN "idle"
    ELSE IF g.phase = "deleting" THEN IF g.disabled THEN "orphan" ELSE "deleteDeployments"
    ELSE IF ~seen[g.class].ready \/ g.disabled THEN "idle"
    ELSE "unpin"

\* Mutant: the class must be ready for the Gateway to be finalized.
Dispatch_ReadyFirst(g) ==
    IF g.class \notin Ours \/ ~seen[g.class].ready THEN "idle"
    ELSE IF g.phase = "deleting" THEN IF g.disabled THEN "orphan" ELSE "deleteDeployments"
    ELSE IF ~g.fin THEN "addFinalizer"
    ELSE IF g.disabled THEN "idle"
    ELSE "unpin"

\* What Reconcile does with the cached Gateway g.  Deletion comes before the
\* readiness of the class and before the annotation.
Dispatch(g) ==
    IF g.class \notin Ours THEN "idle"
    ELSE IF g.phase = "deleting" THEN IF g.disabled THEN "orphan" ELSE "deleteDeployments"
    ELSE IF ~g.fin THEN "addFinalizer"
    ELSE IF ~seen[g.class].ready \/ g.disabled THEN "idle"
    ELSE "unpin"

Reconcile ==
    /\ At("idle") /\ queued /\ Fresh
    /\ LET g == cache.gw
           pc == Dispatch(g)
       IN  IF g.phase = "absent" THEN rec' = Idle /\ queued' = FALSE
           ELSE IF seen[g.class].phase = "absent" THEN Retry
           ELSE /\ queued' = FALSE
                /\ rec' = IF pc = "idle" THEN Idle
                          ELSE [Idle EXCEPT !.pc = pc, !.gw = g,
                                   !.kinds = IF pc = "orphan" THEN Kind ELSE {},
                                   !.classes = IF pc = "unpin" THEN Finalized({g.class}) ELSE {}]
    /\ UNCHANGED <<gw, obj, cgs, cache, tunnel, source, left, classvars, lagging, used>>

\* Mutant: waits for an event, which a change of finalizers does not make.
AddFinalizer_NoRequeue ==
    /\ At("addFinalizer")
    /\ gw' = IF gw.phase = "live" THEN [gw EXCEPT !.fin = TRUE] ELSE gw
    /\ rec' = Idle
    /\ UNCHANGED <<obj, cgs, cache, tunnel, source, left, queued, classvars, lagging, used>>

\* Ends with RequeueAfter 1ns, as a change of finalizers makes no request.
AddFinalizer ==
    /\ At("addFinalizer")
    /\ gw' = IF gw.phase = "live" THEN [gw EXCEPT !.fin = TRUE] ELSE gw
    /\ Retry
    /\ UNCHANGED <<obj, cgs, cache, tunnel, source, left, classvars, lagging, used>>

\* One class of removeGatewayClassFinalizer: the patch is of the cached object
\* under an optimistic lock, so it fails if the cache is stale.  The last class
\* leads to step next.
Unpin(c, next) ==
    /\ Fresh
    /\ c \in rec.classes
    /\ LET rest == rec.classes \ {c}
           go == rec' = [rec EXCEPT !.classes = rest, !.pc = IF rest = {} THEN next ELSE @] /\ queued' = queued
       IN  IF ~seen[c].fin THEN go /\ class' = class
           ELSE IF seen[c] # class[c] THEN Retry /\ class' = class
           ELSE /\ go
                /\ class' = [class EXCEPT ![c] = IF @.phase = "deleting" THEN NoClass ELSE [@ EXCEPT !.fin = FALSE]]
    /\ UNCHANGED <<gw, obj, cgs, cache, tunnel, source, left, seen, config, classq, classrec, lagging, used>>

\* ensureGatewayClassFinalizer: first the classes it has left ...
UnpinOthers ==
    /\ At("unpin")
    /\ \E c \in rec.classes : Unpin(c, "pin")

\* ... then its own, again under the lock; a class being deleted takes no new
\* finalizer.
Pin ==
    /\ At("pin") \/ (At("unpin") /\ rec.classes = {})
    /\ Fresh
    /\ LET c == rec.gw.class
       IN  IF seen[c].fin THEN Goto("ensureTunnel") /\ UNCHANGED <<class, queued>>
           ELSE IF seen[c].phase = "live" /\ seen[c] = class[c]
           THEN /\ class' = [class EXCEPT ![c].fin = TRUE]
                /\ Goto("ensureTunnel") /\ queued' = queued
           ELSE Retry /\ class' = class
    /\ UNCHANGED <<gw, obj, cgs, cache, tunnel, source, left, seen, config, classq, classrec, lagging, used>>

\* Reads the credentials, ensures the tunnel, and reads the CGS.
EnsureTunnel ==
    /\ At("ensureTunnel") /\ Fresh
    /\ IF ~config.secret THEN Retry /\ UNCHANGED <<tunnel, source>>
       ELSE /\ tunnel' = rec.gw.uid
            /\ source' = IF gw.class = rec.gw.class /\ gw.uid = rec.gw.uid THEN {gw.class} ELSE {}
            /\ rec' = [rec EXCEPT !.pc = "apply", !.kinds = Kind, !.cgs = cache.cgs]
            /\ queued' = queued
    /\ UNCHANGED <<gw, obj, cgs, cache, left, classvars, lagging, used>>

\* Server-side apply, or create or update, with the owner reference of this
\* Gateway: an object of an earlier Gateway of the name is adopted.
ApplyObject ==
    /\ At("apply")
    /\ LET k == First(ApplyOrder, rec.kinds)
           rest == rec.kinds \ {k}
       IN  /\ obj' = [obj EXCEPT ![k] = OwnedBy(rec.gw.uid)]
           /\ queued' = (queued \/ (k \notin CachedKind /\ obj' # obj))
           /\ rec' = [rec EXCEPT !.kinds = rest,
                        !.pc = IF rest # {} THEN @ ELSE IF rec.cgs.deleting THEN "freeStatus"
                               ELSE IF rec.cgs.exists THEN "patchStatus" ELSE "createStatus"]
    /\ UNCHANGED <<gw, cgs, cache, tunnel, source, left, classvars, lagging, used>>

\* A status without the finalizer goes if it is being deleted.
Unfinalized(s) == IF s.deleting THEN NoStatus ELSE [s EXCEPT !.fin = FALSE]

\* reconcileCGS of a status that is being deleted: it is let go of and created
\* anew.  The patch has no lock and applies to whatever has the name.
FreeStatus ==
    /\ At("freeStatus")
    /\ IF cgs.exists THEN Goto("createStatus") /\ queued' = queued ELSE Retry
    /\ cgs' = Unfinalized(cgs)
    /\ UNCHANGED <<gw, obj, cache, tunnel, source, left, classvars, lagging, used>>

\* AlreadyExists is not an error.
CreateStatus ==
    /\ At("createStatus")
    /\ cgs' = IF cgs.exists THEN cgs
              ELSE [exists |-> TRUE, deleting |-> FALSE, fin |-> TRUE, owner |-> rec.gw.uid]
    /\ rec' = Idle /\ queued' = queued
    /\ UNCHANGED <<gw, obj, cache, tunnel, source, left, classvars, lagging, used>>

PatchStatus ==
    /\ At("patchStatus")
    /\ rec' = Idle
    /\ queued' = (queued \/ ~cgs.exists)
    /\ UNCHANGED <<gw, obj, cgs, cache, tunnel, source, left, classvars, lagging, used>>

-----------------------------------------------------------------------------
(* finalize.                                                               *)

\* Mutant: the Deployments are left to the garbage collector.
DeleteDeployments_Skip ==
    /\ At("deleteDeployments") /\ Fresh
    /\ Goto("deleteTunnel")
    /\ UNCHANGED <<gw, obj, cgs, cache, tunnel, source, left, queued, classvars, lagging, used>>

\* finalizeEnabled deletes the listed Deployments, whoever owns them ...
DeleteDeployments ==
    /\ At("deleteDeployments") /\ Fresh
    /\ IF cache.obj["Deployment"].exists
       THEN obj' = [obj EXCEPT !["Deployment"] = NoObject] /\ Goto("wait")
       ELSE obj' = obj /\ Goto("deleteTunnel")
    /\ UNCHANGED <<gw, cgs, cache, tunnel, source, left, queued, classvars, lagging, used>>

\* ... and polls the cache until they are gone.
AwaitDeployments ==
    /\ At("wait")
    /\ ~cache.obj["Deployment"].exists
    /\ Goto("deleteTunnel")
    /\ UNCHANGED <<gw, obj, cgs, cache, tunnel, source, left, queued, classvars, lagging, used>>

\* Reads the credentials and deletes the records, the connections and the tunnel.
DeleteTunnel ==
    /\ At("deleteTunnel")
    /\ IF config.secret THEN tunnel' = 0 /\ Goto("releaseStatus") /\ queued' = queued
       ELSE Retry /\ tunnel' = tunnel
    /\ UNCHANGED <<gw, obj, cgs, cache, source, left, classvars, lagging, used>>

\* The finalizer of the CGS is removed, without a lock; NotFound is an error.
ReleaseStatus ==
    /\ At("releaseStatus") /\ Fresh
    /\ IF ~cache.cgs.fin THEN Goto("release") /\ UNCHANGED <<cgs, queued>>
       ELSE IF cgs.exists THEN Goto("release") /\ cgs' = Unfinalized(cgs) /\ queued' = queued
       ELSE Retry /\ cgs' = cgs
    /\ UNCHANGED <<gw, obj, cache, tunnel, source, left, classvars, lagging, used>>

\* The object of a kind as removeOwnerReferences finds it.
Listed(k) == IF k \in CachedKind THEN cache.obj[k] ELSE obj[k]

\* Mutant: only the Deployments are visited.
RemoveOwnerReferences_FirstKind ==
    /\ At("orphan") /\ Fresh
    /\ LET k == First(OrphanOrder, rec.kinds)
       IN  /\ Goto("release")
           /\ obj' = IF obj[k].owner = rec.gw.uid THEN [obj EXCEPT ![k].owner = 0] ELSE obj
    /\ UNCHANGED <<gw, cgs, cache, tunnel, source, left, queued, classvars, lagging, used>>

\* finalizeDisabled: one kind of removeOwnerReferences, under an optimistic lock.
RemoveOwnerReferences ==
    /\ At("orphan") /\ Fresh
    /\ LET k == First(OrphanOrder, rec.kinds)
           rest == rec.kinds \ {k}
           o == Listed(k)
           go == rec' = [rec EXCEPT !.kinds = rest, !.pc = IF rest = {} THEN "release" ELSE @]
       IN  IF ~o.exists \/ o.owner # rec.gw.uid THEN go /\ UNCHANGED <<obj, queued>>
           ELSE IF o # obj[k] THEN Retry /\ obj' = obj
           ELSE /\ go
                /\ obj' = [obj EXCEPT ![k].owner = 0]
                /\ queued' = (queued \/ k \notin CachedKind)
    /\ UNCHANGED <<gw, cgs, cache, tunnel, source, left, classvars, lagging, used>>

\* Mutant: only the class in use is looked at.
ListClasses_Current ==
    /\ At("release") /\ Fresh
    /\ LET cs == Finalized({}) \cap {rec.gw.class}
       IN rec' = [rec EXCEPT !.classes = cs, !.pc = IF cs = {} THEN "removeFinalizer" ELSE "unpinAll"]
    /\ UNCHANGED <<gw, obj, cgs, cache, tunnel, source, left, queued, classvars, lagging, used>>

\* Removes the route statuses and lists the classes that carry the finalizer.
ListClasses ==
    /\ At("release") /\ Fresh
    /\ rec' = [rec EXCEPT !.classes = Finalized({}), !.pc = IF Finalized({}) = {} THEN "removeFinalizer" ELSE "unpinAll"]
    /\ UNCHANGED <<gw, obj, cgs, cache, tunnel, source, left, queued, classvars, lagging, used>>

UnpinAll ==
    /\ At("unpinAll")
    /\ \E c \in rec.classes : Unpin(c, "removeFinalizer")

\* The patch has no lock either; NotFound is ignored.
RemoveFinalizer ==
    /\ At("removeFinalizer")
    /\ gw' = [gw EXCEPT !.fin = FALSE, !.phase = IF @ = "deleting" THEN "absent" ELSE @]
    /\ left' = IF gw.phase = "deleting" /\ rec.gw.disabled THEN left \cup {gw.uid} ELSE left
    /\ rec' = Idle
    /\ UNCHANGED <<obj, cgs, cache, tunnel, source, queued, classvars, lagging, used>>

-----------------------------------------------------------------------------
\* A call fails: reconcileError, finalizeError.
FailCall ==
    /\ Fault
    /\ ~At("idle")
    /\ Retry
    /\ UNCHANGED <<gw, obj, cgs, cache, tunnel, source, left, classvars, lagging>>

\* The controller restarts: the work is lost, the caches are read anew.
Restart ==
    /\ Fault
    /\ RestartClass
    /\ cache' = Current
    /\ Retry
    /\ UNCHANGED <<gw, obj, cgs, tunnel, source, left>>

\* The interval of the last successful reconcile is over.
Requeue ==
    /\ ~queued /\ gw.phase = "live"
    /\ queued' = TRUE
    /\ UNCHANGED <<gw, obj, cgs, cache, tunnel, source, left, rec, classvars, lagging, used>>

User ==
    \/ \E c \in Class : CreateGateway(c) \/ SwitchClass(c)
    \/ DeleteGateway \/ ToggleReconcile \/ DeleteStatus \/ EditClass

Kubernetes ==
    \/ \E k \in Kind : CollectObject(k) \/ SeeObject(k)
    \/ CollectStatus \/ SeeGateway \/ SeeStatus
    \/ \E c \in Class : SeeGatewayClass(c)

ClassController ==
    /\ (\E c \in Class : ReconcileClass(c)) \/ PatchClass
    /\ UNCHANGED gwvars

ReconcileStep ==
    \/ Reconcile \/ AddFinalizer \/ UnpinOthers \/ Pin \/ EnsureTunnel \/ ApplyObject
    \/ FreeStatus \/ CreateStatus \/ PatchStatus
    \/ DeleteDeployments \/ AwaitDeployments \/ DeleteTunnel \/ ReleaseStatus
    \/ RemoveOwnerReferences \/ ListClasses \/ UnpinAll \/ RemoveFinalizer

FailClass == ((\E c \in Class : FailRead(c)) \/ FailPatch) /\ UNCHANGED gwvars

Faults == FailCall \/ Restart \/ FailClass

Next == User \/ Kubernetes \/ ClassController \/ ReconcileStep \/ Faults \/ Requeue

Spec == Init /\ [][Next]_vars

\* The work queue, the informers and the garbage collector make progress; users,
\* faults and the interval may not.
Fairness ==
    /\ WF_vars(ReconcileStep)
    /\ WF_vars(ClassController)
    /\ WF_vars(SeeGateway) /\ WF_vars(SeeStatus) /\ WF_vars(CollectStatus)
    /\ \A k \in Kind : WF_vars(SeeObject(k)) /\ WF_vars(CollectObject(k))
    /\ \A c \in Class : WF_vars(SeeGatewayClass(c))

FairSpec == Spec /\ Fairness

-----------------------------------------------------------------------------
(* Properties.                                                             *)

\* The type of every variable.
TypeOK ==
    /\ ClassTypeOK
    /\ gw \in GatewayRecord
    /\ obj \in [Kind -> Object]
    /\ cgs \in Status
    /\ cache \in [gw : GatewayRecord, obj : [CachedKind -> Object], cgs : Status]
    /\ tunnel \in {0} \cup UID
    /\ source \in SUBSET Class
    /\ left \in SUBSET UID
    /\ queued \in BOOLEAN
    /\ rec \in [pc : {"idle", "addFinalizer", "unpin", "pin", "ensureTunnel", "apply",
                      "freeStatus", "createStatus", "patchStatus", "deleteDeployments",
                      "wait", "deleteTunnel", "releaseStatus", "orphan", "release",
                      "unpinAll", "removeFinalizer"},
                gw : GatewayRecord, cgs : Status, kinds : SUBSET Kind, classes : SUBSET Class]

\* No tunnel is leaked: while there is one, the Gateway it was made for exists and
\* has the finalizer, or was deleted with reconciliation disabled.  Also with
\* stale caches ("Add finalizer first ... to avoid the race condition between
\* init and delete", Reconcile).
TunnelKept ==
    tunnel # 0 => tunnel \in left \/ (gw.uid = tunnel /\ gw.phase # "absent" /\ gw.fin)

\* Why no tunnel is leaked, also with stale caches.  A reconcile works for a
\* Gateway that has the finalizer; a finalization that runs (again) on a cached
\* copy meets no later Gateway that has it; and what the caches say of the past
\* of the Gateway is consistent with what it is.
Working == {"unpin", "pin", "ensureTunnel", "apply", "freeStatus", "createStatus", "patchStatus"}
Cleaning == {"deleteDeployments", "wait", "deleteTunnel", "orphan"}
Cleaned == {"releaseStatus", "release", "unpinAll", "removeFinalizer"}

KeepInv ==
    /\ gw.fin => gw.phase # "absent"
    /\ gw.phase = "deleting" => gw.fin
    /\ rec.pc \in Working => gw.fin /\ gw.uid = rec.gw.uid
    /\ rec.pc \in Cleaning \cup Cleaned /\ gw.fin => gw.phase = "deleting" /\ gw.uid = rec.gw.uid
    /\ rec.pc \in Cleaning \cup Cleaned => ~(cache.gw.phase = "live" /\ cache.gw.fin)
    /\ rec.pc = "orphan" => rec.gw.disabled
    /\ rec.pc \in Cleaned => rec.gw.disabled \/ tunnel \in {0} \cup left
    /\ rec.pc = "addFinalizer" /\ cache.gw.phase = "deleting" => gw.phase = "deleting"
    /\ cache.gw.phase = "live" /\ cache.gw.fin => gw.fin /\ gw.uid = cache.gw.uid
    /\ cache.gw.phase = "deleting" /\ gw.fin => gw.phase = "deleting" /\ gw.uid = cache.gw.uid
    /\ TunnelKept

\* A tunnel is deleted only after the Deployments that connect to it are gone
\* ("so there are no active connections", finalizeEnabled), also those left behind
\* by an earlier Gateway of the name.  It fails when they are listed from a stale
\* cache.
ConnectorsHaveTunnel == obj["Deployment"].exists => tunnel # 0

\* What a Gateway that was deleted with reconciliation disabled owned is without
\* owner, so the garbage collector will not take it (finalizeDisabled).
LeftUnowned == ~lagging => \A k \in Kind : obj[k].owner \notin left

\* The class whose credentials made the tunnel of a live Gateway does not vanish
\* before the Gateway stops using it (ensureGatewayClassFinalizer).
ClassOutlivesTunnel ==
    ~lagging /\ tunnel = gw.uid /\ gw.phase = "live" =>
        \A c \in source : class[c].phase # "absent"

\* A Gateway that is gone does not keep any class from being deleted, whichever
\* classes it used in its life (removeGatewayClassFinalizer), nor its CGS, unless
\* it was deleted with reconciliation disabled (finalizeEnabled).  It fails when
\* they are found in a stale cache.
FinalizersReleased ==
    gw.phase = "absent" =>
        /\ \A c \in Class : ~class[c].fin
        /\ cgs.fin => cgs.owner \in left

\* The CGS is "garbage-collected when the Gateway is deleted", its finalizer is
\* there "to prevent accidental deletion while the Gateway still exists"
\* (reconcileCGS).  Not so after finalizeDisabled, which does not remove it.
StatusCollectable == gw.phase = "absent" => ~cgs.fin

\* A Gateway that stays deleted, with what finalize needs, is finalized.
Finalizable ==
    /\ gw.phase = "deleting"
    /\ gw.class \in Ours /\ class[gw.class].phase # "absent"
    /\ config.secret \/ gw.disabled
DeletionCompletes == ~<>[]Finalizable

\* A live Gateway of a class that can be ready is in the end served: it has its
\* tunnel, its objects, and a hold on its class and no other.  Without the
\* periodic reconcile.
Servable ==
    /\ ~lagging
    /\ gw.phase = "live" /\ ~gw.disabled
    /\ gw.class \in Ours /\ class[gw.class].phase = "live"
    /\ config.crd /\ config.secret
Served ==
    /\ tunnel = gw.uid
    /\ \A k \in Kind : obj[k] = OwnedBy(gw.uid)
    /\ \A c \in Class : class[c].fin <=> c = gw.class
Converges == <>[]Servable => <>[]Served

-----------------------------------------------------------------------------
(* Why nothing is left owned, held or connected when reads wait for the    *)
(* informers: what the reconcile in progress has already seen to is still  *)
(* so, as nobody else undoes it.                                           *)

Releasing == {"release", "unpinAll", "removeFinalizer"}

\* A Gateway left behind is gone for good, and removeOwnerReferences leaves
\* nothing to it of the kinds it has visited.
OwnerInv ==
    /\ \A u \in left : u <= gw.uid /\ (u = gw.uid => gw.phase = "absent")
    /\ \A k \in Kind : obj[k].exists \/ obj[k].owner = 0
    /\ rec.pc \in {"deleteDeployments", "wait", "deleteTunnel", "releaseStatus"} =>
          ~rec.gw.disabled
    /\ ~lagging =>
          /\ rec.pc = "orphan" => \A k \in Kind \ rec.kinds : obj[k].owner # rec.gw.uid
          /\ rec.pc \in Releasing /\ rec.gw.disabled =>
                \A k \in Kind : obj[k].owner # rec.gw.uid
    /\ LeftUnowned

\* Deployments are applied to a tunnel that is there, and it is deleted after them.
ConnectorInv ==
    /\ ~lagging =>
          /\ rec.pc = "apply" => tunnel = rec.gw.uid
          /\ rec.pc \in {"wait", "deleteTunnel"} => ~obj["Deployment"].exists
          /\ ConnectorsHaveTunnel

\* The class of a live tunnel has the finalizer, and ensureGatewayClassFinalizer
\* takes it from other classes only.
ClassInv ==
    /\ \A c \in Class : class[c].fin => class[c].phase # "absent"
    /\ source \subseteq {gw.class}
    /\ ~lagging =>
          /\ rec.pc = "unpin" =>
                rec.gw.class \notin rec.classes /\ source \subseteq {rec.gw.class}
          /\ rec.pc = "ensureTunnel" => class[rec.gw.class].fin
          /\ tunnel = gw.uid /\ gw.phase = "live" => \A c \in source : class[c].fin

\* Only a Gateway that has the finalizer holds a class or its CGS, unless it was
\* left behind.
ReleaseInv ==
    ~lagging =>
        /\ ~gw.fin => (\A c \in Class : ~class[c].fin) /\ (cgs.fin => cgs.owner \in left)
        /\ cgs.fin => cgs.owner \in left \cup {gw.uid}
        /\ rec.pc = "unpinAll" => \A c \in Class : class[c].fin => c \in rec.classes
        /\ rec.pc = "removeFinalizer" => \A c \in Class : ~class[c].fin
        /\ rec.pc \in Releasing /\ ~rec.gw.disabled => ~cgs.fin

HoldInv == OwnerInv /\ ConnectorInv /\ ClassInv /\ ReleaseInv
=============================================================================
