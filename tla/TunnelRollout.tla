---------------------------- MODULE TunnelRollout ----------------------------
(***************************************************************************)
(* How one Gateway's tunnel token reaches its tunnel pods: the part of     *)
(* GatewayReconciler.reconcile that rotates the token, writes the token    *)
(* Secret, announces the token hash in the CloudflareGatewayStatus (CGS),  *)
(* applies the tunnel Deployments one by one, deletes the stale ones, and  *)
(* reports readiness.                                                      *)
(*                                                                         *)
(* Reconciles of one Gateway are serial (one worker), so the actors that   *)
(* interleave with a reconcile are: users, the Kubernetes Deployment       *)
(* controller and kubelet, the informer cache the controller reads         *)
(* Deployments from, and faults (an API call that fails, a crash).         *)
(*                                                                         *)
(* Tokens are numbered in the order Cloudflare minted them; a token and    *)
(* its SHA-256 hash are the same number (hashes are compared for equality  *)
(* only).  0 stands for "no token".  Everything else in a pod template is  *)
(* one number, the template version.                                       *)
(***************************************************************************)
EXTENDS Naturals, FiniteSets

CONSTANTS
    N,            \* number of replica names, processed in the order 1..N
    Bad,          \* pairs <<replica, template>> whose pod never becomes ready
    CacheLag,     \* FALSE: reads of Deployments wait for the cache to be up to date
    Deadlines,    \* TRUE: a rollout may exceed its progress deadline
    MaxTemplates, \* bound: template versions the user may publish
    MaxRotations, \* bound: rotation requests plus cron triggers
    MaxEdits,     \* bound: edits of the replica list
    MaxFaults     \* bound: failed API calls, crashes and pod restarts

Replica == 1..N

ASSUME NAssumption == N \in Nat \ {0}
ASSUME BadAssumption == Bad \subseteq Replica \X Nat
ASSUME FlagAssumption == CacheLag \in BOOLEAN /\ Deadlines \in BOOLEAN
ASSUME BoundAssumption ==
    /\ MaxTemplates \in Nat /\ MaxRotations \in Nat
    /\ MaxEdits \in Nat /\ MaxFaults \in Nat

VARIABLES
    want,     \* replicas listed in CloudflareGatewayParameters
    tmpl,     \* template version implied by the current parameters
    token,    \* newest token minted by Cloudflare
    req,      \* newest token at the time of the last on-demand request, 0 if none
    cron,     \* a cron trigger has passed since lastRotatedAt
    secret,   \* token stored in the tunnel token Secret
    cgs,      \* CGS: token hash, request handled, token of lastRotatedAt and the
              \* Deployments of the inventory
    dep,      \* the Deployments in the API server
    seen,     \* the Deployments in the controller's cache
    pods,     \* the running pods of each Deployment
    rec,      \* the reconcile in progress
    ready,    \* status of the Gateway's Ready condition
    queued,   \* a reconcile request is in the work queue
    used      \* how much of each bound was used

vars == <<want, tmpl, token, req, cron, secret, cgs, dep, seen, pods, rec,
          ready, queued, used>>

cluster == <<dep, seen, pods>>
inputs  == <<want, tmpl, req, cron>>

-----------------------------------------------------------------------------
(* The API objects.                                                        *)

\* A Deployment: the two parts of its template, metadata.generation and the
\* status fields the controller looks at.  gen = 0 stands for "not found".
\* prog is the Progressing condition: its status is False exactly for "failed"
\* (ProgressDeadlineExceeded); "available" is reason NewReplicaSetAvailable.
Deployment ==
    [hash : Nat, tmpl : Nat, gen : Nat, obs : Nat,
     updated : Nat, replicas : Nat, ready : Nat,
     prog : {"progressing", "available", "failed"}]

Absent == [hash |-> 0, tmpl |-> 0, gen |-> 0, obs |-> 0,
           updated |-> 0, replicas |-> 0, ready |-> 0, prog |-> "progressing"]

Exists(d) == d.gen # 0

\* A pod: the template it was made from, the token it loaded from the Secret
\* when it started, and whether it is ready.
Pod == [hash : Nat, tmpl : Nat, tok : Nat, ready : BOOLEAN]

IsCurrent(p, d) == p.hash = d.hash /\ p.tmpl = d.tmpl

Steps == {"idle", "rotate", "secret", "announce", "apply", "cleanup",
          "readiness", "cgs", "status"}

Idle == [pc |-> "idle", want |-> {}, tmpl |-> 0, req |-> 0, hash |-> 0,
         rotated |-> FALSE, todo |-> {}, errs |-> FALSE, ready |-> "Unknown"]

-----------------------------------------------------------------------------
(* Predicates on a Deployment as read by the controller.                   *)

\* The controller asks for exactly one pod per Deployment.
desiredReplicas == 1

\* Mutant: old pods that still exist are not noticed.
isDeploymentRolledOut_OldPods(d) ==
    d.obs >= d.gen /\ d.updated >= desiredReplicas /\ d.ready >= d.updated

isDeploymentRolledOut(d) ==
    /\ d.obs >= d.gen
    /\ d.updated >= desiredReplicas
    /\ d.replicas <= d.updated
    /\ d.ready >= d.updated

isProgressDeadlineExceeded(d) == d.prog = "failed"

\* What r.Get returns for a Deployment, and whether a read waits for the cache.
Get(i) == seen[i]
Fresh == CacheLag \/ seen = dep

-----------------------------------------------------------------------------
Init ==
    /\ want = Replica
    /\ tmpl = 1 /\ token = 1 /\ req = 0 /\ cron = FALSE
    /\ secret = 0
    /\ cgs = [hash |-> 0, handled |-> 0, rotated |-> 0, inventory |-> {}]
    /\ dep = [i \in Replica |-> Absent]
    /\ seen = [i \in Replica |-> Absent]
    /\ pods = [i \in Replica |-> {}]
    /\ rec = Idle
    /\ ready = "Unknown"
    /\ queued = TRUE
    /\ used = [templates |-> 1, rotations |-> 0, edits |-> 0, faults |-> 0]

-----------------------------------------------------------------------------
(* Users and time.                                                         *)

\* Any change of the parameters that changes the pod template.
PublishTemplate ==
    /\ used.templates < MaxTemplates
    /\ tmpl' = tmpl + 1
    /\ used' = [used EXCEPT !.templates = @ + 1]
    /\ queued' = TRUE
    /\ UNCHANGED <<want, token, req, cron, secret, cgs, cluster, rec, ready>>

\* An edit of spec.tunnel.replicas (an empty list scales to zero).
EditReplicas(w) ==
    /\ used.edits < MaxEdits
    /\ w # want
    /\ want' = w
    /\ used' = [used EXCEPT !.edits = @ + 1]
    /\ queued' = TRUE
    /\ UNCHANGED <<tmpl, token, req, cron, secret, cgs, cluster, rec, ready>>

\* `cfgwctl rotate gateway token`.  The command needs an existing CGS.
RequestRotation ==
    /\ used.rotations < MaxRotations
    /\ cgs.hash # 0
    /\ req' = token
    /\ used' = [used EXCEPT !.rotations = @ + 1]
    /\ queued' = TRUE
    /\ UNCHANGED <<want, tmpl, token, cron, secret, cgs, cluster, rec, ready>>

\* A cron trigger passes; the reconcile that set RequeueAfter runs.
CronTrigger ==
    /\ used.rotations < MaxRotations
    /\ cgs.hash # 0
    /\ cron' = TRUE
    /\ used' = [used EXCEPT !.rotations = @ + 1]
    /\ queued' = TRUE
    /\ UNCHANGED <<want, tmpl, token, req, secret, cgs, cluster, rec, ready>>

\* The periodic reconcile, or a change of an object that needs no action.
Requeue ==
    /\ ~queued
    /\ queued' = TRUE
    /\ UNCHANGED <<inputs, token, secret, cgs, cluster, rec, ready, used>>

-----------------------------------------------------------------------------
(* One reconcile.                                                          *)

\* The worker takes the request; the Gateway and its parameters are read once.
StartReconcile ==
    /\ rec.pc = "idle" /\ queued
    /\ rec' = [Idle EXCEPT !.pc = "rotate", !.want = want, !.tmpl = tmpl,
                           !.req = req, !.todo = want]
    /\ queued' = FALSE
    /\ UNCHANGED <<inputs, token, secret, cgs, cluster, ready, used>>

\* A request is served once: not again after it was recorded as handled, nor
\* while lastRotatedAt is newer than the request.
OnDemand ==
    /\ rec.req # 0
    /\ rec.req # cgs.handled
    /\ cgs.rotated <= rec.req

maybeRotateToken ==
    /\ rec.pc = "rotate"
    /\ \/ /\ OnDemand \/ cron
          /\ token' = token + 1
          /\ rec' = [rec EXCEPT !.pc = "secret", !.rotated = TRUE]
       \/ /\ ~OnDemand /\ ~cron
          /\ token' = token
          /\ rec' = [rec EXCEPT !.pc = "secret"]
    /\ UNCHANGED <<inputs, secret, cgs, cluster, ready, queued, used>>

\* GetTunnelToken, then CreateOrUpdate of the token Secret, whose changes the
\* Gateway controller watches.
WriteTokenSecret ==
    /\ rec.pc = "secret"
    /\ secret' = token
    /\ queued' = (queued \/ secret # token)
    /\ rec' = [rec EXCEPT !.pc = "announce", !.hash = token]
    /\ UNCHANGED <<inputs, token, cgs, cluster, ready, used>>

\* Mutant: the CGS learns the new hash only in reconcileCGS.
patchCGSTokenHash_Late ==
    /\ rec.pc = "announce"
    /\ rec' = [rec EXCEPT !.pc = "apply"]
    /\ UNCHANGED <<inputs, token, secret, cgs, cluster, ready, queued, used>>

\* After a rotation the new hash is published before any Deployment changes.
patchCGSTokenHash ==
    /\ rec.pc = "announce"
    /\ cgs' = IF rec.rotated /\ cgs.hash # 0
              THEN [cgs EXCEPT !.hash = rec.hash] ELSE cgs
    /\ rec' = [rec EXCEPT !.pc = "apply"]
    /\ UNCHANGED <<inputs, token, secret, cluster, ready, queued, used>>

\* Server-side apply of the desired template: creates the Deployment, bumps
\* its generation, or changes nothing.
Applied(d) ==
    IF Exists(d) /\ d.hash = rec.hash /\ d.tmpl = rec.tmpl THEN d
    ELSE [hash |-> rec.hash, tmpl |-> rec.tmpl, gen |-> d.gen + 1,
          obs |-> d.obs, updated |-> d.updated, replicas |-> d.replicas,
          ready |-> d.ready, prog |-> d.prog]

\* Mutant: a rollout in progress is not waited for.
MustWait_Never(d) == FALSE

\* Mutant: a rollout past its progress deadline is waited for like any other.
MustWait_Failed(d) == Exists(d) /\ ~isDeploymentRolledOut(d)

\* The Deployment is still rolling out and may yet succeed: stop here.
MustWait(d) ==
    /\ Exists(d)
    /\ ~isDeploymentRolledOut(d)
    /\ ~isProgressDeadlineExceeded(d)

\* Mutant: the replicas are visited in any order, as a Go map would be.
NextReplica_AnyOrder(i) == i \in rec.todo

\* The loop follows the order of the replica list.
NextReplica(i) == i \in rec.todo /\ \A j \in rec.todo : i <= j

\* One iteration of the loop of applyTunnelDeployments, for replica i.  A
\* changed Deployment ends the loop unless the read found none to begin with.
applyTunnelDeployment(i) ==
    /\ rec.pc = "apply"
    /\ NextReplica(i) /\ Fresh
    /\ LET d       == Get(i)
           changed == Applied(dep[i]) # dep[i]
           stop    == MustWait(d) \/ (changed /\ Exists(d))
           rest    == rec.todo \ {i}
       IN /\ dep' = IF MustWait(d) THEN dep
                    ELSE [dep EXCEPT ![i] = Applied(@)]
          /\ rec' = [rec EXCEPT !.todo = IF stop THEN {} ELSE rest,
                                !.pc = IF stop \/ rest = {} THEN "cleanup"
                                       ELSE "apply"]
    /\ UNCHANGED <<inputs, token, secret, cgs, seen, pods, ready, queued, used>>

\* No replica is desired: the loop body never runs.
ApplyNothing ==
    /\ rec.pc = "apply" /\ rec.todo = {}
    /\ rec' = [rec EXCEPT !.pc = "cleanup"]
    /\ UNCHANGED <<inputs, token, secret, cgs, cluster, ready, queued, used>>

\* Deployments listed (from the cache) but not desired are deleted; a failed
\* delete is a non-fatal error.  Pods go with their Deployment.
cleanupStaleTunnelResources(failed) ==
    /\ rec.pc = "cleanup" /\ Fresh
    /\ failed \subseteq {i \in Replica \ rec.want : Exists(Get(i))}
    /\ used.faults + Cardinality(failed) <= MaxFaults
    /\ LET gone == {i \in Replica \ rec.want : Exists(Get(i))} \ failed IN
       /\ dep' = [i \in Replica |-> IF i \in gone THEN Absent ELSE dep[i]]
       /\ pods' = [i \in Replica |-> IF i \in gone THEN {} ELSE pods[i]]
    /\ rec' = [rec EXCEPT !.pc = "readiness", !.errs = (failed # {})]
    /\ used' = [used EXCEPT !.faults = @ + Cardinality(failed)]
    /\ UNCHANGED <<inputs, token, secret, cgs, seen, ready, queued>>

\* Mutant: the token hash of the template is not compared.
DeployRolledOut_AnyHash(d) == Exists(d) /\ isDeploymentRolledOut(d)

DeployRolledOut(d) ==
    Exists(d) /\ d.hash = rec.hash /\ isDeploymentRolledOut(d)

Readiness ==
    IF \E i \in rec.want : isProgressDeadlineExceeded(Get(i)) THEN "False"
    ELSE IF \A i \in rec.want : DeployRolledOut(Get(i)) THEN "True"
    ELSE "Unknown"

checkAllDeploymentsReadiness ==
    /\ rec.pc = "readiness" /\ Fresh
    /\ rec' = [rec EXCEPT !.pc = "cgs", !.ready = Readiness]
    /\ UNCHANGED <<inputs, token, secret, cgs, cluster, ready, queued, used>>

\* Mutant: the request is recorded as handled when the token was rotated.
reconcileCGS_Eager ==
    /\ rec.pc = "cgs"
    /\ cgs' = [hash      |-> rec.hash,
               handled   |-> rec.req,
               rotated   |-> IF rec.rotated \/ cgs.rotated = 0
                             THEN rec.hash ELSE cgs.rotated,
               inventory |-> rec.want]
    /\ cron' = IF rec.rotated THEN FALSE ELSE cron
    /\ rec' = [rec EXCEPT !.pc = "status"]
    /\ UNCHANGED <<want, tmpl, req, token, secret, cluster, ready, queued, used>>

\* The CGS records the hash, the inventory, the rotation time, and, only when
\* the Gateway is ready, the request as handled.  Recording a rotation
\* satisfies the trigger.
reconcileCGS ==
    /\ rec.pc = "cgs"
    /\ cgs' = [hash      |-> rec.hash,
               handled   |-> IF rec.ready = "True" THEN rec.req ELSE cgs.handled,
               rotated   |-> IF rec.rotated \/ cgs.rotated = 0
                             THEN rec.hash ELSE cgs.rotated,
               inventory |-> rec.want]
    /\ cron' = IF rec.rotated THEN FALSE ELSE cron
    /\ rec' = [rec EXCEPT !.pc = "status"]
    /\ UNCHANGED <<want, tmpl, req, token, secret, cluster, ready, queued, used>>

\* A failed List in cleanupStaleTunnelResources or a failed reconcileCGS skips
\* that call and is remembered: the reconcile goes on.  (An error of the VPA,
\* DNS or route calls in between has the same effect as the former.)
NonFatalError ==
    /\ rec.pc \in {"cleanup", "cgs"}
    /\ used.faults < MaxFaults
    /\ used' = [used EXCEPT !.faults = @ + 1]
    /\ rec' = [rec EXCEPT !.pc = IF rec.pc = "cgs" THEN "status" ELSE "readiness",
                          !.errs = TRUE]
    /\ UNCHANGED <<inputs, token, secret, cgs, cluster, ready, queued>>

\* Non-fatal errors downgrade Ready and make controller-runtime retry.
patchGatewayStatus ==
    /\ rec.pc = "status"
    /\ ready' = IF rec.errs /\ rec.ready # "False" THEN "Unknown" ELSE rec.ready
    /\ queued' = (queued \/ rec.errs)
    /\ rec' = Idle
    /\ UNCHANGED <<inputs, token, secret, cgs, cluster, used>>

\* A call fails (reconcileError: Ready=Unknown, retry with backoff) or the
\* controller crashes and restarts (every Gateway is reconciled again).  What
\* the reconcile has already done stays done.
Abort ==
    /\ rec.pc # "idle"
    /\ used.faults < MaxFaults
    /\ used' = [used EXCEPT !.faults = @ + 1]
    /\ rec' = Idle
    /\ queued' = TRUE
    /\ ready' \in {ready, "Unknown"}
    /\ UNCHANGED <<inputs, token, secret, cgs, cluster>>

-----------------------------------------------------------------------------
(* Kubernetes: the Deployment controller, the kubelet, the informer cache. *)

\* The status the Deployment controller publishes for the pods it observes.  A
\* new generation starts a new rollout: only then is a Progressing=False
\* condition left over from the previous one replaced.
Observed(d, ps) ==
    LET current == {p \in ps : IsCurrent(p, d)}
        done    == Cardinality(ps) = 1 /\ \E p \in current : p.ready
    IN [hash     |-> d.hash,
        tmpl     |-> d.tmpl,
        gen      |-> d.gen,
        obs      |-> d.gen,
        updated  |-> Cardinality(current),
        replicas |-> Cardinality(ps),
        ready    |-> Cardinality({p \in ps : p.ready}),
        prog     |-> IF done THEN "available"
                     ELSE IF d.obs # d.gen THEN "progressing" ELSE d.prog]

\* The pods of Deployment i change.  The status follows at once when the
\* controller has observed the current generation, else with StartRollout.
SetPods(i, ps) ==
    /\ pods' = [pods EXCEPT ![i] = ps]
    /\ dep' = IF dep[i].obs = dep[i].gen
              THEN [dep EXCEPT ![i] = Observed(@, ps)] ELSE dep

\* The Deployment controller observes a new generation: it scales down the
\* unready pods of old templates and, within maxSurge = 1, starts a pod of the
\* current one, whose environment is filled from the Secret at that moment.
StartRollout(i) ==
    /\ dep[i].obs # dep[i].gen
    /\ LET kept == {p \in pods[i] : p.ready \/ IsCurrent(p, dep[i])}
           new  == [hash |-> dep[i].hash, tmpl |-> dep[i].tmpl,
                    tok |-> secret, ready |-> FALSE]
           next == IF \E p \in kept : IsCurrent(p, dep[i]) THEN kept
                   ELSE kept \cup {new}
       IN /\ Cardinality(next) <= 2
          /\ pods' = [pods EXCEPT ![i] = next]
          /\ dep' = [dep EXCEPT ![i] = Observed(@, next)]
    /\ UNCHANGED <<inputs, token, secret, cgs, seen, rec, ready, queued, used>>

PodBecomesReady(i) ==
    /\ \E p \in pods[i] :
        /\ ~p.ready /\ <<i, p.tmpl>> \notin Bad
        /\ SetPods(i, (pods[i] \ {p}) \cup {[p EXCEPT !.ready = TRUE]})
    /\ UNCHANGED <<inputs, token, secret, cgs, seen, rec, ready, queued, used>>

\* maxUnavailable = 0: a pod of an old template is removed only when another
\* pod is ready.
RetireOldPod(i) ==
    /\ \E p \in pods[i] :
        /\ ~IsCurrent(p, dep[i])
        /\ \E q \in pods[i] \ {p} : q.ready
        /\ SetPods(i, pods[i] \ {p})
    /\ UNCHANGED <<inputs, token, secret, cgs, seen, rec, ready, queued, used>>

\* A container restarts and reads the Secret again.
RestartPod(i) ==
    /\ used.faults < MaxFaults
    /\ used' = [used EXCEPT !.faults = @ + 1]
    /\ \E p \in pods[i] :
         SetPods(i, (pods[i] \ {p}) \cup
                    {[p EXCEPT !.tok = secret, !.ready = FALSE]})
    /\ UNCHANGED <<inputs, token, secret, cgs, seen, rec, ready, queued>>

\* progressDeadlineSeconds passed before the observed rollout completed.  A
\* rollout that did complete is never marked failed later.
DeadlineExceeded(i) ==
    /\ Deadlines
    /\ Exists(dep[i]) /\ dep[i].obs = dep[i].gen
    /\ dep[i].prog = "progressing"
    /\ dep' = [dep EXCEPT ![i].prog = "failed"]
    /\ UNCHANGED <<inputs, token, secret, cgs, seen, pods, rec, ready, queued, used>>

\* Mutant: the Owns watch reacts to spec changes only.
SyncCache_SpecOnly(i) ==
    /\ seen[i] # dep[i]
    /\ seen' = [seen EXCEPT ![i] = dep[i]]
    /\ queued' = (queued \/ seen[i].gen # dep[i].gen)
    /\ UNCHANGED <<inputs, token, secret, cgs, dep, pods, rec, ready, used>>

\* The watch delivers the newest version of the Deployment; the Owns watch
\* enqueues the Gateway whenever the resourceVersion changed.
SyncCache(i) ==
    /\ seen[i] # dep[i]
    /\ seen' = [seen EXCEPT ![i] = dep[i]]
    /\ queued' = TRUE
    /\ UNCHANGED <<inputs, token, secret, cgs, dep, pods, rec, ready, used>>

-----------------------------------------------------------------------------
User == PublishTemplate \/ (\E w \in SUBSET Replica : EditReplicas(w))
        \/ RequestRotation \/ CronTrigger \/ Requeue

Reconcile ==
    \/ StartReconcile \/ maybeRotateToken \/ WriteTokenSecret
    \/ patchCGSTokenHash \/ ApplyNothing
    \/ (\E i \in Replica : applyTunnelDeployment(i))
    \/ (\E failed \in SUBSET Replica : cleanupStaleTunnelResources(failed))
    \/ checkAllDeploymentsReadiness \/ reconcileCGS \/ patchGatewayStatus

Kubernetes(i) ==
    \/ StartRollout(i) \/ PodBecomesReady(i) \/ RetireOldPod(i)
    \/ RestartPod(i) \/ DeadlineExceeded(i) \/ SyncCache(i)

Next ==
    User \/ Reconcile \/ NonFatalError \/ Abort \/ \E i \in Replica : Kubernetes(i)

Spec == Init /\ [][Next]_vars

\* What the Deployment controller, the kubelet and the watch go on to do by
\* themselves, for one Deployment or another.
ClusterProgress ==
    \E i \in Replica : \/ StartRollout(i) \/ PodBecomesReady(i) \/ RetireOldPod(i)
                      \/ DeadlineExceeded(i) \/ SyncCache(i)

\* The worker keeps working and the cluster makes progress.  Users, faults and
\* restarts are never forced.
Fairness == WF_vars(Reconcile) /\ WF_vars(ClusterProgress)

FairSpec == Spec /\ Fairness

-----------------------------------------------------------------------------
(* Properties.                                                             *)

TypeOK ==
    /\ want \subseteq Replica
    /\ tmpl \in Nat /\ token \in Nat /\ req \in Nat /\ secret \in Nat
    /\ cron \in BOOLEAN /\ queued \in BOOLEAN
    /\ cgs \in [hash : Nat, handled : Nat, rotated : Nat,
                inventory : SUBSET Replica]
    /\ dep \in [Replica -> Deployment]
    /\ seen \in [Replica -> Deployment]
    /\ pods \in [Replica -> SUBSET Pod]
    /\ rec \in [pc : Steps, want : SUBSET Replica, tmpl : Nat, req : Nat,
                hash : Nat, rotated : BOOLEAN, todo : SUBSET Replica,
                errs : BOOLEAN, ready : {"True", "False", "Unknown"}]
    /\ ready \in {"True", "False", "Unknown"}
    /\ used \in [templates : Nat, rotations : Nat, edits : Nat, faults : Nat]

\* lastHandledRotateAt is written only when every pod of every desired replica
\* has loaded a token minted after the request: no pod is left on the token
\* the user asked to revoke, although readiness is read from a stale cache and
\* pods load the token from a Secret (reconcileCGS, checkAllDeploymentsReadiness).
HandledAfterRollout ==
    [][cgs'.handled # cgs.handled =>
        \A i \in rec.want : \A p \in pods[i] : p.tok > cgs'.handled]_vars

\* No Deployment carries a token hash newer than the one the CGS announces, so
\* cfgwctl cannot mistake the direction of a rotation (patchCGSTokenHash), even
\* when a reconcile fails between rotating and announcing.
HashAnnouncedFirst ==
    cgs.hash # 0 => \A i \in Replica : dep[i].hash <= cgs.hash

\* A Deployment is created or changed only after all earlier desired replicas
\* carry the same template: the new configuration spreads in the order of the
\* replica list (applyTunnelDeployments).
SpreadsInOrder ==
    [][\A j \in Replica : Exists(dep'[j]) /\ dep'[j].gen # dep[j].gen =>
        \A i \in rec.want : i < j =>
            Exists(dep[i]) /\ dep[i].hash = rec.hash /\ dep[i].tmpl = rec.tmpl]_vars

\* The latest update of an existing Deployment has neither completed nor failed.
Updating(d) == d.gen > 1 /\ (d.obs < d.gen \/ d.prog = "progressing")

\* An existing Deployment is updated only when no earlier desired one is in the
\* middle of an update: "the rollout completes before the next Deployment is
\* touched" (applyTunnelDeployments).  It holds while no rollout misses its
\* progress deadline: the Progressing=False condition of an earlier generation,
\* which the loop does not tell from the current one, makes it pass over a
\* Deployment that was just fixed.
RolloutCompletesBeforeNext ==
    [][\A j \in Replica : Exists(dep[j]) /\ dep'[j].gen > dep[j].gen =>
        \A i \in rec.want : i < j => ~Updating(dep[i])]_vars

\* What the rollout implements: a reconcile in progress counts the replicas it
\* read, and a pod uses the token it loaded.
Handover == INSTANCE TokenHandover WITH
    Place  <- Replica,
    newest <- token, stored <- secret, asked <- req, acked <- cgs.handled,
    scope  <- IF rec.pc = "idle" THEN want ELSE rec.want,
    inuse  <- [i \in Replica |-> {p.tok : p \in pods[i]}]

\* The rollout with its reconciles, stale reads, restarts and faults implements
\* the abstract handover: acknowledgements come in the order of the requests,
\* each after the last connector in scope gave up the tokens it revokes.
ImplementsHandover == Handover!HandoverSpec

\* Every desired replica runs the desired template unless its pod can never
\* become ready, no other Deployment is left, and the statuses say so.
Settled ==
    /\ \A i \in want : /\ dep[i].hash = token /\ dep[i].tmpl = tmpl
                       /\ \/ isDeploymentRolledOut(dep[i])
                          \/ /\ <<i, tmpl>> \in Bad
                             /\ dep[i].prog = "failed"
    /\ \A i \in Replica \ want : ~Exists(dep[i])
    /\ ready = IF \E i \in want : dep[i].prog = "failed" THEN "False" ELSE "True"
    /\ ready = "True" => cgs.handled = req
    /\ cgs.hash = token

\* Once users stop editing, the watches alone bring the Gateway to its desired
\* state: no periodic reconcile is needed, a waiting reconcile is always woken,
\* one broken replica does not block the others, and one that missed its
\* progress deadline recovers when a later template fixes it
\* (applyTunnelDeployments).
Converges == <>[]Settled

-----------------------------------------------------------------------------
(* The inductive invariant behind the safety properties.                   *)

FinitePods == \A i \in Replica : IsFiniteSet(pods[i])

\* The reconcile has stored the newest token.
Stored == rec.pc \in {"announce", "apply", "cleanup", "readiness", "cgs", "status"}

\* Nothing runs ahead of Cloudflare, and no template or cached template runs
\* ahead of the Secret.
TokenOrder ==
    /\ 1 <= token /\ secret <= token /\ req <= token
    /\ cgs.rotated <= token /\ cgs.handled < token /\ cgs.handled <= req
    /\ rec.pc # "idle" => cgs.handled <= rec.req /\ rec.req <= req
    /\ Stored => rec.hash = token /\ secret = token
    /\ \A i \in Replica : dep[i].hash <= secret /\ seen[i].hash <= secret

\* A pod loaded a token at least as new as the one its template names.
PodsLoadNewerToken ==
    \A i \in Replica : \A p \in pods[i] : p.hash <= p.tok /\ p.tok <= secret

\* Status never describes a generation that does not exist yet.
ObservedInOrder == \A i \in Replica : dep[i].obs <= dep[i].gen

\* A Deployment that looks rolled out, however stale the look, has no pod on a
\* token older than its template's.
RolledOutMeansLoaded ==
    \A i \in Replica : \A d \in {dep[i], seen[i]} :
        isDeploymentRolledOut(d) => \A p \in pods[i] : d.hash <= p.tok

\* The same for the readiness a reconcile has computed but not yet recorded.
ReadyMeansLoaded ==
    rec.pc \in {"cgs", "status"} /\ rec.ready = "True" =>
        \A i \in rec.want : \A p \in pods[i] : rec.hash <= p.tok

\* Past the rotation decision, the token is newer than the pending request.
RequestServed ==
    rec.pc \notin {"idle", "rotate"} /\ cgs.handled < rec.req => rec.req < token

Due(r) == cgs.handled < r /\ cgs.rotated <= r

\* A token that was minted but not announced is minted again: the reason for
\* rotating is still standing.
UnannouncedIsDue ==
    cgs.hash # 0 /\ cgs.hash < token =>
        /\ cron \/ Due(req)
        /\ rec.pc = "rotate" => cron \/ Due(rec.req)
        /\ rec.pc \in {"secret", "announce"} => rec.rotated
        /\ rec.pc \notin {"apply", "cleanup", "readiness", "cgs", "status"}

\* The replicas the loop has left behind carry the desired template.
DoneReplicas ==
    /\ rec.pc \in {"rotate", "secret", "announce"} => rec.todo = rec.want
    /\ rec.pc = "apply" =>
        \A i \in rec.want \ rec.todo :
            Exists(dep[i]) /\ dep[i].hash = rec.hash /\ dep[i].tmpl = rec.tmpl

TokenInv ==
    /\ TypeOK /\ FinitePods
    /\ TokenOrder /\ PodsLoadNewerToken /\ ObservedInOrder
    /\ RolledOutMeansLoaded /\ ReadyMeansLoaded /\ RequestServed
    /\ UnannouncedIsDue /\ HashAnnouncedFirst /\ DoneReplicas

\* A Deployment has one pod of each template it had.
UniquePods ==
    \A i \in Replica : \A p, q \in pods[i] :
        p.hash = q.hash /\ p.tmpl = q.tmpl => p = q

\* With an up-to-date cache and no missed deadline, a replica the loop has left
\* behind is not in the middle of an update, and stays so during the reconcile.
UpdateInv ==
    /\ UniquePods
    /\ \A i \in Replica :
        /\ dep[i].prog # "failed"
        /\ isDeploymentRolledOut(dep[i]) => dep[i].prog = "available"
    /\ rec.pc = "apply" =>
        \A i \in rec.want \ rec.todo :
            dep[i].gen = 1 \/ (dep[i].obs = dep[i].gen /\ dep[i].prog = "available")
=============================================================================
