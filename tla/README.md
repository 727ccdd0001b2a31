# A TLA+ model of cloudflare-gateway-controller

This directory holds a formal model of the controller in this repository: TLA+
modules translated from the Go source, TLC configurations that check them on small
instances, and proofs checked by TLAPS. `PROJECT.json` ties every definition to the
source lines it models and every run to what it checks.

## 1. The system

`cloudflare-gateway-controller` implements the Gateway API on Cloudflare tunnels. A
`Gateway` becomes one tunnel, a token Secret, one Deployment per configured replica, a
ConfigMap with the routes, and a CNAME record per route hostname. In the pods of the
Deployments a reverse proxy behind `cloudflared` serves the routes.

| Component | State it keeps | Operations | Correct when |
|---|---|---|---|
| Gateway admission and status (`gateway_controller.go`, `gateway_helpers.go`, `tunnel.go`) | conditions of the Gateway and, mirrored, of its `CloudflareGatewayStatus` (CGS); the tunnel | validate the Gateway and its parameters, read credentials, ensure the tunnel, report | conditions speak of the spec they name, come to be true, and agree with their mirror |
| Tunnel rollout (`gateway_tunnel.go`, `gateway_controller.go`, `gateway_helpers.go`) | token Secret; Deployments (template, token hash, status); CGS (hash, inventory, last handled request, last rotation) | rotate the token, write the Secret, announce the hash, apply Deployments in order, delete stale ones, compute readiness, record the result | a rotation is acknowledged only when every pod uses a new token; one broken replica does not block the others; watches alone bring the system to rest |
| Rotation timing (`maybeRotateToken`, `reconcileCGS`, `computeRequeueAfter`, `schedule.go`) | request annotation, `lastRotatedAt`, `lastHandledRotateAt`, requeue timer | decide whether a request or a cron trigger is due; compute the next wake-up; replace a deleted CGS | each cause rotates once; no cause is lost |
| Managed DNS (`gateway_dns.go`, `cloudflare/client.go`) | CNAME records in Cloudflare, `status.addresses` | reject conflicting routes, diff, create, delete, report | Gateways never take each other's records; nothing dangles; reports are true |
| Routes and claims (`gateway_routes.go`, `gateway_routes_configmap.go`, `route.go`, `referencegrant.go`) | route ConfigMap (who owns a hostname and path), route statuses | attach, deny, reject, resolve references | at most one owner per hostname and path; an owner keeps its claim |
| Lifecycle (`Reconcile`, `finalize*`, `ensureGatewayClassFinalizer`) | finalizers of the Gateway, its GatewayClass and its CGS; owner references | take and release finalizers; finalize with reconciliation enabled or disabled; suspend | nothing leaks, nothing is deleted early, deletion always ends |
| GatewayClass controller (`gatewayclass_controller.go`) | Ready condition of each class | check the CRD version and the parameters | the condition follows the CRD and the Secret; a class outlives its users |
| Tunnel proxy (`internal/proxy`) | in each pod a route table, replaced as a whole; sessions, in the cookies of the clients | match a route, choose a backend, keep a session | the longest prefix wins; a session stays on its backend and ends in time; a drained backend gets nothing |
| CLI rotation watch (`watch_rotation.go`) | informers, a log of events | request or attach to a rotation, follow it, judge it | PASSED means rotated; no false alarm; the watch ends |
| Cloudflare client and retry | attempt counters | rate-limited calls, bounded retries | transient errors are absorbed and none is made worse by the retry |
| Watches, indexes | indexes | map events to Gateways | every change that matters wakes the right Gateway |
| Other CLI commands, preflight checks, embedded `cloudflared`, test commands | none | wrappers, one-time checks | |

Interaction. The Gateway reconciler has one worker, so reconciles are serial; the
GatewayClass reconciler runs beside it. Everything else interleaves with a reconcile:
users, `cfgwctl`, the Kubernetes Deployment controller and the kubelet, and the informer
caches. Deployments, Gateways, routes and the CGS are read from caches and written live;
Secrets and ConfigMaps are read live. A reconcile is a long sequence of calls, each of
which may fail: a fatal error ends it (`reconcileError`), others are collected and
returned at the end; both are retried. A crash leaves whatever was already written. The
proxies learn of the routes from the ConfigMap, each in its own time, and share nothing
else with the controller; `cfgwctl` shares the API server.

The hard behaviours, listed line by line as `hazards` in `PROJECT.json`, are: decisions
from stale caches; failures between two writes that belong together; a second change in
the middle of a rollout; timestamps of different precision; a requeue interval that
becomes zero; two Gateways that want the same hostname; a client that judges a rollout
from late events; sessions that outlive the configuration they began with.

## 2. Modules

| Module | Models | Used by |
|---|---|---|
| `TokenHandover` | abstract specification: what the rotation of a token promises | `TunnelRollout` (as `Handover`) |
| `TunnelRollout` | one Gateway's token and Deployments, the Deployment controller, the cache | `MCTunnelRollout`, `TunnelRolloutProofs`, `RotationWatch` |
| `TunnelRolloutProofs` | proofs about `TunnelRollout` | |
| `RotationWatch` | `cfgwctl` following a rotation, composed with `TunnelRollout` | `MCRotationWatch`, `RotationWatchProofs` |
| `RotationWatchProofs` | proofs about `RotationWatch`, on top of `TunnelRolloutProofs` | |
| `TokenRotation` | when a token is rotated: clock, timestamps, timer, the life of the CGS | `MCTokenRotation`, `TokenRotationProofs` |
| `TokenRotationProofs` | proofs about `TokenRotation` | |
| `ManagedDNS` | CNAME records shared by several Gateways | `MCManagedDNS`, `ManagedDNSProofs` |
| `ManagedDNSProofs` | proofs about `ManagedDNS` | |
| `RouteClaims` | which routes are attached, rejected or served | `MCRouteClaims`, `RouteClaimsProofs` |
| `RouteClaimsProofs` | proofs about `RouteClaims` | |
| `GatewayClassStatus` | the GatewayClass controller | `GatewayLifecycle` |
| `GatewayLifecycle` | the life of one Gateway, composed with `GatewayClassStatus` | `MCGatewayLifecycle`, `GatewayLifecycleProofs` |
| `GatewayLifecycleProofs` | proofs about `GatewayLifecycle` | |
| `GatewayAdmission` | whether a Gateway is accepted, its tunnel, its conditions and their mirror | `MCGatewayAdmission`, `GatewayAdmissionProofs` |
| `GatewayAdmissionProofs` | proofs about `GatewayAdmission` | |
| `ProxySessions` | the proxies in the pods and a client with sessions | `MCProxySessions`, `ProxySessionsProofs` |
| `ProxySessionsProofs` | proofs about `ProxySessions` | |

Definitions named `..._Something` under a comment that starts with "Mutant" are broken
variants of the definition that follows them. No specification uses them; they show that
the properties can fail.

### TokenHandover and TunnelRollout

State and code: `want`/`tmpl` are the parameters (replica list, everything else in the pod
template); `token` is the newest token at Cloudflare; `secret`, `cgs`, `dep` are the API
objects; `seen` is the informer cache of the Deployments; `pods` are the running pods with
the token each loaded; `rec` is the local state of `reconcile`; `queued` is the work
queue. There is one action per call of `reconcile` that changes state, in the order of
the code, and one per step of the environment: starting a pod, readiness, removal of an
old pod (maxSurge 1, maxUnavailable 0), container restart, progress deadline, cache
update. `Abort` is a fatal error or crash at any point, `NonFatalError` a collected one.
With `CacheLag` FALSE a read of a Deployment waits for the cache (`Fresh`), which is the
usual case; with TRUE it may find any older copy.

Abstractions: tokens are numbered in the order they were minted and a hash is that
number; timestamps are replaced by that order (`TokenRotation` has the real ones); the
CGS is read live; creating the CGS and patching its status is one step; the pods of a
deleted Deployment disappear with it; VPAs, RBAC and the route ConfigMap are left out.

`TokenHandover` is what a user may rely on: tokens are minted and stored, connectors load
the stored token when they start, and a request is acknowledged only when every
connector of the replicas that count runs a token minted after it. It knows no
Deployment, cache, reconcile or fault. `TunnelRollout` maps its state to it (`Handover`:
the tokens of a place are those its pods loaded, the replicas that count are those of the
reconcile in progress) and implements it (`ImplementsHandover`).

### RotationWatch

`cli` holds the locals of the commands `rotate gateway token --watch` and `watch gateway
token` and of `rotationWatcher`, with one action for each read, for the list of the
Deployments, and for each case of the event loop; `feed` is the channel of Deployment
updates that were made and not yet handled, so the command acts on old news; `pause` is
the suspension annotation, which the command and the controller both read. Every step of
the controller and the cluster is a step of `TunnelRollout` that may also deliver an event
(`Watched`). An update in which neither the hash nor the verdict on the rollout changed is
not delivered, as the command would ignore it.

The Deployments are listed from a Go map, so in any order (`Listings`), and a command that
attaches logs what it finds updated in that order. The switch `Prompt` leaves out a
behaviour described in section 3: with it nothing happens between the patch and the list
of the Deployments. One command runs; it starts only when the Gateway is served.

### TokenRotation

Time is counted in ticks, `PerSecond` to the second. A request is stamped with the full
clock (RFC3339Nano), a rotation with whole seconds (RFC3339). `Slow` is the set of steps
of a reconcile during which time may pass. The work queue is one due time, as in
controller-runtime's priority queue: adding keeps the earlier time, `RequeueAfter = 0`
adds nothing. The CGS is read from a cache and written by a merge patch against the copy
that was read. It may be deleted at any moment (`DeleteCGS`): a reconcile that reads it
absent or terminating takes the finalizer off and creates another (`Replaces`,
`Released`), and may fail in between (`ReplacementFails`). The rollout is one step. `hist`
records each rotation with its cause. Finalizers of others on the CGS are not modelled.

### ManagedDNS

`attached` and `policy` are a Gateway's routes and `spec.dns`, as of the cache update
whose event enqueues it; `cname` is the record of each hostname; `published` says that
`status.addresses` holds the tunnel host; `applied` is what the routes report. A reconcile
reads, filters conflicting routes, lists and diffs, creates and deletes record by record
in any order (Go maps), reports and publishes. The finalizer runs the same diff with the
disabled policy and removes the Gateway. Zone lookups, record calls and the whole
reconcile may fail, as `Faults` says. Left out: edits of managed records by hand; a stale
read of other Gateways' addresses (it widens the window before `published`, described
below); several accounts.

### RouteClaims

A route is its place in the order of namespace and name, and a key is a hostname, path and
protocol. `class[r]` is what listeners, parentRefs and validation make of the route,
`keys[r]` what it declares, `granted[r]` whether ReferenceGrants admit its backends,
`taken` the keys whose hostname has another Gateway's record, `cm` the route ConfigMap
(pairs of key and owner), `status[r]` the entry in `status.parents`. A reconcile is the
sequence of filters of `reconcile`: attach, claims, foreign records, ConfigMap, statuses,
each with status patches that may fail. The watches are part of the actions: edits wake
the Gateway as `mapHTTPRouteToGateway` and `mapReferenceGrantToGateway` say, and a change
of the ConfigMap wakes it again. Abstractions: the backends of a route are granted or
denied together (in the code rule by rule); readiness and DNS conditions of a route are
left to the other modules; conflicts are looked up by name (`NameOf`), as in the code.

### GatewayClassStatus and GatewayLifecycle

`class` are the GatewayClasses in the API server and `seen` the copies in the cache;
`config` says whether the CRD version is supported and the Secret has credentials;
`classrec` is a class reconcile between its reads and its status patch. `Ready` is the
only condition kept.

`gw` is the Gateway (one name, with a new UID each time it is created), `obj` the objects
it owns by kind, `cgs` its CloudflareGatewayStatus, `cache` all three as the informers
have them; `tunnel` is the UID of the Gateway that last ensured the tunnel. `rec` is the
reconcile in progress with the copies it read. There is one action per write of
`Reconcile`, `ensureGatewayClassFinalizer`, `reconcile`, `reconcileCGS`, `finalizeEnabled`,
`finalizeDisabled`, `removeOwnerReferences` and `finalize`, and the garbage collector and
the informers are actions of their own. Two variables are history: `left`, the Gateways
deleted with reconciliation disabled, and `source`, the class the tunnel was made from.

How writes meet a changed object follows the calls: patches of class finalizers and
owner references carry an optimistic lock and fail on a stale copy; the patches of the
Gateway's and the CGS's finalizers carry none. Tunnels and finalizers are named by
namespace and name, so a re-created Gateway adopts what is there. When `lagging` is
FALSE a read waits for the informers (`Fresh`), which is the usual case; `Lags` = {TRUE}
lets every cached read be stale.

Abstractions: what the objects contain is left to the other modules; the ServiceAccount,
Role and RoleBinding are one kind; all classes name the same Secret; a class name is used
again only after its removal was seen.

### GatewayAdmission

`gw` is the Gateway with its generation, its parametersRef and the conditions Accepted and
Ready; `valid` the generations `validateGateway` accepts; `inputs` the parameters, the
grant for the credentials of the class, the Secret, and whether the Deployments are ready;
`seen` the first two as the informers have them; `cgs` the mirrored conditions; `tunnel`
the tunnel at Cloudflare. A reconcile reads in the order of the code, finds or creates the
tunnel (a call is retried after a network error, which may hide that the tunnel was
created), and writes the Gateway, then the CGS, on success and on error. `event`, `queued`
and `timer` are the work queue: which change makes a request is taken from the watches.
`lost` is history: whose conditions a failed write that is not repeated left behind.

Abstractions: Programmed, DNSManagement, listeners and addresses follow the path of Ready
and are left out; back-off times are left out; the class is Ready.

### ProxySessions

`configMap` is the ConfigMap and `config` what each proxy has loaded, replaced at once when
it parses; `jar` are the cookies of one client, `open` its requests in flight with the
route and backend they were given, `now` the time in seconds. Routing (`matchRoute`),
`resolveSession`, `findBackendByID`, `pickBackend`, `setSessionCookie` and `cookieMaxAge`
are operators that follow the functions of that name; what a browser does with a cookie is
modelled from RFC 6265. Weighted random selection is a choice among the backends of
positive weight. `owed` and `start` are history, fixed when a request arrives.

Abstractions: a path is a short sequence of its characters; transport, timeouts of a
request, the health endpoint and metrics are left out.

## 3. Runs

All bounds are CONSTANTS named `Max...`. Deadlock is not checked, because users and
faults may stop and the system then rests.

| Run | Shows | Bounds |
|---|---|---|
| `rollout_faults` | `HashAnnouncedFirst`, `HandledAfterRollout`, `SpreadsInOrder`, the refinement `ImplementsHandover`, and `TokenInv`, the inductive invariant of the proofs (with `TypeOK`) | 2 replicas, 1 template, 1 rotation, 1 fault, stale cache |
| `rollout_broken_replica` | `Converges` although the first replica can never run the first template version, which the second one fixes, before or after the rollout of the first missed its deadline | 2 replicas, 2 template versions, 1 edit of the replicas, 1 fault, missed deadlines, up-to-date cache |
| `watch_rotation` | `PassedMeansRotated`, `RequesterSeesOrder`, `RolloutCompletesBeforeNext`, `WatchEnds`, `WatchedConverges` | 2 replicas, 1 rotation, 2 changes of the suspension, 2 undelivered events |
| `rotation_safety` | `RotatedOncePerCause`, `HandledMeansRotated`, `RotatedAtMonotone` | 3 s in half seconds, 2 requests, 1 trigger, 1 fault or deletion of the CGS, stale cache, slow reconciles |
| `rotation_schedule` | `TriggersServed`: every trigger is served by the timer alone | 2 triggers, 1 request, 1 edit, 1 fault or deletion of the CGS |
| `rotation_lost_timer` (violation) | a reconcile that straddles a trigger loses the timer | 1 trigger |
| `dns_shared` | `PublishedRecordsKept`, `NoDanglingRecords`, `AppliedMeansRecord`, `Converges` | 2 Gateways, 2 overlapping routes, 2 hostnames, 3 edits, 1 failed call or crash |
| `routes_claimed` | `OneOwner`, `OwnersKeepClaims`, `AcceptedIsServed`, `QuietMeansSettled`, `Converges`, and the inductive invariant `ClaimInv` | 3 routes, 2 keys, the second route may want both; 2 edits, 1 fault |
| `lifecycle` | `TunnelKept`, `ConnectorsHaveTunnel`, `LeftUnowned`, `ClassOutlivesTunnel`, `FinalizersReleased`, `DeletionCompletes`, `Converges` | 2 classes, Secret and Deployment, 2 Gateways in turn, 3 edits, 1 fault, up-to-date caches |
| `lifecycle_disabled` (violation) | a Gateway deleted with reconciliation disabled leaves its CGS with the finalizer nobody removes | 2 edits |
| `admission` | `StatusOfGeneration`, `FaultsAbsorbed`, `StatusSettles`, `StatusMirrored` | 3 edits of the inputs, 2 faults, 1 retry of a call |
| `proxy_sessions` | `SessionSticks`, `SessionsExpire`, `LongestPrefixWins`, `Drained` | 2 proxies, 2 backends, 2 requests in flight, 4 s, 1 update or restart |

Why the bounds are enough. Two replicas, Gateways, hostnames, proxies or requests are the
smallest numbers for which order and conflict mean anything, and no action looks at more
than two of them at once except through a quantifier. One rotation or fault per run
already meets every step of a reconcile; a second fault only repeats the retry, and
`admission` has two because one is absorbed by the retry. What a command reports when it
meets the hashes of two rotations is proved only (`MixedTokensReal`). Two ticks to the
second are the fewest for which a request and a rotation in one second can be told apart,
and in that clock a rotation may look older or newer than, or as old as, a request. The
runs about `TriggersServed` have one tick to the second: triggers are whole seconds, so
cutting a later rotation to the second never makes it look older than the trigger. Three edits of a
Gateway's life are disable, delete and create again, or switch the class, delete the old
one and delete the Gateway. The Secret stands for the kinds that are read live, the
Deployment for those that are cached. Two undelivered events let the command be one event
behind on each Deployment. Four seconds let a session reach either timeout and be renewed
before. What section 4 lists is proved without any bound.

Fairness. The worker takes queued requests and finishes its steps (weak fairness of the
reconcile); in `ManagedDNS` each queued Gateway is eventually chosen (strong fairness of
its start, as the queue is fair); there and in `RouteClaims` the periodic requeue goes on
(a change of another Gateway's record wakes nobody). In `GatewayLifecycle` the informers
and the garbage collector make progress and the periodic requeue is not assumed. In
`GatewayAdmission` the informers make progress and the timer that a successful reconcile
asks for ends: nothing else notices a deleted tunnel or Secret. The Deployment controller,
the kubelet (for pods that can become ready), the progress deadline, the watch and the
clock make progress: in `TunnelRollout` the cluster is weakly fair as a whole, for
whichever Deployment it goes on with, and in `RotationWatch` so are the command, the
worker and the cluster. Users, faults,
crashes, container restarts, suspension and the timeout of `cfgwctl` are never forced. In
`TunnelRollout` a periodic reconcile may happen at any time but is never assumed: its
liveness rests on watches and retries only. `QuietMeansSettled` says the same of routes as
an invariant: a settled state is reached before the queue is empty. `ProxySessions` has
safety properties only.

Findings. A violation run is a disagreement between the code and what its comments or
docs say; `PROJECT.json` quotes both sides.

* `rotation_lost_timer`: a trigger that passes during a reconcile gives `RequeueAfter = 0`,
  which asks for no requeue at all.
* `lifecycle_disabled`: `finalizeDisabled` leaves the finalizer on the CGS.

### Further behaviours

These are known from the models and have no run of their own. The runs and properties
above exclude them by the switch or the case named with each; with the switch turned, TLC
finds the execution.

Rollout.

* `isProgressDeadlineExceeded` compares no generations: a Deployment whose fix was just
  applied still shows the Progressing=False condition of its old rollout, so the next
  reconcile passes over it and updates the next one beside it. `RolloutCompletesBeforeNext`
  is about rollouts without a missed deadline (with `Deadlines` TRUE it fails);
  `rollout_broken_replica` has this behaviour and converges all the same.
* A template change published while a later replica is rolling out is applied to the
  first replica at once, so two Deployments may roll out together without breaking the
  order `SpreadsInOrder` states. `RolloutCompletesBeforeNext` speaks of earlier replicas.

Rotation.

* A rotation is recorded in whole seconds, so one within the second of its request looks
  older than the request, and each reconcile rotates again until the rollout is complete
  or the second is over, against the comment in `maybeRotateToken`. In
  `RotatedOncePerCause` a rotation counts if its time, so cut, is not older than its cause
  (`Fresh`); without that the property fails in `rotation_safety` with one request.
* The recorded time is that of Cloudflare's answer, the decision that of the read before:
  a request in between, or made while `lastRotatedAt` is seeded, is older than the stamp
  and is acknowledged without a rotation of its own. `HandledMeansRotated` fails with
  `Slow` <- `AllSlow`; `rotation_safety` has these steps prompt (`PromptAnswer`).
* A request is rotated for again when the CGS is deleted twice and the cache still has the
  old one: the replacement loses its finalizer, so the second deletion takes what was
  recorded along.
* A CGS that another finalizer holds is never replaced while it terminates, so what was
  rotated is not recorded and the rotation is repeated. A terminating CGS that is still in
  the cache when its replacement exists costs the replacement its finalizer.

DNS.

* With all zones managed, a hostname whose zone lookup fails is dropped from the desired
  set without an error. If it is the lookup of the conflict check, the record of another
  Gateway is repointed (`PublishedRecordsKept` fails); if it is that of the write, a live
  record is deleted and still reported as applied (`AppliedMeansRecord` fails). The run
  has no such fault (`"lookup"` not in `Faults`).
* `PublishedRecordsKept` is about Gateways that have published their address: if the
  controller crashes after creating a record and before its first status patch, nobody can
  tell whose record it is and another Gateway may repoint it.

Routes.

* Conflicts are kept by namespace and name without the kind: an HTTPRoute that is served
  is rejected when a GRPCRoute of its name conflicts with a third route, and loses its
  entries (`OwnersKeepClaims`, with a `NameOf` that gives two routes one name).

Lifecycle.

* A finalization lists classes and Deployments from a cache that may not have the last
  write yet. When a Gateway is deleted right after its first reconcile, the class may keep
  its finalizer for ever, and the tunnel may be deleted under a running connector:
  `FinalizersReleased` and `ConnectorsHaveTunnel` fail with `Lags` = {TRUE}. (`LeftUnowned`
  and `ClassOutlivesTunnel` say themselves that they are about up-to-date reads.)
  `lifecycle` has reads that wait for the informers; `TunnelKept` is proved for caches of
  any age.
* A class is held from the first reconcile that uses it, not from the reference. One that
  is deleted in between goes at once, and while it is missing the Gateway is neither
  reconciled nor finalized; `DeletionCompletes` assumes that it comes back.
* A Gateway whose class belongs to another controller by the time it is deleted is not
  finalized; `DeletionCompletes` assumes that it does not.

Admission.

* A ReferenceGrant for the credentials that is given after the rejection wakes nobody, as
  the rejection is terminal and `mapReferenceGrantToGateway` knows grants for Services
  only (`GrantMissed`).
* A write of the mirrored conditions that fails, or is lost in a crash, is not repeated
  while the Gateway's conditions stay the same. `cfgwctl` waits for the conditions of the
  CGS, so `reconcile` or `resume` may wait in vain, although the CGS already names the
  handled request. `StatusMirrored` exempts it (`lost`).
* A status patch that fails while a terminal error is reported is not repeated (`lost`).
* If the tunnel disappears between a conflict and the lookup that follows it, `ensureTunnel`
  goes on with an empty ID until `GetTunnelToken` fails; the retry repairs it. Credentials
  changed to another account leave the old tunnel behind.

`cfgwctl`.

* A command that attaches logs the Deployments that are already updated in the order of a
  Go map, and the report may complain about an order that was kept. `RequesterSeesOrder`
  is about commands that requested the rotation; said of all, it fails in
  `watch_rotation`.
* Attaching between two rotations finds two old hashes and reports an inconsistency
  (`MixedTokensAreReal` allows it); attaching around the announcement of a rotation mixes
  up old and new, and the watch ends by its timeout (`WatchEnds`). If the template is
  changed too, or a container restarts, a Deployment that has the new token may be listed
  as not rolled out, and its later events look like a violated order to a command that
  attached.
* If a Deployment already has the new hash when they are first listed, `rotate --watch`
  takes it for the old one and ends by its timeout (`Prompt`). A suspension before the
  informers have synced, or an edit of the replica list, is not noticed either.

Proxy.

* The prefix `/api` matches the request `/apix`, and the cookie path `/api` does not: such
  a client gets another backend each time, and each answer replaces the cookie it uses
  below `/api`. `SessionSticks` is about requests to which the client sends the cookie of
  the route.
* First requests that race each get a session and the last answer wins. Routes of a host
  share the default cookie name; the cookie of the longer path is sent first. So when a
  route on a longer path is removed, a client that still has its cookie loses its session
  with the route on the shorter one, and `SessionSticks` is claimed only of sessions that
  are not nested under one name (`NamesApart`), as those of the run are. The proxy
  implements `idleTimeout`, and no HTTPRoute sets it: `buildSessionPersistence` leaves it
  empty.

## 4. Proofs

`TunnelRolloutProofs` proves, for any number of replicas, any bounds and any set of
broken templates (assumptions `NAssumption`, `BadAssumption`, `FlagAssumption`,
`BoundAssumption` only):

* `TokenInvariant`: `Spec => []TokenInv`;
* `TypeCorrect`: `Spec => []TypeOK`;
* `HashAnnounced`: no Deployment ever carries a hash the CGS has not announced;
* `Handled`: when a request is recorded as handled, every pod of every desired replica has
  loaded a token minted after it;
* `Spread`: a configuration spreads in the order of the replica list;
* `Refinement`: the rollout implements `TokenHandover`, by the mapping `Handover`;
* `CompletesBeforeNext`: if the cache is up to date (`~CacheLag`) and no deadline is missed
  (`~Deadlines`), a Deployment is updated only when no earlier one is in the middle of an
  update.

The argument. `HandledAfterRollout` is not inductive: acknowledging reads `rec.ready`,
computed earlier from a cache. Three facts carry it. A pod's token is at least as new as
its template's hash, because the Secret is written before the template
(`PodsLoadNewerToken`). So a Deployment that looks rolled out, in the API server or in any
older copy in the cache, has no pod on an older token, and tokens of pods never go back
(`RolledOutMeansLoaded`, `ReadyMeansLoaded`). And after the rotation decision, a request
that is not yet handled is older than the newest token (`RequestServed`).
`HashAnnouncedFirst` needs that a token minted but not announced (a failure between the
two) is still due, so that the retry rotates and announces again (`UnannouncedIsDue`).
`Spread` needs that the replicas the loop has passed carry the desired template
(`DoneReplicas`). `TokenInv` is the conjunction, checked by `rollout_faults` first.
For `Refinement` each action is shown to be a step of the handover or a stutter: minting
and storing are `Mint` and `Store`, a pod that starts is `Connect`, the copy of the
replica list is `Rescope`, and `Handled` is what `Acknowledge` asks for. The premises of
`CompletesBeforeNext` are those of the property itself: after a missed deadline the loop
goes on by design, so that a broken replica does not block the others, and a stale copy of
a Deployment may look rolled out.

`RotationWatchProofs` proves about the command composed with the rollout, for any lag of
its events, any number of replicas and the same faults:

* `WatchInvariant`: `WatchSpec => [](TokenInv /\ WatchInv)` if the list of the Deployments
  follows the patch promptly (`Prompt`);
* `PassedRotated`: PASSED means that the old token can be given up, if moreover the replica
  list is not edited meanwhile (`MaxEdits = 0`).

The argument. The hash of a Deployment only grows, and each event was true of its
Deployment when it was sent: so an event that shows a complete rollout of a hash tells
that all its pods have loaded a token at least as new, for good (`FeedInv`, by the lemmas
about `TokenInv`). Per replica the event queue is in the order of the hashes, none older
than the one the command knows (`NewsInv`), and the line of the report is updated only by
a hash that is newer than the old one (`TimelineInv`). Attaching needs one thing more: the
old hash the command asked for is the one in the CGS, so a listed hash that differs is
newer (`AttachInv`). Without `Prompt` a new hash may be listed as the old one, and an
edited list may have replicas the command never heard of; section 3 describes both.

If moreover the cache is up to date and no deadline is missed (`~CacheLag`,
`~Deadlines`), the report is right, too:

* `WatchedRolloutCompletes`: the Deployments are updated one after the other also while
  the command runs and the Gateway is suspended and resumed (this one without `Prompt`
  and with edits of the list);
* `MixedTokensReal` (with `Prompt` and `MaxEdits = 0` again): the report speaks of mixed
  tokens only if there was another rotation, or one under way when the command attached;
* `RequesterOrder` (likewise): a command that requested the rotation never says that the
  order was violated, for any number of rotations, template changes and suspensions. One
  that attached may, see section 3.

The argument. The order in the report is that of the events, which are delivered late, so
the invariant is about the queue as well. The newest hash spreads in the order of the
list, each Deployment complete before the next is touched (`SpreadInv`, from the
invariants of `RolloutCompletesBeforeNext`). Of
every change the command still waits for there is an event, in the log or on its way
(`HeardInv`). When an event starts the timeline of a Deployment, then the timelines that
started with the same hash have ended, or end by an earlier event of the queue
(`InTurnInv`), so what is logged is in order (`LoggedInv`). `FoundInv` says where the
hashes come from that an attached command compares.

`TokenRotationProofs` proves, for any resolution of the clock, interval, triggers,
requests, deletions and faults (`ClockAssumption`, `SwitchAssumption`):

* `TimesInvariant`: no recorded time is in the future, nor later than the one a reconcile
  is about to record;
* `RotationTimeMonotone`: `lastRotatedAt` never moves back while the controller holds the
  CGS;
* `RequestRotated`: an acknowledged request was followed by a rotation, if no time
  passes between the decision and the stamp (`"decide"`, `"stamp"` not in `Slow`);
* `RotatedOnce`: in every state in which nobody has deleted the CGS, or copies of it are
  never old (`Reliable`), `RotatedOncePerCause` holds: no cause is rotated for twice
  without a fault in between, however slow the steps of a reconcile are and whatever other
  requests come when. Rotations count once the second of their cause is over (`Fresh`).

The argument. Every time that a reconcile may still write (`Stamps`: in the CGS, its cached
copies and in hand) is at most the clock, and, whatever copy a reconcile read, the time it
has in hand is at least the recorded one (`RecordInv`). A request is not repeated when a
stamp is not older than it, so every stamp that is not older than a pending request must
vouch for a rotation after it (`RequestInv`). This is where the premise comes in: a request
made between the decision and the stamp is older than the stamp of a rotation that did not
know of it. The stamp is taken right after the decision in the code, with one call to
Cloudflare in between; section 3 says what happens when a request falls there.

`RotatedOncePerCause` counts: rotations decided on the current CGS against their causes and
the faults. If a cause is rotated for again, the CGS that the reconcile knows shows an
older rotation (`CauseInv`), although the first one is recorded, or is in the hands of the
only reconcile (`Serves`); so a fault must have intervened that has not been counted yet
(`Accounted`). That what is recorded stays recorded is `CopyInv`: a copy of the CGS is only
behind, in every field that matters. Both limits are needed: section 3 has a request
in the second of its rotation, and a CGS deleted twice under a stale cache.

`ManagedDNSProofs` proves, for any Gateways, hostnames, routes, policies and faults:

* `DNSInvariant` and `NothingDangles`: no record points to the tunnel of a Gateway that is
  gone;
* `PublishedKept`: no step of a reconcile touches a record of another Gateway that has
  published its address, if no zone lookup fails (`"lookup"` not in `Faults`);
* `AppliedRecorded`: a hostname becomes reported as applied only when its record points to
  the tunnel of the Gateway, under the same premise.

The argument. A finalizer that lets go of its Gateway has deleted each record it listed,
and nothing else creates one meanwhile (`DanglingInv`). For the other two, the routes that
passed the filter want no record of another Gateway, and as reconciles are serial that
still holds at the write (`SharingInv`). A failed lookup breaks it, see section 3.

`GatewayAdmissionProofs` proves, for any number of retries, edits and faults:

* `TypeCorrect`: `Spec => []TypeOK`;
* `StatusTruthful`: a condition tells the truth about the generation it names;
* `RetriesSuffice`: a reconcile fails on Cloudflare only after an answer that is not
  transient, a deletion by somebody else, or more transient errors than there are retries.

The argument. Whether a generation is valid never changes, and a reconcile that got past
validation works on a valid one, although the Gateway may have moved on (`StatusInv`). A
retried call never counts more attempts than faults, and the answers it acts on agree with
the tunnel unless something not transient happened (`FaultInv`): also a creation whose
answer was lost, as the conflict it then meets leads to a lookup.

`ProxySessionsProofs` proves, for any proxies, hosts, backends and configurations
(`ConfigAssumption`):

* `ProxyInvariant`: `Spec => []ProxyInv`;
* `SessionsEnd`: no session outlives the absolute timeout;
* `RoutesByPrefix`: a request follows the first of the routes with the longest prefix;
* `DrainedStaysDrained`: no new request reaches a backend of weight 0;
* `SessionsStick`: sessions stay on their backend, if no two sessions of one host and name
  are nested (`NamesApart`).

The argument. The loop of `matchRoute` has a value after each route (`LoopValues`) and
keeps the first of the longest prefixes so far (`BestRoute`); both are by the least
position that would be wrong, as induction needs an operator. A cookie says when its
session began however often it was issued again, and so does a request in flight
(`JarInv`, `OpenInv`). A cookie that has to be honoured is the only one the client may send
first: two cookies sent with a path are on nested paths, and the jar has one of a name,
host and path (`OwedCookie`).

`RouteClaimsProofs` proves, for any routes, keys, names and bounds (`RouteAssumption`,
`LimitAssumption`):

* `ClaimInvariant`: `Spec => []ClaimInv`;
* `OwnerUnique`: a key has one owner in the ConfigMap;
* `ClaimsKept`: if names are unique across kinds (`DistinctNames`), a served route keeps
  its entries whatever other routes claim;
* `AcceptedServed`: a route becomes accepted only when the ConfigMap has all its keys;
* `NothingForgotten`: if names are unique across kinds, `QuietMeansSettled`: when no
  request is pending and no other Gateway interferes, statuses and ConfigMap are what the
  routes call for.

The argument. `OneOwner` is about two writes of the ConfigMap, between which routes are
filtered. Every key a route in the running wants is claimed by somebody (`ClaimedByExists`:
an owner in the ConfigMap or the first claimer, which exists because `<` is well-founded),
and a survivor of the filter has the claimer's name, so survivors that share a key share
the name (`Compatible`). An owner is its own claimer, so it survives (`OwnersRunning`).

`NothingForgotten` is about every way in which a reconcile can miss something without
being woken again. `QuietInv` says that as long as no request is pending, the reconcile in
progress has read every route as it is, except routes that do not reference the Gateway
and have no status (`UpToDate`, by the mapping of events), and that what it has decided is
reported, unless a patch failed, which it remembers (`Reported`). The step that could go
wrong is a rejection because of an entry of the ConfigMap whose owner is gone
(`Outclaimed`): writing the ConfigMap drops the entry, and so makes a request. With names
that two kinds share the property is false: a denied reference of one route is recorded by
name and reported on the other, too.

`GatewayLifecycleProofs` proves, for any classes, kinds, number of Gateways and bounds,
and any `Lags` (`ClassAssumption`, `LagAssumption`, `BoundAssumption`,
`KindAssumption`, `UIDAssumption`):

* `TypeCorrect`: `Spec => []TypeOK`;
* `KeepInvariant`: `Spec => []KeepInv`;
* `NoLeakedTunnel`: a tunnel belongs to a Gateway that has the finalizer, or was left
  behind on purpose;
* `HoldInvariant`: `Spec => []HoldInv`;
* `ConnectorsFirst`, `LeftForGood`, `ClassHeld`, `AllReleased`: `ConnectorsHaveTunnel`,
  `LeftUnowned`, `ClassOutlivesTunnel` and `FinalizersReleased` in behaviours whose reads
  wait for the informers (`~lagging`). The first three theorems are for caches as stale as
  they like.

The argument. `TunnelKept` relates the tunnel to the real Gateway, while every decision is
made on a cached one. A reconcile goes on to the tunnel only if its copy has the
finalizer, and only a finalization takes the finalizer away; as reconciles are serial,
the real Gateway still has it (`rec.pc \in Working`). The delicate case is a finalization
that runs again on the copy of a Gateway that is already gone: its patch has no lock, so
it would take the finalizer from a Gateway re-created under the name. It does not,
because the new Gateway gets its finalizer only from a reconcile that has seen it, and
then the cache no longer holds the old one (the conjuncts about `cache.gw`). And at the
patch the tunnel is deleted or left on purpose (`Cleaned`).

`HoldInv` says what a reconcile relies on from its earlier steps, one part per property.
`OwnerInv`: the kinds `removeOwnerReferences` has visited are not the Gateway's any more,
and nothing gives them back, because an apply works for a Gateway with the finalizer and
one left behind has none. `ConnectorInv`: the Deployment is gone from the poll until the
tunnel is deleted. `ClassInv`: `ensureGatewayClassFinalizer` takes the finalizer from other
classes only, and holds the class of the tunnel from before the tunnel is ensured; the
step that takes it from all classes never meets a live Gateway that has a tunnel.
`ReleaseInv`: classes and CGS carry the finalizer only while the Gateway does, or were left
behind. The steps of a reconcile are summarised first (`ReconcileFacts` to
`RemoveFinalizerFacts`), and all steps of users, Kubernetes, the other controller and
faults by one relation, `Outside`: they remove but never add a hold, and a class with the
finalizer stays. `KeepInv` supplies that the cached Gateway of a reconcile is the real one
where it matters.

Only proved: `MixedTokensReal`, as a run with two rotations and a command adds nothing
else. Only model-checked: all liveness (fairness and ENABLED are beyond the prover), and
`RotatedOncePerCause` after one deletion of the CGS with a stale cache, which
`rotation_safety` has and `RotatedOnce` excludes: with a second deletion it is false. Every
other safety property of the passing runs is a theorem, under the premises given above. The
inductive invariants `KeepInv`, `HoldInv`, `QuietInv`, `WatchInv`, `AlarmInv`, `RecordInv`,
`RequestInv`, `CauseInv`, `DanglingInv`, `SharingInv`, `StatusInv`, `FaultInv` and
`ProxyInv` are proved and not listed in a run; `TypeOK` of `TunnelRollout` and
`RouteClaims` is part of `TokenInv` and `ClaimInv`.

## 5. Not modelled

Not modelled: the preflight checks (they read files of the image once), the embedded
`cloudflared` (wiring of a library), the test commands, charts, generated code, RBAC
objects, event texts and logging. They hold no state the properties depend on. Left out of
modelled parts, as the sections above say: the search of `binarySearchPreviousTrigger`
over a cron expression (its result is modelled), the map of namespace labels, the cleanup
of stale VPAs (it has the shape of that of Deployments), back-off times and paging of the
Cloudflare client, `--wait` of the CLI and its listings.
