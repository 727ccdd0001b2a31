------------------------- MODULE RotationWatchProofs -------------------------
(***************************************************************************)
(* What the verdicts of the watch command are worth, for any number of     *)
(* replicas and rotations and any lag of the events: PASSED first, then    *)
(* those that blame the controller.                                        *)
(***************************************************************************)
EXTENDS RotationWatch, TunnelRolloutProofs

USE WatchAssumption

\* What the command relies on in every step of the system, its own included:
\* tokens only get newer, a Deployment keeps its hash or gets the newest one,
\* and a pod keeps its token or has just loaded the Secret's.
Advance ==
    /\ token <= token' /\ secret <= secret'
    /\ cgs.hash <= token => cgs'.hash <= token'
    /\ \A i \in Replica :
        /\ Exists(dep'[i]) => \/ Exists(dep[i]) /\ dep'[i].hash = dep[i].hash
                              \/ dep'[i].hash = token'
        /\ \A p \in pods'[i] : p.tok = secret \/ \E q \in pods[i] : q.tok = p.tok

-----------------------------------------------------------------------------
(* The system seen by the command.                                         *)

\* A step that leaves the cluster and the tokens alone is an advance.
LEMMA QuietAdvances ==
    ASSUME TokenInv, UNCHANGED <<token, secret, dep, pods>>,
           cgs'.hash = cgs.hash \/ cgs'.hash = token
    PROVE  Advance
BY DEF Advance, TokenInv, TypeOK

\* Kubernetes changes the pods and the status of one Deployment.
LEMMA PodsAdvance ==
    ASSUME TokenInv, NEW i \in Replica,
           StartRollout(i) \/ PodBecomesReady(i) \/ RetireOldPod(i) \/ RestartPod(i)
    PROVE  Advance
<1>1. PICK ps \in SUBSET Pod :
        /\ IsFiniteSet(ps)
        /\ pods' = [pods EXCEPT ![i] = ps]
        /\ dep' = dep \/ dep' = [dep EXCEPT ![i] = Observed(dep[i], ps)]
        /\ \A p \in ps : p.tok = secret \/ \E q \in pods[i] : q.tok = p.tok
  BY PodStep DEF TokenInv
<1>2. UNCHANGED <<token, secret, cgs>>
  BY PodStep DEF TokenInv
<1>3. /\ dep \in [Replica -> Deployment] /\ pods \in [Replica -> SUBSET Pod]
      /\ token \in Nat /\ secret \in Nat
  BY DEF TokenInv, TypeOK
<1>4. /\ Observed(dep[i], ps).hash = dep[i].hash
      /\ Observed(dep[i], ps).gen = dep[i].gen
  BY <1>1, <1>3, ObservedType
<1>5. \A k \in Replica : dep'[k].hash = dep[k].hash /\ dep'[k].gen = dep[k].gen
  BY <1>1, <1>3, <1>4
<1>6. \A k \in Replica : \A p \in pods'[k] :
        p.tok = secret \/ \E q \in pods[k] : q.tok = p.tok
  BY <1>1, <1>3
<1> QED BY <1>2, <1>3, <1>5, <1>6 DEF Advance, Exists

\* The controller applies the newest token.
LEMMA ApplyAdvances ==
    ASSUME TokenInv, NEW i \in Replica, applyTunnelDeployment(i)
    PROVE  Advance
<1>1. /\ dep \in [Replica -> Deployment] /\ rec.hash = token /\ TypeOK
      /\ token \in Nat /\ secret \in Nat /\ dep[i].obs <= dep[i].gen
  BY DEF applyTunnelDeployment, TokenInv, TypeOK, TokenOrder, Stored, ObservedInOrder
<1>2. Applied(dep[i]).hash = token
  BY <1>1, AppliedType
<1>3. /\ dep' = dep \/ dep' = [dep EXCEPT ![i] = Applied(dep[i])]
      /\ UNCHANGED <<token, secret, cgs, pods>>
  BY DEF applyTunnelDeployment
<1>4. \A k \in Replica : dep'[k] = dep[k] \/ dep'[k].hash = token
  BY <1>1, <1>2, <1>3
<1> QED BY <1>1, <1>3, <1>4 DEF Advance

\* The controller deletes Deployments with their pods.
LEMMA CleanupAdvances ==
    ASSUME TokenInv, NEW failed \in SUBSET Replica, cleanupStaleTunnelResources(failed)
    PROVE  Advance
<1>1. PICK gone \in SUBSET Replica :
        /\ dep' = [k \in Replica |-> IF k \in gone THEN Absent ELSE dep[k]]
        /\ pods' = [k \in Replica |-> IF k \in gone THEN {} ELSE pods[k]]
  BY DEF cleanupStaleTunnelResources
<1>2. UNCHANGED <<token, secret, cgs>> /\ token \in Nat /\ secret \in Nat
  BY DEF cleanupStaleTunnelResources, TokenInv, TypeOK
<1>3. \A k \in Replica : /\ Exists(dep'[k]) => dep'[k] = dep[k]
                         /\ pods'[k] \subseteq pods[k]
  BY <1>1 DEF Exists, Absent
<1> QED BY <1>2, <1>3 DEF Advance

\* Every step of the rollout is an advance.
LEMMA NextAdvances ==
    ASSUME TokenInv, Next
    PROVE  Advance
<1>1. ASSUME NEW i \in Replica,
             StartRollout(i) \/ PodBecomesReady(i) \/ RetireOldPod(i) \/ RestartPod(i)
      PROVE  Advance
  BY <1>1, PodsAdvance
<1>2. ASSUME NEW i \in Replica, applyTunnelDeployment(i) PROVE Advance
  BY <1>2, ApplyAdvances
<1>3. ASSUME NEW failed \in SUBSET Replica, cleanupStaleTunnelResources(failed)
      PROVE  Advance
  BY <1>3, CleanupAdvances
<1>4. ASSUME NEW i \in Replica, DeadlineExceeded(i) PROVE Advance
  <2>1. dep' = [dep EXCEPT ![i].prog = "failed"] /\ UNCHANGED <<token, secret, cgs, pods>>
    BY <1>4 DEF DeadlineExceeded
  <2>2. \A k \in Replica : dep'[k].hash = dep[k].hash /\ dep'[k].gen = dep[k].gen
    BY <2>1 DEF TokenInv, TypeOK, Deployment
  <2> QED BY <2>1, <2>2 DEF Advance, Exists, TokenInv, TypeOK
<1>5. CASE maybeRotateToken
  BY <1>5 DEF maybeRotateToken, cluster, Advance, TokenInv, TypeOK
<1>6. CASE WriteTokenSecret
  BY <1>6 DEF WriteTokenSecret, cluster, Advance, TokenInv, TypeOK, TokenOrder
<1>7. CASE patchCGSTokenHash \/ reconcileCGS
  <2>1. rec.hash = token
    BY <1>7 DEF patchCGSTokenHash, reconcileCGS, TokenInv, TokenOrder, Stored
  <2>2. cgs'.hash = cgs.hash \/ cgs'.hash = token
    <3>1. CASE patchCGSTokenHash
      BY <2>1, <3>1 DEF patchCGSTokenHash, TokenInv, TypeOK
    <3>2. CASE reconcileCGS
      BY <2>1, <3>2 DEF reconcileCGS
    <3> QED BY <1>7, <3>1, <3>2
  <2>3. UNCHANGED <<token, secret, dep, pods>>
    BY <1>7 DEF patchCGSTokenHash, reconcileCGS, cluster
  <2> QED BY <2>2, <2>3, QuietAdvances
<1>8. CASE User
  BY <1>8, QuietAdvances DEF User, PublishTemplate, EditReplicas, RequestRotation,
     CronTrigger, Requeue, cluster
<1>9. CASE \/ StartReconcile \/ ApplyNothing \/ checkAllDeploymentsReadiness
           \/ patchGatewayStatus \/ NonFatalError \/ Abort \/ \E i \in Replica : SyncCache(i)
  BY <1>9, QuietAdvances DEF StartReconcile, ApplyNothing, checkAllDeploymentsReadiness,
     patchGatewayStatus, NonFatalError, Abort, SyncCache, cluster
<1> QED BY <1>1, <1>2, <1>3, <1>4, <1>5, <1>6, <1>7, <1>8, <1>9
        DEF Next, Reconcile, Kubernetes

\* A request for a rotation and a wake-up leave the token bookkeeping intact.
LEMMA RequestKeeps ==
    ASSUME TokenInv, req' \in {req, token}, queued' \in BOOLEAN,
           used' \in [templates : Nat, rotations : Nat, edits : Nat, faults : Nat],
           UNCHANGED <<want, tmpl, cron, token, secret, cgs, cluster, rec, ready>>
    PROVE  TokenInv'
<1>1. TypeOK' /\ FinitePods'
  BY DEF TokenInv, TypeOK, FinitePods, cluster
<1>2. TokenOrder' /\ PodsLoadNewerToken' /\ ObservedInOrder'
  BY <1>1 DEF TokenInv, TypeOK, TokenOrder, PodsLoadNewerToken, ObservedInOrder, Stored, cluster
<1>3. RolledOutMeansLoaded' /\ ReadyMeansLoaded'
  BY DEF TokenInv, RolledOutMeansLoaded, ReadyMeansLoaded, isDeploymentRolledOut, cluster
<1>4. RequestServed' /\ UnannouncedIsDue'
  BY <1>1, <1>2 DEF TokenInv, TypeOK, TokenOrder, RequestServed, UnannouncedIsDue, Due
<1>5. HashAnnouncedFirst' /\ DoneReplicas'
  BY DEF TokenInv, HashAnnouncedFirst, DoneReplicas, Exists, cluster
<1> QED BY <1>1, <1>2, <1>3, <1>4, <1>5 DEF TokenInv

\* The steps of the watched system, and those of the command.
LEMMA WatchAdvances ==
    ASSUME TokenInv, [WatchNext]_watchVars
    PROVE  TokenInv' /\ Advance
<1>0. /\ req \in Nat /\ token \in Nat /\ queued \in BOOLEAN /\ cgs.hash \in Nat
      /\ used \in [templates : Nat, rotations : Nat, edits : Nat, faults : Nat]
  BY DEF TokenInv, TypeOK
<1> DEFINE Rest == UNCHANGED <<want, tmpl, cron, token, secret, cgs, cluster, rec, ready>>
<1>1. CASE Next
  BY <1>1, NextInv, NextAdvances
<1>2. ASSUME Rest, req' \in {req, token}, queued' \in BOOLEAN,
             used' = used \/ used' = [used EXCEPT !.rotations = @ + 1]
      PROVE  TokenInv' /\ Advance
  <2>1. used' \in [templates : Nat, rotations : Nat, edits : Nat, faults : Nat]
    BY <1>0, <1>2
  <2> QED BY <1>2, <2>1, RequestKeeps, QuietAdvances DEF cluster
<1>3. CASE SkipReconcile \/ Toggle \/ (\E mode \in {"rotate", "attach"} : ReadCGS(mode))
  BY <1>0, <1>2, <1>3 DEF SkipReconcile, Toggle, ReadCGS, inputs
<1>4. CASE SyncAndPatch \/ UNCHANGED vars
  BY <1>0, <1>2, <1>4 DEF SyncAndPatch, vars, cluster
<1>5. CASE \/ (\E i \in Replica : GetDeployment(i)) \/ CheckSuspended \/ SyncAttach
           \/ ListDeployments \/ DeploymentEvent \/ handleGatewayUpdate \/ Report \/ Timeout
  BY <1>4, <1>5 DEF GetDeployment, CheckSuspended, SyncAttach, ListDeployments,
     DeploymentEvent, handleGatewayUpdate, Report, Timeout
<1>6. CASE UNCHANGED watchVars
  BY <1>4, <1>6 DEF watchVars, vars
<1> QED BY <1>1, <1>3, <1>4, <1>5, <1>6 DEF WatchNext, Command

-----------------------------------------------------------------------------
(* What stays true while the command looks elsewhere.                      *)

\* The command and the controller agree on when a rollout is complete, so what
\* the command sees of a Deployment tells the truth about its pods.
LEMMA GlanceFacts ==
    ASSUME TokenInv, NEW i \in Replica
    PROVE  /\ Glance(dep[i]) \in [hash : Nat, out : BOOLEAN]
           /\ Glance(dep[i]).hash = dep[i].hash /\ dep[i].hash <= secret
           /\ Glance(dep[i]).out => Loaded(i, dep[i].hash)
<1>1. dep[i] \in Deployment
  BY DEF TokenInv, TypeOK
<1>2. isWatchDeploymentRolledOut(dep[i]) = isDeploymentRolledOut(dep[i])
  BY DEF isWatchDeploymentRolledOut, isDeploymentRolledOut, desiredReplicas
<1>3. isWatchDeploymentRolledOut(dep[i]) \in BOOLEAN
  BY <1>1 DEF isWatchDeploymentRolledOut, Deployment
<1>4. dep[i].hash \in Nat /\ dep[i].hash <= secret
  BY <1>1 DEF TokenInv, TokenOrder, Deployment
<1>5. isDeploymentRolledOut(dep[i]) => Loaded(i, dep[i].hash)
  BY <1>4 DEF TokenInv, RolledOutMeansLoaded, Loaded
<1> QED BY <1>2, <1>3, <1>4, <1>5 DEF Glance

\* A step keeps the pods of i on token h or a newer one.
Kept(i, h) == h <= secret' /\ \A p \in pods'[i] : h <= p.tok

\* A pod never goes back to an older token.
LEMMA LoadedStays ==
    ASSUME TokenInv, TokenInv', Advance, NEW i \in Replica, NEW h \in Nat, Loaded(i, h)
    PROVE  Kept(i, h)
<1>1. h <= secret /\ secret \in Nat /\ secret' \in Nat /\ pods[i] \subseteq Pod
  BY DEF Loaded, TokenInv, TypeOK
<1>2. h <= secret'
  BY <1>1 DEF Advance
<1>3. ASSUME NEW p \in pods'[i] PROVE h <= p.tok
  BY <1>1, <1>3 DEF Advance, Loaded
<1> QED BY <1>2, <1>3 DEF Kept

\* A loaded token covers the older ones.
LEMMA LoadedOlder ==
    ASSUME TokenInv, NEW i \in Replica, NEW h \in Nat, NEW g \in Nat, g <= h, Loaded(i, h)
    PROVE  Loaded(i, g)
BY DEF Loaded, TokenInv, TypeOK, Pod

\* No token of the past is announced while the command runs.
LEMMA StartStays ==
    ASSUME TokenInv, TokenInv', Advance, WatchTypeOK, StartInv,
           \/ cli'.start = cli.start /\ (cli.pc = "start" => cli'.pc = "start")
           \/ cli'.start = cgs.hash
    PROVE  StartInv'
<1>1. /\ token \in Nat /\ token' \in Nat /\ cgs.hash \in Nat /\ cli.start \in Nat
  BY DEF TokenInv, TypeOK, WatchTypeOK, Watcher
<1>2. token <= token' /\ cgs'.hash <= token'
  BY DEF Advance, StartInv
<1>3. cli'.pc # "start" => cli'.start <= token'
  BY <1>1, <1>2 DEF StartInv
<1> QED BY <1>2, <1>3 DEF StartInv

\* An event keeps telling the truth.
LEMMA EventStays ==
    ASSUME TokenInv, TokenInv', Advance, NEW e \in Event, e.hash <= secret,
           Exists(dep[e.rep]) => e.hash <= dep[e.rep].hash,
           e.out => Loaded(e.rep, e.hash)
    PROVE  /\ e.hash <= secret'
           /\ Exists(dep'[e.rep]) => e.hash <= dep'[e.rep].hash
           /\ e.out => Kept(e.rep, e.hash)
<1>1. /\ e.rep \in Replica /\ e.hash \in Nat /\ secret \in Nat /\ secret' \in Nat
      /\ token \in Nat /\ token' \in Nat /\ secret' <= token'
  BY DEF Event, TokenInv, TypeOK, TokenOrder
<1>2. e.hash <= secret'
  BY <1>1 DEF Advance
<1>3. Exists(dep'[e.rep]) => e.hash <= dep'[e.rep].hash
  BY <1>1, <1>2 DEF Advance
<1>4. e.out => Kept(e.rep, e.hash)
  BY <1>1, LoadedStays
<1> QED BY <1>2, <1>3, <1>4

\* The events the command has not handled keep telling the truth.
LEMMA FeedStays ==
    ASSUME TokenInv, TokenInv', Advance, WatchTypeOK, FeedInv, feed' = feed,
           Listening' \/ feed = <<>>
    PROVE  FeedInv'
<1>1. ASSUME NEW j \in DOMAIN feed
      PROVE  /\ feed[j].hash <= secret'
             /\ Exists(dep'[feed[j].rep]) => feed[j].hash <= dep'[feed[j].rep].hash
             /\ feed[j].out => Kept(feed[j].rep, feed[j].hash)
  <2>1. feed[j] \in Event
    BY DEF WatchTypeOK
  <2> QED BY <2>1, EventStays DEF FeedInv
<1>2. \A j, k \in DOMAIN feed :
        j < k /\ feed[k].rep = feed[j].rep => feed[j].hash <= feed[k].hash
  BY DEF FeedInv
<1> QED BY <1>1, <1>2 DEF FeedInv, Loaded, Kept, Listening

\* Hashes the command has not seen stay new enough.
LEMMA NewsStays ==
    ASSUME TokenInv, TokenInv', Advance, WatchTypeOK, StartInv, NewsInv,
           UNCHANGED <<cli, feed>>
    PROVE  NewsInv'
<1> SUFFICES ASSUME Listening, NEW i \in Replica
             PROVE  /\ Floor(i) <= secret'
                    /\ Exists(dep'[i]) => /\ Floor(i) <= dep'[i].hash
                                          /\ dep'[i].hash = Base(i) \/ cli.start <= dep'[i].hash
                    /\ \A j \in DOMAIN feed : feed[j].rep = i =>
                        /\ Floor(i) <= feed[j].hash
                        /\ feed[j].hash = Base(i) \/ cli.start <= feed[j].hash
  BY DEF NewsInv, Listening, Floor, Base
<1>1. /\ secret \in Nat /\ secret' \in Nat /\ token \in Nat /\ token' \in Nat
      /\ secret' <= token' /\ Floor(i) \in Nat /\ cli.start \in Nat
  BY DEF TokenInv, TypeOK, TokenOrder, WatchTypeOK, Watcher, Line, Floor
<1>2. cli.start <= token'
  BY <1>1 DEF StartInv, Listening, Advance
<1>3. Floor(i) <= secret'
  BY <1>1 DEF NewsInv, Advance
<1>4. Exists(dep'[i]) => /\ Floor(i) <= dep'[i].hash
                         /\ dep'[i].hash = Base(i) \/ cli.start <= dep'[i].hash
  BY <1>1, <1>2, <1>3 DEF NewsInv, Advance
<1> QED BY <1>3, <1>4 DEF NewsInv

\* A rolled out Deployment stays on its token.
LEMMA TimelineStays ==
    ASSUME TokenInv, TokenInv', Advance, WatchTypeOK, TimelineInv, UNCHANGED cli
    PROVE  TimelineInv'
<1>1. ASSUME NEW i \in Replica
      PROVE  /\ cli.view[i].hash \in Nat /\ cli.at[i].hash \in Nat /\ cli.start + 1 \in Nat
  BY DEF WatchTypeOK, Watcher, Line
<1>2. \A i \in Replica : /\ Loaded(i, cli.view[i].hash) => Kept(i, cli.view[i].hash)
                         /\ Loaded(i, cli.at[i].hash) => Kept(i, cli.at[i].hash)
                         /\ Loaded(i, cli.start + 1) => Kept(i, cli.start + 1)
  BY <1>1, LoadedStays
<1>3. cli.checked \subseteq Replica
  BY DEF WatchTypeOK, Watcher
<1> QED BY <1>2, <1>3 DEF TimelineInv, Loaded, Kept

-----------------------------------------------------------------------------
(* A step of the system, watched.                                          *)

\* The event for a change of a Deployment is the newest one about it, and the
\* hash it carries is as good as that of the Deployment.
LEMMA AppendStep ==
    ASSUME TokenInv, TokenInv', Advance, WatchTypeOK, StartInv, FeedInv, NewsInv,
           Listening, UNCHANGED cli, NEW i \in Replica, NEW e \in Event,
           e.rep = i, Exists(dep'[i]), e.hash = dep'[i].hash,
           e.out = isWatchDeploymentRolledOut(dep'[i]), feed' = Append(feed, e)
    PROVE  feed' \in Seq(Event) /\ FeedInv' /\ NewsInv'
<1> DEFINE n == Len(feed)
<1>1. /\ feed \in Seq(Event) /\ n \in Nat /\ DOMAIN feed = 1..n
      /\ feed' \in Seq(Event) /\ DOMAIN feed' = 1..(n + 1) /\ feed'[n + 1] = e
      /\ \A j \in 1..n : feed'[j] = feed[j] /\ feed[j] \in Event
  BY DEF WatchTypeOK
<1>2. /\ secret' \in Nat /\ token' \in Nat /\ secret' <= token' /\ e.hash <= secret'
      /\ dep'[i] \in Deployment /\ e.hash \in Nat
  BY DEF TokenInv, TypeOK, TokenOrder, Event
<1>3. e.out => Kept(i, e.hash)
  BY DEF isWatchDeploymentRolledOut, isDeploymentRolledOut, desiredReplicas,
         TokenInv, TokenOrder, RolledOutMeansLoaded, Kept
<1>4. ASSUME NEW j \in 1..n
      PROVE  /\ feed[j].hash <= secret'
             /\ Exists(dep'[feed[j].rep]) => feed[j].hash <= dep'[feed[j].rep].hash
             /\ feed[j].out => Kept(feed[j].rep, feed[j].hash)
             /\ \A k \in 1..n :
                  j < k /\ feed[k].rep = feed[j].rep => feed[j].hash <= feed[k].hash
  BY <1>1, EventStays DEF FeedInv
<1>5. FeedInv'
  <2>1. Listening'
    BY DEF Listening
  <2> SUFFICES ASSUME NEW j \in 1..(n + 1)
               PROVE  /\ feed'[j].hash <= secret'
                      /\ Exists(dep'[feed'[j].rep]) => feed'[j].hash <= dep'[feed'[j].rep].hash
                      /\ feed'[j].out => Kept(feed'[j].rep, feed'[j].hash)
                      /\ \A k \in 1..(n + 1) : j < k /\ feed'[k].rep = feed'[j].rep
                                                => feed'[j].hash <= feed'[k].hash
    BY <1>1, <2>1 DEF FeedInv, Loaded, Kept
  <2>2. CASE j = n + 1
    BY <1>1, <1>2, <1>3, <2>2
  <2>3. CASE j \in 1..n
    <3>1. ASSUME NEW k \in 1..(n + 1), j < k, feed'[k].rep = feed'[j].rep
          PROVE  feed'[j].hash <= feed'[k].hash
      <4>1. CASE k = n + 1
        BY <1>1, <1>4, <2>3, <3>1, <4>1
      <4>2. CASE k \in 1..n
        BY <1>1, <1>4, <2>3, <3>1, <4>2
      <4> QED BY <1>1, <4>1, <4>2
    <3> QED BY <1>1, <1>4, <2>3, <3>1
  <2> QED BY <1>1, <2>2, <2>3
<1>6. NewsInv'
  <2> SUFFICES ASSUME NEW k \in Replica
               PROVE  /\ Floor(k) <= secret'
                      /\ Exists(dep'[k]) => /\ Floor(k) <= dep'[k].hash
                                            /\ dep'[k].hash = Base(k) \/ cli.start <= dep'[k].hash
                      /\ \A j \in 1..(n + 1) : feed'[j].rep = k =>
                          /\ Floor(k) <= feed'[j].hash
                          /\ feed'[j].hash = Base(k) \/ cli.start <= feed'[j].hash
    BY <1>1 DEF NewsInv, Listening, Floor, Base
  <2>1. /\ secret \in Nat /\ token \in Nat /\ Floor(k) \in Nat /\ cli.start \in Nat
    BY DEF TokenInv, TypeOK, WatchTypeOK, Watcher, Line, Floor
  <2>2. cli.start <= token'
    BY <1>2, <2>1 DEF StartInv, Listening, Advance
  <2>3. Floor(k) <= secret'
    BY <1>2, <2>1 DEF NewsInv, Advance
  <2>4. Exists(dep'[k]) => /\ Floor(k) <= dep'[k].hash
                           /\ dep'[k].hash = Base(k) \/ cli.start <= dep'[k].hash
    BY <1>2, <2>1, <2>2, <2>3 DEF NewsInv, Advance
  <2>5. ASSUME NEW j \in 1..(n + 1), feed'[j].rep = k
        PROVE  /\ Floor(k) <= feed'[j].hash
               /\ feed'[j].hash = Base(k) \/ cli.start <= feed'[j].hash
    <3>1. CASE j = n + 1
      BY <1>1, <2>4, <2>5, <3>1
    <3>2. CASE j \in 1..n
      BY <1>1, <2>5, <3>2 DEF NewsInv
    <3> QED BY <1>1, <3>1, <3>2
  <2> QED BY <2>3, <2>4, <2>5
<1> QED BY <1>1, <1>5, <1>6

\* The system moves, and the command takes note of at most one event.
LEMMA WatchedStep ==
    ASSUME TokenInv, TokenInv', Advance, WatchInv, Watched
    PROVE  WatchInv'
<1>1. /\ UNCHANGED <<cli, pause>> /\ WatchTypeOK /\ StartInv /\ FeedInv /\ NewsInv
      /\ CommandInv /\ TimelineInv
  BY DEF WatchInv, Watched
<1>2. StartInv' /\ TimelineInv' /\ CommandInv'
  BY <1>1, StartStays, TimelineStays DEF CommandInv
<1>3. feed' \in Seq(Event) /\ FeedInv' /\ NewsInv'
  <2>1. CASE feed' = feed
    <3>1. feed \in Seq(Event) /\ (Listening' \/ feed = <<>>)
      BY <1>1 DEF WatchTypeOK, FeedInv, Listening
    <3> QED BY <1>1, <2>1, <3>1, FeedStays, NewsStays
  <2>2. CASE feed' # feed
    <3>1. PICK i \in Replica :
            /\ Listening /\ Exists(dep'[i])
            /\ feed' = Append(feed, [rep |-> i, hash |-> dep'[i].hash,
                                     out |-> Glance(dep'[i]).out])
      BY <2>2 DEF Watched, Deliver
    <3> DEFINE e == [rep |-> i, hash |-> dep'[i].hash, out |-> Glance(dep'[i]).out]
    <3>2. dep'[i] \in Deployment
      BY DEF TokenInv, TypeOK
    <3>3. e.out = isWatchDeploymentRolledOut(dep'[i]) /\ e.rep = i /\ e.hash = dep'[i].hash
      BY DEF Glance
    <3>4. e \in Event
      BY <3>2, <3>3 DEF Event, Deployment, isWatchDeploymentRolledOut
    <3> HIDE DEF e
    <3> QED BY <1>1, <3>1, <3>3, <3>4, AppendStep DEF e
  <2> QED BY <2>1, <2>2
<1>4. WatchTypeOK'
  BY <1>1, <1>3 DEF WatchTypeOK
<1> QED BY <1>2, <1>3, <1>4 DEF WatchInv

-----------------------------------------------------------------------------
(* The command up to the event loop, and its end.                          *)

\* What is kept of a command that has ended.
LEMMA EndedType ==
    ASSUME TokenInv, WatchTypeOK, NEW c \in Watcher, NEW r \in Verdicts
    PROVE  /\ Ended(c, r) \in Watcher
           /\ Ended(c, r).pc = "ended" /\ Ended(c, r).result = r
           /\ Ended(c, r).mode = c.mode /\ Ended(c, r).start = c.start
           /\ Ended(c, r).checked = rolledOut(c)
<1>1. NotStarted \in Watcher
  <2>1. GatewayNow \in [ready : {"True", "False", "Unknown"}, off : BOOLEAN, req : Nat]
    BY DEF GatewayNow, TokenInv, TypeOK, WatchTypeOK
  <2>2. Unseen \in [Replica -> [hash : Nat, out : BOOLEAN]]
    BY DEF Unseen, Glance, Absent, isWatchDeploymentRolledOut
  <2>3. [i \in Replica |-> NoTimeline] \in [Replica -> Line]
    BY DEF NoTimeline, Line
  <2> QED BY <2>1, <2>2, <2>3 DEF NotStarted, Watcher, Verdicts
<1>2. rolledOut(c) \in SUBSET Replica
  BY DEF rolledOut
<1>3. [ready |-> "Unknown", off |-> FALSE, req |-> 0] \in
        [ready : {"True", "False", "Unknown"}, off : BOOLEAN, req : Nat]
  OBVIOUS
<1> QED BY <1>1, <1>2, <1>3 DEF Ended, Watcher

\* PASSED is the only verdict that claims something.
LEMMA EndStep ==
    ASSUME TokenInv, TokenInv', Advance, WatchInv, UNCHANGED pause,
           NEW c \in Watcher, NEW r \in Verdicts, cli' = Ended(c, r), feed' = <<>>,
           c.start = cgs.hash \/ (cli.pc # "start" /\ c.start = cli.start),
           r = "passed" /\ c.mode = "rotate" =>
             \A i \in rolledOut(c) : Loaded(i, c.start + 1)
    PROVE  WatchInv'
<1>1. /\ cli' \in Watcher /\ cli'.pc = "ended" /\ cli'.result = r /\ cli'.mode = c.mode
      /\ cli'.start = c.start /\ cli'.checked = rolledOut(c)
  BY EndedType DEF WatchInv
<1>2. WatchTypeOK' /\ ~Listening'
  BY <1>1 DEF WatchInv, WatchTypeOK, Listening
<1>3. StartInv'
  BY <1>1, StartStays DEF WatchInv
<1>4. FeedInv' /\ NewsInv' /\ CommandInv'
  BY <1>1, <1>2 DEF FeedInv, NewsInv, CommandInv
<1>5. ASSUME r = "passed", c.mode = "rotate", NEW i \in rolledOut(c)
      PROVE  Kept(i, c.start + 1)
  <2>1. i \in Replica /\ c.start + 1 \in Nat
    BY DEF rolledOut, Watcher
  <2> QED BY <1>5, <2>1, LoadedStays
<1>6. TimelineInv'
  BY <1>1, <1>5 DEF TimelineInv, Loaded, Kept
<1> QED BY <1>2, <1>3, <1>4, <1>6 DEF WatchInv

\* Until the informers run, the command only collects what it needs.
LEMMA EarlyStep ==
    ASSUME TokenInv, TokenInv', Advance, WatchInv, UNCHANGED <<pause, feed>>,
           ~Listening, cli' \in Watcher, cli'.pc \in {"get", "check", "sync"}, CommandInv',
           cli'.start = cgs.hash \/ (cli.pc # "start" /\ cli'.start = cli.start)
    PROVE  WatchInv'
<1>1. ~Listening' /\ feed = <<>> /\ cli'.result = "none"
  BY DEF Listening, WatchInv, FeedInv, CommandInv
<1>2. WatchTypeOK' /\ FeedInv' /\ NewsInv' /\ TimelineInv'
  BY <1>1 DEF WatchInv, WatchTypeOK, FeedInv, NewsInv, TimelineInv
<1>3. StartInv'
  BY StartStays DEF WatchInv
<1> QED BY <1>2, <1>3 DEF WatchInv

\* The command reads the CGS.
LEMMA ReadStep ==
    ASSUME TokenInv, TokenInv', Advance, WatchInv,
           NEW mode \in {"rotate", "attach"}, ReadCGS(mode)
    PROVE  WatchInv'
<1> DEFINE c == [cli EXCEPT !.mode = mode, !.n = Cardinality(cgs.inventory),
                            !.start = cgs.hash, !.gw = GatewayNow,
                            !.todo = IF mode = "attach" THEN cgs.inventory ELSE {},
                            !.old = IF mode = "rotate" THEN cgs.hash ELSE 0]
           d == [c EXCEPT !.pc = IF mode = "attach" THEN "get" ELSE "sync"]
<1>1. /\ cli \in Watcher /\ cli.pc = "start" /\ cli.result = "none" /\ cli.pend = {}
      /\ cgs.hash \in Nat /\ cgs.inventory \in SUBSET Replica
  BY DEF ReadCGS, WatchInv, WatchTypeOK, CommandInv, TokenInv, TypeOK
<1>2. Cardinality(cgs.inventory) \in Nat
  <2>1. IsFiniteSet(Replica)
    BY FS_Interval, NAssumption DEF Replica
  <2> QED BY <1>1, <2>1, FS_Subset, FS_CardinalityType
<1>3. GatewayNow \in [ready : {"True", "False", "Unknown"}, off : BOOLEAN, req : Nat]
  BY DEF GatewayNow, TokenInv, TypeOK, WatchInv, WatchTypeOK
<1>4. /\ c \in Watcher /\ c.start = cgs.hash /\ c.mode = mode /\ c.result = "none" /\ c.pend = {}
      /\ c.old = (IF mode = "rotate" THEN cgs.hash ELSE 0)
  BY <1>1, <1>2, <1>3 DEF Watcher
<1> HIDE DEF c
<1>5. /\ d \in Watcher /\ d.start = cgs.hash /\ d.mode = mode /\ d.result = "none"
      /\ d.old = (IF mode = "rotate" THEN cgs.hash ELSE 0)
      /\ d.pc = IF mode = "attach" THEN "get" ELSE "sync"
  BY <1>4 DEF Watcher
<1>6. cli' = (IF cgs.inventory = {} THEN Ended(c, "error") ELSE d) /\ UNCHANGED <<pause, feed>>
  BY DEF ReadCGS, c
<1>7. ~Listening /\ feed = <<>>
  BY <1>1 DEF Listening, WatchInv, FeedInv
<1> HIDE DEF d
<1>8. CASE cgs.inventory = {}
  BY <1>4, <1>6, <1>7, <1>8, EndStep DEF Verdicts
<1>9. CASE cgs.inventory # {}
  <2>1. cli' = d
    BY <1>6, <1>9
  <2>2. CommandInv'
    BY <1>5, <2>1 DEF CommandInv
  <2> QED BY <1>5, <1>6, <1>7, <2>1, <2>2, EarlyStep
<1> QED BY <1>8, <1>9

\* watch gateway token compares one Deployment with the CGS.
LEMMA GetStep ==
    ASSUME TokenInv, TokenInv', Advance, WatchInv, NEW i \in Replica, GetDeployment(i)
    PROVE  WatchInv'
<1> DEFINE pending == dep[i].hash # cli.start
           c == [cli EXCEPT !.todo = @ \ {i},
                            !.pend = IF pending THEN @ \cup {dep[i].hash} ELSE @,
                            !.old = IF pending /\ @ = 0 THEN dep[i].hash ELSE @]
           d == [c EXCEPT !.pc = "check"]
<1>1. /\ cli \in Watcher /\ cli.pc = "get" /\ cli.mode = "attach" /\ cli.result = "none"
      /\ dep[i].hash \in Nat
  BY DEF GetDeployment, WatchInv, WatchTypeOK, CommandInv, TokenInv, TypeOK, Deployment
<1>2. /\ c \in Watcher /\ c.start = cli.start /\ c.mode = "attach" /\ c.result = "none"
      /\ c.pc = "get"
  BY <1>1 DEF Watcher
<1> HIDE DEF c
<1>3. /\ d \in Watcher /\ d.start = cli.start /\ d.mode = "attach" /\ d.result = "none"
      /\ d.pc = "check"
  BY <1>2 DEF Watcher
<1>4. /\ cli' = IF ~Exists(dep[i]) THEN Ended(cli, "error")
                ELSE IF c.todo # {} THEN c
                ELSE IF c.pend = {} THEN Ended(c, "up to date") ELSE d
      /\ UNCHANGED <<pause, feed>>
  BY DEF GetDeployment, c
<1>5. ~Listening /\ feed = <<>>
  BY <1>1 DEF Listening, WatchInv, FeedInv
<1> HIDE DEF d
<1>6. ASSUME cli' = c \/ cli' = d PROVE WatchInv'
  <2>1. CommandInv'
    BY <1>2, <1>3, <1>6 DEF CommandInv
  <2> QED BY <1>1, <1>2, <1>3, <1>4, <1>5, <1>6, <2>1, EarlyStep
<1>7. ASSUME cli' = Ended(cli, "error") PROVE WatchInv'
  BY <1>1, <1>4, <1>5, <1>7, EndStep DEF Verdicts
<1>8. ASSUME cli' = Ended(c, "up to date") PROVE WatchInv'
  BY <1>1, <1>2, <1>4, <1>5, <1>8, EndStep DEF Verdicts
<1> QED BY <1>4, <1>6, <1>7, <1>8

\* A suspended Gateway ends the command.
LEMMA CheckStep ==
    ASSUME TokenInv, TokenInv', Advance, WatchInv, CheckSuspended
    PROVE  WatchInv'
<1>1. /\ cli \in Watcher /\ cli.pc = "check" /\ cli.mode = "attach" /\ cli.result = "none"
      /\ UNCHANGED <<pause, feed>>
  BY DEF CheckSuspended, WatchInv, WatchTypeOK, CommandInv
<1>2. ~Listening /\ feed = <<>>
  BY <1>1 DEF Listening, WatchInv, FeedInv
<1>3. CASE cli' = Ended(cli, "error")
  BY <1>1, <1>2, <1>3, EndStep DEF Verdicts
<1>4. CASE cli' = [cli EXCEPT !.pc = "sync"]
  <2>1. /\ cli' \in Watcher /\ cli'.pc = "sync" /\ cli'.mode = "attach" /\ cli'.result = "none"
        /\ cli'.start = cli.start
    BY <1>1, <1>4 DEF Watcher
  <2>2. CommandInv'
    BY <2>1 DEF CommandInv
  <2> QED BY <1>1, <1>2, <2>1, <2>2, EarlyStep
<1> QED BY <1>3, <1>4 DEF CheckSuspended

\* The informers show the Deployments as they are.
LEMMA SyncedStep ==
    ASSUME TokenInv, TokenInv', Advance, WatchInv, cli.pc = "sync", cli' = Synced,
           UNCHANGED <<pause, feed, token, secret, cgs, dep, pods>>
    PROVE  WatchInv'
<1>1. cli \in Watcher /\ cli.result = "none" /\ feed = <<>> /\ pause \in [on : BOOLEAN, toggles : Nat]
  BY DEF WatchInv, WatchTypeOK, CommandInv, FeedInv, Listening
<1> DEFINE view == [i \in Replica |-> Glance(dep[i])]
<1>2. /\ view \in [Replica -> [hash : Nat, out : BOOLEAN]]
      /\ \A i \in Replica : /\ view[i].hash = dep[i].hash /\ view[i].hash <= secret
                            /\ view[i].out => Loaded(i, view[i].hash)
  BY GlanceFacts
<1>3. GatewayNow \in [ready : {"True", "False", "Unknown"}, off : BOOLEAN, req : Nat]
  BY <1>1 DEF GatewayNow, TokenInv, TypeOK
<1>4. /\ cli' \in Watcher /\ cli'.pc = "list" /\ cli'.view = view
      /\ cli'.start = cli.start /\ cli'.mode = cli.mode /\ cli'.old = cli.old /\ cli'.result = "none"
  BY <1>1, <1>2, <1>3 DEF Synced, Watcher, TokenInv, TypeOK
<1>5. WatchTypeOK' /\ FeedInv'
  BY <1>1, <1>4 DEF WatchTypeOK, FeedInv, Listening
<1>6. StartInv' /\ CommandInv'
  BY <1>4 DEF WatchInv, StartInv, CommandInv
<1> HIDE DEF view
<1>7. ASSUME NEW i \in Replica PROVE dep[i].hash <= dep[i].hash
  BY DEF TokenInv, TypeOK, Deployment
<1>8. NewsInv'
  BY <1>1, <1>2, <1>4, <1>7 DEF NewsInv, Floor, Base
<1>9. TimelineInv'
  BY <1>2, <1>4 DEF TimelineInv, Loaded
<1> QED BY <1>5, <1>6, <1>8, <1>9 DEF WatchInv

-----------------------------------------------------------------------------
(* The event loop.                                                         *)

\* A listing is a permutation, so every listed Deployment has its place.
LEMMA PlaceType ==
    ASSUME NEW S \in SUBSET Replica, NEW s \in Listings(S), NEW i \in S
    PROVE  (CHOOSE j \in DOMAIN s : s[j] = i) \in Nat \ {0}
<1>1. IsFiniteSet(S)
  <2>1. IsFiniteSet(Replica)
    BY FS_Interval, NAssumption DEF Replica
  <2> QED BY <2>1, FS_Subset
<1> DEFINE n == Cardinality(S)
<1>2. n \in Nat
  BY <1>1, FS_CardinalityType
<1>3. s \in [1..n -> S] /\ \A a, b \in 1..n : a # b => s[a] # s[b]
  BY DEF Listings
<1>4. s \in Injection(1..n, S)
  BY <1>3 DEF Injection, IsInjective
<1>5. Cardinality(1..n) = n
  BY <1>2, FS_Interval
<1>6. s \in Surjection(1..n, S)
  BY <1>1, <1>4, <1>5, FS_Injection
<1>7. \E j \in 1..n : s[j] = i
  BY <1>6 DEF Surjection
<1> QED BY <1>2, <1>3, <1>7

\* The list is read before the cache changes: it shows what the sync has shown.
LEMMA CachedFirst ==
    ASSUME WatchTypeOK
    PROVE  Cached(0) = cli.view
<1>1. cli.view = [i \in Replica |-> cli.view[i]]
  BY DEF WatchTypeOK, Watcher
<1>2. \A i \in Replica : {j \in 1..0 : feed[j].rep = i} = {}
  OBVIOUS
<1> QED BY <1>1, <1>2 DEF Cached

\* The report has only four outcomes.
LEMMA ReportType ==
    ASSUME NEW c
    PROVE  printReport(c) \in Verdicts
BY DEF printReport, Verdicts

\* What the command knows of the Deployments it has listed.
LEMMA AdoptFacts ==
    ASSUME WatchTypeOK, NEW s \in Listings(Adopted(cli, cli.view))
    PROVE  LET c == Adopt(cli, cli.view, s) IN
           /\ c \in Watcher
           /\ c.pc = "watch" /\ c.start = cli.start /\ c.mode = cli.mode
           /\ c.old = cli.old /\ c.result = cli.result /\ c.n = cli.n
           /\ \A i \in Replica :
                /\ c.cur[i] = cli.view[i].hash
                /\ \/ c.at[i] = NoTimeline
                   \/ /\ cli.mode = "attach" /\ cli.view[i].hash # cli.old
                      /\ c.at[i].hash = cli.view[i].hash /\ c.at[i].updated # 0
                      /\ c.at[i].rolled # 0 => cli.view[i].out
<1> DEFINE updated == Adopted(cli, cli.view)
           place(i) == CHOOSE j \in DOMAIN s : s[j] = i
           cur == [i \in Replica |-> cli.view[i].hash]
           at == [i \in Replica |-> IF i \in updated THEN AdoptedLine(cli.view[i], place(i))
                                    ELSE NoTimeline]
           events == 2 * Cardinality(updated)
           all == Cardinality({i \in updated : cli.view[i].out}) = cli.n
           c == Adopt(cli, cli.view, s)
<1>1. cli \in Watcher /\ cli.view \in [Replica -> [hash : Nat, out : BOOLEAN]]
  BY DEF WatchTypeOK, Watcher
<1>2. updated \in SUBSET Replica
  BY DEF Adopted, Listed
<1>3. Cardinality(updated) \in Nat
  <2>1. IsFiniteSet(Replica)
    BY FS_Interval, NAssumption DEF Replica
  <2> QED BY <1>2, <2>1, FS_Subset, FS_CardinalityType
<1>4. \A i \in updated : cli.mode # "rotate" /\ cli.view[i].hash # cli.old
  BY DEF Adopted
<1>5. \A i \in updated : place(i) \in Nat \ {0}
  BY <1>2, PlaceType
<1> HIDE DEF updated, place
<1>6. \A i \in updated : AdoptedLine(cli.view[i], place(i)) \in Line
  BY <1>1, <1>2, <1>5 DEF AdoptedLine, Line
<1>7. at \in [Replica -> Line]
  BY <1>6 DEF NoTimeline, Line
<1>8. cur \in [Replica -> Nat]
  BY <1>1
<1>9. Unseen \in [Replica -> [hash : Nat, out : BOOLEAN]]
  BY DEF Unseen, Glance, Absent, isWatchDeploymentRolledOut
<1>10. \A i \in Replica :
         \/ at[i] = NoTimeline
         \/ /\ cli.mode = "attach" /\ cli.view[i].hash # cli.old
            /\ at[i].hash = cli.view[i].hash /\ at[i].updated # 0
            /\ at[i].rolled # 0 => cli.view[i].out
  <2>1. cli.mode \in {"rotate", "attach"}
    BY <1>1 DEF Watcher
  <2>2. ASSUME NEW i \in updated
        PROVE  /\ at[i].hash = cli.view[i].hash /\ at[i].updated # 0
               /\ at[i].rolled # 0 => cli.view[i].out
    BY <1>2, <1>5, <2>2 DEF AdoptedLine
  <2> QED BY <1>4, <2>1, <2>2
<1>11. c = [cli EXCEPT !.pc = "watch", !.view = Unseen, !.cur = cur, !.at = at,
                       !.events = events, !.all = all]
  BY DEF Adopt, updated, place
<1>12. events \in Nat /\ all \in BOOLEAN
  BY <1>3
<1> HIDE DEF cur, at, events, all, c
<1>13. /\ c \in Watcher
       /\ c.pc = "watch" /\ c.start = cli.start /\ c.mode = cli.mode
       /\ c.old = cli.old /\ c.result = cli.result /\ c.n = cli.n
       /\ c.cur = cur /\ c.at = at
  BY <1>1, <1>7, <1>8, <1>9, <1>11, <1>12 DEF Watcher
<1> QED BY <1>10, <1>13 DEF c, cur, at

\* The command starts watching from what it has listed.
LEMMA ListStep ==
    ASSUME Prompt, TokenInv, TokenInv', Advance, WatchInv, ListDeployments
    PROVE  WatchInv'
<1>1. /\ cli \in Watcher /\ cli.pc = "list" /\ Cached(0) = cli.view /\ WatchTypeOK
      /\ cli.result = "none" /\ Listening /\ UNCHANGED <<vars, pause>>
  BY CachedFirst DEF ListDeployments, WatchInv, WatchTypeOK, CommandInv, Listening
<1>2. PICK s \in Listings(Adopted(cli, cli.view)) :
        \/ cli' = Ended(cli, "error")
        \/ cli' = Ended(Adopt(cli, cli.view, s), printReport(Adopt(cli, cli.view, s)))
        \/ cli' = Adopt(cli, cli.view, s)
  BY <1>1 DEF ListDeployments
<1> DEFINE c == Adopt(cli, cli.view, s)
<1>3. /\ c \in Watcher
      /\ c.pc = "watch" /\ c.start = cli.start /\ c.mode = cli.mode
      /\ c.old = cli.old /\ c.result = cli.result /\ c.n = cli.n
      /\ \A i \in Replica :
           /\ c.cur[i] = cli.view[i].hash
           /\ \/ c.at[i] = NoTimeline
              \/ /\ cli.mode = "attach" /\ cli.view[i].hash # cli.old
                 /\ c.at[i].hash = cli.view[i].hash /\ c.at[i].updated # 0
                 /\ c.at[i].rolled # 0 => cli.view[i].out
  BY <1>1, AdoptFacts
<1> HIDE DEF c
<1>4. feed' = IF cli'.pc = "ended" THEN <<>> ELSE feed
  BY DEF ListDeployments
<1>5. CASE cli' = Ended(cli, "error")
  <2>1. "error" \in Verdicts
    BY DEF Verdicts
  <2>2. feed' = <<>>
    BY <1>1, <1>4, <1>5, <2>1, EndedType
  <2> QED BY <1>1, <1>5, <2>1, <2>2, EndStep
<1>6. CASE cli' = Ended(c, printReport(c))
  <2>1. feed' = <<>>
    BY <1>1, <1>3, <1>4, <1>6, ReportType, EndedType
  <2>2. c.mode = "rotate" => rolledOut(c) = {}
    BY <1>3 DEF rolledOut, NoTimeline
  <2> QED BY <1>1, <1>3, <1>6, <2>1, <2>2, ReportType, EndStep
<1>7. CASE cli' = c
  <2>1. feed' = feed /\ Listening' /\ UNCHANGED <<token, secret, cgs, dep, pods>>
    BY <1>1, <1>3, <1>4, <1>7 DEF Listening, vars
  <2>2. WatchTypeOK' /\ FeedInv'
    BY <1>1, <1>3, <1>7, <2>1, FeedStays DEF WatchInv, WatchTypeOK
  <2>3. StartInv' /\ CommandInv'
    BY <1>1, <1>3, <1>7, <2>1 DEF WatchInv, StartInv, CommandInv
  <2>4. ASSUME NEW i \in Replica
        PROVE  /\ cli'.cur[i] = Base(i)
               /\ cli'.at[i].hash = Floor(i) \/ cli'.at[i].hash = 0
               /\ Floor(i) \in Nat
    BY <1>1, <1>3, <1>7 DEF Base, Floor, NoTimeline, Watcher
  <2>5. NewsInv'
    <3> SUFFICES ASSUME NEW i \in Replica
                 PROVE  /\ cli'.at[i].hash <= secret
                        /\ Exists(dep[i]) => /\ cli'.at[i].hash <= dep[i].hash
                                             /\ dep[i].hash = cli'.cur[i] \/ cli'.start <= dep[i].hash
                        /\ \A j \in DOMAIN feed : feed[j].rep = i =>
                            /\ cli'.at[i].hash <= feed[j].hash
                            /\ feed[j].hash = cli'.cur[i] \/ cli'.start <= feed[j].hash
      BY <1>3, <1>7, <2>1 DEF NewsInv, Floor, Base
    <3>1. /\ secret \in Nat /\ dep[i].hash \in Nat /\ cli'.start = cli.start
          /\ \A j \in DOMAIN feed : feed[j].hash \in Nat
      <4>1. secret \in Nat /\ dep[i].hash \in Nat
        BY DEF TokenInv, TypeOK, Deployment
      <4>2. \A j \in DOMAIN feed : feed[j] \in Event
        BY <1>1 DEF WatchTypeOK
      <4> QED BY <1>3, <1>7, <4>1, <4>2 DEF Event
    <3> QED BY <1>1, <2>4, <3>1 DEF WatchInv, NewsInv
  <2>6. TimelineInv'
    <3>1. \A i \in Replica : c.at[i].rolled # 0 => c.at[i].updated # 0 /\ Loaded(i, c.at[i].hash)
      BY <1>1, <1>3 DEF NoTimeline, WatchInv, TimelineInv
    <3>2. \A i \in Replica : c.mode = "rotate" => c.at[i].updated = 0 /\ c.at[i].rolled = 0
      BY <1>3 DEF NoTimeline
    <3> QED BY <1>1, <1>3, <1>7, <2>1, <3>1, <3>2 DEF TimelineInv, Loaded
  <2> QED BY <2>2, <2>3, <2>5, <2>6 DEF WatchInv
<1> QED BY <1>2, <1>5, <1>6, <1>7 DEF c

\* What one event changes: the timeline of its Deployment starts with a new hash,
\* or ends when an earlier start is rolled out.
LEMMA HandleFacts ==
    ASSUME NEW c \in Watcher, NEW e \in Event
    PROVE  LET d == handleDeployUpdate(c, e)
               i == e.rep
           IN /\ d \in Watcher
              /\ d.pc = c.pc /\ d.start = c.start /\ d.mode = c.mode
              /\ d.old = c.old /\ d.result = c.result /\ d.n = c.n
              /\ \A k \in Replica : k # i => d.cur[k] = c.cur[k] /\ d.at[k] = c.at[k]
              /\ d.cur[i] = c.cur[i] \/ (d.cur[i] = e.hash /\ e.hash # c.cur[i])
              /\ \/ d.at[i].hash = c.at[i].hash /\ d.at[i].updated = c.at[i].updated
                 \/ /\ c.at[i].updated = 0 /\ e.hash # c.cur[i] /\ e.hash # c.old
                    /\ d.at[i].hash = e.hash
              /\ d.at[i].rolled # 0 =>
                   c.at[i].rolled # 0 \/ (e.out /\ d.at[i].updated # 0)
<1> DEFINE i == e.rep
           t == c.at[i]
           new == e.hash # c.cur[i] /\ e.hash # c.old
           upd == new /\ t.updated = 0
           out == (upd \/ t.updated # 0) /\ t.rolled = 0 /\ e.out
           at == c.events + (IF upd THEN 1 ELSE 0)
           line == [updated |-> IF upd THEN at ELSE t.updated,
                    hash    |-> IF upd THEN e.hash ELSE t.hash,
                    rolled  |-> IF out THEN at + 1 ELSE t.rolled]
           cur == [c.cur EXCEPT ![i] = IF new THEN e.hash ELSE @]
           lines == [c.at EXCEPT ![i] = line]
           events == IF out THEN at + 1 ELSE at
           all == c.all \/ (out /\ Cardinality(rolledOut(c)) + 1 = c.n)
           d == handleDeployUpdate(c, e)
<1>1. /\ i \in Replica /\ e.hash \in Nat /\ e.out \in BOOLEAN
      /\ c.cur \in [Replica -> Nat] /\ c.at \in [Replica -> Line] /\ c.events \in Nat
      /\ c.all \in BOOLEAN
  BY DEF Event, Watcher
<1>2. t \in Line
  BY <1>1
<1>3. at \in Nat /\ events \in Nat /\ (upd => at # 0)
  BY <1>1
<1>4. line \in Line
  BY <1>1, <1>2, <1>3 DEF Line
<1>5. cur \in [Replica -> Nat] /\ lines \in [Replica -> Line] /\ all \in BOOLEAN
  BY <1>1, <1>4
<1>6. d = [c EXCEPT !.cur = cur, !.events = events, !.at = lines, !.all = all]
  BY DEF handleDeployUpdate, Watcher
<1>7. /\ \A k \in Replica : k # i => cur[k] = c.cur[k] /\ lines[k] = c.at[k]
      /\ cur[i] = c.cur[i] \/ (cur[i] = e.hash /\ e.hash # c.cur[i])
      /\ lines[i] = line
  BY <1>1
<1>8. /\ \/ line.hash = t.hash /\ line.updated = t.updated
         \/ /\ t.updated = 0 /\ e.hash # c.cur[i] /\ e.hash # c.old
            /\ line.hash = e.hash
      /\ line.rolled # 0 => t.rolled # 0 \/ (e.out /\ line.updated # 0)
  BY <1>3
<1> HIDE DEF cur, events, lines, all, line, d
<1>9. /\ d \in Watcher
      /\ d.pc = c.pc /\ d.start = c.start /\ d.mode = c.mode
      /\ d.old = c.old /\ d.result = c.result /\ d.n = c.n
      /\ d.cur = cur /\ d.at = lines
  BY <1>3, <1>5, <1>6 DEF Watcher
<1> QED BY <1>7, <1>8, <1>9 DEF d

\* The events behind the first one.
LEMMA TailFacts ==
    ASSUME NEW q \in Seq(Event), q # <<>>
    PROVE  LET n == Len(q) IN
           /\ n \in Nat /\ n >= 1 /\ DOMAIN q = 1..n
           /\ Head(q) = q[1] /\ Head(q) \in Event
           /\ Tail(q) \in Seq(Event) /\ DOMAIN Tail(q) = 1..(n - 1)
           /\ \A j \in 1..(n - 1) : j + 1 \in 1..n /\ Tail(q)[j] = q[j + 1]
           /\ \A j \in 1..n : q[j] \in Event
<1>1. Len(q) \in Nat /\ Len(q) >= 1 /\ DOMAIN q = 1..Len(q)
  OBVIOUS
<1>2. Head(q) = q[1] /\ \A j \in 1..Len(q) : q[j] \in Event
  OBVIOUS
<1>3. Tail(q) \in Seq(Event) /\ DOMAIN Tail(q) = 1..(Len(q) - 1)
  OBVIOUS
<1>4. \A j \in 1..(Len(q) - 1) : j + 1 \in 1..Len(q) /\ Tail(q)[j] = q[j + 1]
  BY <1>1
<1> QED BY <1>1, <1>2, <1>3, <1>4

\* One event is handled, or events are drained after the verdict.
LEMMA EventStep ==
    ASSUME TokenInv, TokenInv', Advance, WatchInv, DeploymentEvent
    PROVE  WatchInv'
<1> DEFINE e == Head(feed)
           c == handleDeployUpdate(cli, e)
           i == e.rep
           n == Len(feed)
<1>1. /\ cli \in Watcher /\ cli.pc \in {"watch", "drain"} /\ Listening
      /\ WatchTypeOK /\ StartInv /\ FeedInv /\ NewsInv /\ CommandInv /\ TimelineInv
      /\ cli.result = "none"
      /\ UNCHANGED <<token, secret, cgs, dep, pods, pause>>
  BY DEF DeploymentEvent, WatchInv, WatchTypeOK, CommandInv, Listening, vars, cluster
<1>2. /\ feed \in Seq(Event) /\ n \in Nat /\ n >= 1 /\ DOMAIN feed = 1..n
      /\ e = feed[1] /\ e \in Event /\ i \in Replica /\ e.hash \in Nat
      /\ feed' \in Seq(Event) /\ DOMAIN feed' = 1..(n - 1)
      /\ \A j \in 1..(n - 1) : j + 1 \in 1..n /\ feed'[j] = feed[j + 1]
      /\ \A j \in 1..n : feed[j] \in Event
  <2>1. feed \in Seq(Event) /\ feed # <<>> /\ feed' = Tail(feed)
    BY <1>1 DEF DeploymentEvent, WatchTypeOK
  <2>2. \A x \in Event : x.rep \in Replica /\ x.hash \in Nat
    BY DEF Event
  <2> QED BY <2>1, <2>2, TailFacts
<1>3. /\ c \in Watcher
      /\ c.pc = cli.pc /\ c.start = cli.start /\ c.mode = cli.mode
      /\ c.old = cli.old /\ c.result = cli.result /\ c.n = cli.n
      /\ \A k \in Replica : k # i => c.cur[k] = cli.cur[k] /\ c.at[k] = cli.at[k]
      /\ c.cur[i] = cli.cur[i] \/ (c.cur[i] = e.hash /\ e.hash # cli.cur[i])
      /\ \/ c.at[i].hash = cli.at[i].hash /\ c.at[i].updated = cli.at[i].updated
         \/ /\ cli.at[i].updated = 0 /\ e.hash # cli.cur[i] /\ e.hash # cli.old
            /\ c.at[i].hash = e.hash
      /\ c.at[i].rolled # 0 => cli.at[i].rolled # 0 \/ (e.out /\ c.at[i].updated # 0)
  BY <1>1, <1>2, HandleFacts
<1> HIDE DEF c
<1>4. cli' = c \/ cli' = Judge(c)
  BY DEF DeploymentEvent, c
<1>5. /\ cli' \in Watcher /\ cli'.pc \in {"watch", "drain"} /\ Listening'
      /\ cli'.start = cli.start /\ cli'.mode = cli.mode /\ cli'.old = cli.old
      /\ cli'.result = "none" /\ cli'.cur = c.cur /\ cli'.at = c.at
  <2>1. cli' = c \/ cli' = [c EXCEPT !.pc = "drain"]
    BY <1>4 DEF Judge
  <2>2. cli' \in Watcher /\ (cli'.pc = c.pc \/ cli'.pc = "drain")
    BY <1>3, <2>1 DEF Watcher
  <2>3. /\ cli'.start = c.start /\ cli'.mode = c.mode /\ cli'.old = c.old
        /\ cli'.result = c.result /\ cli'.cur = c.cur /\ cli'.at = c.at
    BY <1>3, <2>1 DEF Watcher
  <2>4. cli'.pc \in {"watch", "drain"}
    BY <1>1, <1>3, <2>2
  <2> QED BY <1>1, <1>3, <2>2, <2>3, <2>4 DEF Listening
<1>6. WatchTypeOK' /\ StartInv' /\ CommandInv'
  BY <1>1, <1>2, <1>5 DEF WatchTypeOK, StartInv, CommandInv
<1>7. FeedInv'
  <2> SUFFICES ASSUME NEW j \in 1..(n - 1)
               PROVE  /\ feed'[j].hash <= secret
                      /\ Exists(dep[feed'[j].rep]) => feed'[j].hash <= dep[feed'[j].rep].hash
                      /\ feed'[j].out => Loaded(feed'[j].rep, feed'[j].hash)
                      /\ \A k \in 1..(n - 1) : j < k /\ feed'[k].rep = feed'[j].rep
                                                => feed'[j].hash <= feed'[k].hash
    BY <1>1, <1>2, <1>5 DEF FeedInv, Loaded
  <2>1. ASSUME NEW k \in 1..(n - 1), j < k, feed'[k].rep = feed'[j].rep
        PROVE  feed'[j].hash <= feed'[k].hash
    <3>1. j + 1 < k + 1
      BY <1>2, <2>1
    <3> QED BY <1>1, <1>2, <2>1, <3>1 DEF FeedInv
  <2> QED BY <1>1, <1>2, <2>1 DEF FeedInv
<1>8. /\ e.hash <= secret
      /\ Exists(dep[i]) => e.hash <= dep[i].hash
      /\ e.out => Loaded(i, e.hash)
      /\ \A j \in 1..(n - 1) : feed'[j].rep = i => e.hash <= feed'[j].hash
  BY <1>1, <1>2 DEF FeedInv
<1>9. /\ cli.at[i].hash <= secret
      /\ Exists(dep[i]) => /\ cli.at[i].hash <= dep[i].hash
                           /\ dep[i].hash = cli.cur[i] \/ cli.start <= dep[i].hash
      /\ cli.at[i].hash <= e.hash
      /\ e.hash = cli.cur[i] \/ cli.start <= e.hash
      /\ \A j \in 1..(n - 1) : feed'[j].rep = i =>
           /\ cli.at[i].hash <= feed'[j].hash
           /\ feed'[j].hash = cli.cur[i] \/ cli.start <= feed'[j].hash
  BY <1>1, <1>2 DEF NewsInv, Floor, Base
<1>10. /\ secret \in Nat /\ dep[i].hash \in Nat /\ cli.start \in Nat
       /\ cli.at[i].hash \in Nat /\ cli.cur[i] \in Nat
       /\ \A j \in 1..(n - 1) : feed'[j].hash \in Nat
  <2>1. secret \in Nat /\ dep[i].hash \in Nat
    BY <1>2 DEF TokenInv, TypeOK, Deployment
  <2>2. cli.start \in Nat /\ cli.at[i].hash \in Nat /\ cli.cur[i] \in Nat
    BY <1>1, <1>2 DEF Watcher, Line
  <2>3. \A j \in 1..(n - 1) : feed'[j].hash \in Nat
    BY <1>2 DEF Event
  <2> QED BY <2>1, <2>2, <2>3
<1>11. NewsInv'
  <2> SUFFICES ASSUME NEW k \in Replica
               PROVE  /\ c.at[k].hash <= secret
                      /\ Exists(dep[k]) => /\ c.at[k].hash <= dep[k].hash
                                           /\ dep[k].hash = c.cur[k] \/ cli.start <= dep[k].hash
                      /\ \A j \in 1..(n - 1) : feed'[j].rep = k =>
                          /\ c.at[k].hash <= feed'[j].hash
                          /\ feed'[j].hash = c.cur[k] \/ cli.start <= feed'[j].hash
    BY <1>1, <1>2, <1>5 DEF NewsInv, Floor, Base
  <2>1. CASE k # i
    <3>1. c.at[k] = cli.at[k] /\ c.cur[k] = cli.cur[k]
      BY <1>3, <2>1
    <3>2. /\ cli.at[k].hash <= secret
          /\ Exists(dep[k]) => /\ cli.at[k].hash <= dep[k].hash
                               /\ dep[k].hash = cli.cur[k] \/ cli.start <= dep[k].hash
          /\ \A j \in DOMAIN feed : feed[j].rep = k =>
               /\ cli.at[k].hash <= feed[j].hash
               /\ feed[j].hash = cli.cur[k] \/ cli.start <= feed[j].hash
      BY <1>1 DEF NewsInv, Floor, Base
    <3> QED BY <1>2, <3>1, <3>2
  <2>2. CASE k = i
    <3>1. c.at[i].hash = cli.at[i].hash \/ c.at[i].hash = e.hash
      BY <1>3
    <3>2. c.cur[i] = cli.cur[i] \/ (c.cur[i] = e.hash /\ cli.start <= e.hash)
      BY <1>3, <1>9
    <3>3. /\ c.at[i].hash <= secret
          /\ Exists(dep[i]) => c.at[i].hash <= dep[i].hash
          /\ \A j \in 1..(n - 1) : feed'[j].rep = i => c.at[i].hash <= feed'[j].hash
      BY <1>8, <1>9, <3>1
    <3>4. /\ Exists(dep[i]) => dep[i].hash = c.cur[i] \/ cli.start <= dep[i].hash
          /\ \A j \in 1..(n - 1) : feed'[j].rep = i =>
               feed'[j].hash = c.cur[i] \/ cli.start <= feed'[j].hash
      BY <1>2, <1>8, <1>9, <1>10, <3>2
    <3> QED BY <2>2, <3>3, <3>4
  <2> QED BY <2>1, <2>2
<1>12. TimelineInv'
  <2> SUFFICES ASSUME NEW k \in Replica
               PROVE  /\ c.at[k].rolled # 0 => c.at[k].updated # 0 /\ Loaded(k, c.at[k].hash)
                      /\ c.at[k].updated # 0 /\ cli.mode = "rotate" => cli.start < c.at[k].hash
    BY <1>1, <1>5 DEF TimelineInv, Loaded
  <2>1. CASE k # i
    BY <1>1, <1>3, <2>1 DEF TimelineInv
  <2>2. CASE k = i
    <3>1. ASSUME c.at[i].rolled # 0
          PROVE  c.at[i].updated # 0 /\ Loaded(i, c.at[i].hash)
      <4>1. CASE cli.at[i].rolled # 0
        BY <1>1, <1>2, <1>3, <4>1 DEF TimelineInv
      <4>2. CASE e.out /\ c.at[i].updated # 0
        BY <1>2, <1>3, <1>8, <1>9, <1>10, <4>2, LoadedOlder
      <4> QED BY <1>3, <3>1, <4>1, <4>2
    <3>2. ASSUME c.at[i].updated # 0, cli.mode = "rotate"
          PROVE  cli.start < c.at[i].hash
      <4>1. cli.old = cli.start
        BY <1>1, <3>2 DEF CommandInv
      <4>2. CASE c.at[i].hash = cli.at[i].hash /\ c.at[i].updated = cli.at[i].updated
        BY <1>1, <1>2, <3>2, <4>2 DEF TimelineInv
      <4>3. CASE e.hash # cli.cur[i] /\ e.hash # cli.old /\ c.at[i].hash = e.hash
        BY <1>2, <1>9, <1>10, <4>1, <4>3
      <4> QED BY <1>3, <4>2, <4>3
    <3> QED BY <2>2, <3>1, <3>2
  <2> QED BY <2>1, <2>2
<1> QED BY <1>6, <1>7, <1>11, <1>12 DEF WatchInv

\* News of the Gateway, and the verdict it may lead to.
LEMMA GatewayStep ==
    ASSUME TokenInv, TokenInv', Advance, WatchInv, handleGatewayUpdate
    PROVE  WatchInv'
<1>1. /\ cli \in Watcher /\ cli.pc \in {"watch", "drain"} /\ cli.result = "none"
      /\ UNCHANGED <<token, secret, cgs, dep, pods, pause>>
  BY DEF handleGatewayUpdate, WatchInv, WatchTypeOK, CommandInv, vars
<1> DEFINE c == [cli EXCEPT !.gw = GatewayNow, !.ready = ready, !.off = pause.on]
<1>2. GatewayNow \in [ready : {"True", "False", "Unknown"}, off : BOOLEAN, req : Nat]
  BY DEF GatewayNow, TokenInv, TypeOK, WatchInv, WatchTypeOK
<1>3. /\ c \in Watcher
      /\ c.pc = cli.pc /\ c.start = cli.start /\ c.mode = cli.mode /\ c.old = cli.old
      /\ c.result = cli.result /\ c.cur = cli.cur /\ c.at = cli.at
      /\ c.checked = cli.checked
  BY <1>1, <1>2 DEF Watcher, TokenInv, TypeOK, WatchInv, WatchTypeOK
<1> HIDE DEF c
<1>4. CASE cli' = Ended(c, "suspended") /\ feed' = <<>>
  BY <1>1, <1>3, <1>4, EndStep DEF Verdicts
<1>5. CASE (cli' = c \/ cli' = Judge(c)) /\ feed' = feed
  <2>1. /\ cli' \in Watcher /\ cli'.pc \in {"watch", "drain"} /\ Listening /\ Listening'
        /\ cli'.start = cli.start /\ cli'.mode = cli.mode /\ cli'.old = cli.old
        /\ cli'.result = "none" /\ cli'.cur = cli.cur /\ cli'.at = cli.at
    BY <1>1, <1>3, <1>5 DEF Judge, Watcher, Listening
  <2>2. WatchTypeOK' /\ StartInv' /\ CommandInv' /\ FeedInv'
    BY <1>1, <1>5, <2>1, FeedStays DEF WatchInv, WatchTypeOK, StartInv, CommandInv
  <2>3. NewsInv'
    BY <1>1, <1>5, <2>1 DEF WatchInv, NewsInv, Floor, Base
  <2>4. TimelineInv'
    BY <1>1, <2>1 DEF WatchInv, TimelineInv, Loaded
  <2> QED BY <2>2, <2>3, <2>4 DEF WatchInv
<1> QED BY <1>4, <1>5 DEF handleGatewayUpdate, c

\* The report is read off the timelines.
LEMMA ReportStep ==
    ASSUME TokenInv, TokenInv', Advance, WatchInv, Report
    PROVE  WatchInv'
<1>1. /\ cli \in Watcher /\ cli.pc = "drain" /\ feed' = <<>> /\ UNCHANGED pause
      /\ cli' = Ended(cli, printReport(cli))
  BY DEF Report, WatchInv, WatchTypeOK
<1>2. ASSUME cli.mode = "rotate", NEW i \in rolledOut(cli)
      PROVE  Loaded(i, cli.start + 1)
  <2>1. i \in Replica /\ Loaded(i, cli.at[i].hash) /\ cli.start < cli.at[i].hash
    BY <1>1, <1>2 DEF rolledOut, WatchInv, TimelineInv
  <2>2. cli.at[i].hash \in Nat /\ cli.start \in Nat
    BY <1>1, <2>1 DEF Watcher, Line
  <2> QED BY <2>1, <2>2, LoadedOlder
<1> QED BY <1>1, <1>2, ReportType, EndStep

\* The invariant is kept by every step of the system and of the command.
LEMMA WatchStep ==
    ASSUME Prompt, TokenInv, WatchInv, [WatchNext]_watchVars
    PROVE  WatchInv'
<1>1. TokenInv' /\ Advance
  BY WatchAdvances
<1>2. CASE Watched
  BY <1>1, <1>2, WatchedStep
<1>3. ASSUME UNCHANGED <<token, secret, cgs, dep, pods, cli, feed>>,
             pause' \in [on : BOOLEAN, toggles : Nat]
      PROVE  WatchInv'
  <2>1. WatchTypeOK' /\ StartInv' /\ FeedInv' /\ CommandInv' /\ TimelineInv'
    BY <1>3 DEF WatchInv, WatchTypeOK, StartInv, FeedInv, CommandInv, TimelineInv,
       Listening, Loaded
  <2>2. NewsInv'
    BY <1>3 DEF WatchInv, NewsInv, Listening, Floor, Base
  <2> QED BY <2>1, <2>2 DEF WatchInv
<1>4. pause \in [on : BOOLEAN, toggles : Nat]
  BY DEF WatchInv, WatchTypeOK
<1>5. CASE Toggle
  BY <1>3, <1>4, <1>5 DEF Toggle, cluster
<1>6. CASE UNCHANGED watchVars
  BY <1>3, <1>4, <1>6 DEF watchVars
<1>7. ASSUME NEW mode \in {"rotate", "attach"}, ReadCGS(mode) PROVE WatchInv'
  BY <1>1, <1>7, ReadStep
<1>8. ASSUME NEW i \in Replica, GetDeployment(i) PROVE WatchInv'
  BY <1>1, <1>8, GetStep
<1>9. CASE CheckSuspended
  BY <1>1, <1>9, CheckStep
<1>10. CASE SyncAttach
  BY <1>1, <1>10, SyncedStep DEF SyncAttach, vars
<1>11. CASE SyncAndPatch
  <2>1. CASE cli' = Synced /\ UNCHANGED <<token, secret, cgs, cluster, pause, feed>>
    BY <1>1, <1>11, <2>1, SyncedStep DEF SyncAndPatch, cluster
  <2>2. CASE cli' = Ended(cli, "error") /\ UNCHANGED <<vars, pause, feed>>
    <3>1. /\ cli \in Watcher /\ cli.pc = "sync" /\ feed' = <<>>
      BY <1>11, <2>2 DEF SyncAndPatch, WatchInv, WatchTypeOK, FeedInv, Listening
    <3> QED BY <1>1, <2>2, <3>1, EndStep DEF Verdicts
  <2> QED BY <1>11, <2>1, <2>2 DEF SyncAndPatch
<1>12. CASE ListDeployments
  BY <1>1, <1>12, ListStep
<1>13. CASE DeploymentEvent
  BY <1>1, <1>13, EventStep
<1>14. CASE handleGatewayUpdate
  BY <1>1, <1>14, GatewayStep
<1>15. CASE Report
  BY <1>1, <1>15, ReportStep
<1>16. CASE Timeout
  <2>1. /\ cli \in Watcher /\ cli.pc = "watch" /\ feed' = <<>> /\ UNCHANGED pause
        /\ cli' = Ended(cli, "timeout")
    BY <1>16 DEF Timeout, WatchInv, WatchTypeOK
  <2> QED BY <1>1, <2>1, EndStep DEF Verdicts
<1> QED BY <1>2, <1>5, <1>6, <1>7, <1>8, <1>9, <1>10, <1>11, <1>12, <1>13, <1>14,
           <1>15, <1>16 DEF WatchNext, Command

\* The command meets a Gateway that is served.
LEMMA WatchInitInv == WatchInit => TokenInv /\ WatchInv /\ DeployedInv /\ AttachInv
<1> SUFFICES ASSUME WatchInit PROVE TokenInv /\ WatchInv /\ DeployedInv /\ AttachInv
  OBVIOUS
<1>1. TypeOK
  <2>1. Served \in Deployment
    BY DEF Served, Deployment
  <2>2. {[hash |-> 1, tmpl |-> 1, tok |-> 1, ready |-> TRUE]} \in SUBSET Pod
    BY DEF Pod
  <2>3. /\ dep \in [Replica -> Deployment] /\ seen \in [Replica -> Deployment]
        /\ pods \in [Replica -> SUBSET Pod]
    BY <2>1, <2>2 DEF WatchInit
  <2> QED BY <2>3 DEF WatchInit, TypeOK, Idle, Steps
<1>2. FinitePods
  BY FS_Singleton DEF WatchInit, FinitePods
<1>3. \A i \in Replica : /\ dep[i] = Served /\ seen[i] = Served
                         /\ pods[i] = {[hash |-> 1, tmpl |-> 1, tok |-> 1, ready |-> TRUE]}
  BY DEF WatchInit
<1>4. TokenOrder /\ PodsLoadNewerToken /\ ObservedInOrder
  BY <1>3 DEF WatchInit, TokenOrder, Stored, PodsLoadNewerToken, ObservedInOrder, Served, Idle
<1>5. RolledOutMeansLoaded /\ ReadyMeansLoaded /\ RequestServed /\ UnannouncedIsDue
  BY <1>3 DEF WatchInit, RolledOutMeansLoaded, ReadyMeansLoaded, RequestServed,
     UnannouncedIsDue, Served, Idle
<1>6. HashAnnouncedFirst /\ DoneReplicas
  BY <1>3 DEF WatchInit, HashAnnouncedFirst, DoneReplicas, Served, Idle
<1>7. TokenInv
  BY <1>1, <1>2, <1>4, <1>5, <1>6 DEF TokenInv
<1>8. DeployedInv
  BY <1>3 DEF WatchInit, DeployedInv, Exists, Served, Idle
<1>9. /\ cli = NotStarted /\ feed = <<>> /\ pause = [on |-> FALSE, toggles |-> 0]
      /\ cgs.hash = 1 /\ token = 1
  BY DEF WatchInit
<1>10. /\ NotStarted.pc = "start" /\ NotStarted.mode = "rotate" /\ NotStarted.pend = {}
       /\ NotStarted.old = 0 /\ NotStarted.result = "none"
  BY DEF NotStarted
<1>11. NotStarted \in Watcher
  <2>1. GatewayNow \in [ready : {"True", "False", "Unknown"}, off : BOOLEAN, req : Nat]
    BY <1>1, <1>9 DEF GatewayNow, TypeOK
  <2>2. Unseen \in [Replica -> [hash : Nat, out : BOOLEAN]]
    BY DEF Unseen, Glance, Absent, isWatchDeploymentRolledOut
  <2>3. [i \in Replica |-> NoTimeline] \in [Replica -> Line]
    BY DEF NoTimeline, Line
  <2> QED BY <2>1, <2>2, <2>3 DEF NotStarted, Watcher, Verdicts
<1>12. WatchTypeOK
  BY <1>9, <1>11 DEF WatchTypeOK
<1>13. StartInv /\ FeedInv /\ NewsInv /\ CommandInv /\ TimelineInv
  BY <1>9, <1>10 DEF StartInv, FeedInv, NewsInv, CommandInv, TimelineInv, Listening
<1>14. AttachInv
  BY <1>9, <1>10 DEF AttachInv
<1> QED BY <1>7, <1>8, <1>12, <1>13, <1>14 DEF WatchInv

-----------------------------------------------------------------------------
(* Attaching to a rollout.                                                 *)

\* Without edits of the replica list no Deployment is deleted.
LEMMA DeployedStep ==
    ASSUME MaxEdits = 0, TokenInv, DeployedInv, [WatchNext]_watchVars
    PROVE  DeployedInv'
<1>0. /\ dep \in [Replica -> Deployment] /\ want \subseteq Replica
      /\ used.edits \in Nat /\ token \in Nat
      /\ rec \in [pc : Steps, want : SUBSET Replica, tmpl : Nat, req : Nat,
                  hash : Nat, rotated : BOOLEAN, todo : SUBSET Replica,
                  errs : BOOLEAN, ready : {"True", "False", "Unknown"}]
  BY DEF TokenInv, TypeOK
<1> DEFINE Plan == /\ want' = Replica /\ cgs'.inventory = Replica
                   /\ rec'.pc # "idle" => rec'.want = Replica
           Live == \A i \in Replica : Exists(dep'[i])
<1>1. CASE UNCHANGED <<want, cgs, rec, dep>>
  BY <1>1 DEF DeployedInv
<1>2. ASSUME NEW i \in Replica,
             StartRollout(i) \/ PodBecomesReady(i) \/ RetireOldPod(i) \/ RestartPod(i)
      PROVE  DeployedInv'
  <2>1. PICK ps \in SUBSET Pod :
          /\ IsFiniteSet(ps)
          /\ dep' = dep \/ dep' = [dep EXCEPT ![i] = Observed(dep[i], ps)]
    BY <1>2, PodStep DEF TokenInv
  <2>2. UNCHANGED <<want, cgs, rec>>
    BY <1>2, PodStep DEF TokenInv, inputs
  <2>3. Observed(dep[i], ps).gen = dep[i].gen
    BY <1>0, <2>1, ObservedType
  <2>4. \A k \in Replica : dep'[k].gen = dep[k].gen
    BY <1>0, <2>1, <2>3
  <2> QED BY <2>2, <2>4 DEF DeployedInv, Exists
<1>3. ASSUME NEW i \in Replica, DeadlineExceeded(i) PROVE DeployedInv'
  <2>1. dep' = [dep EXCEPT ![i].prog = "failed"] /\ UNCHANGED <<want, cgs, rec>>
    BY <1>3 DEF DeadlineExceeded, inputs
  <2>2. \A k \in Replica : dep'[k].gen = dep[k].gen
    BY <1>0, <2>1 DEF Deployment
  <2> QED BY <2>1, <2>2 DEF DeployedInv, Exists
<1>4. ASSUME NEW i \in Replica, applyTunnelDeployment(i) PROVE DeployedInv'
  <2>1. /\ dep' = dep \/ dep' = [dep EXCEPT ![i] = Applied(dep[i])]
        /\ rec.pc = "apply" /\ UNCHANGED <<want, cgs>>
        /\ rec'.want = rec.want
    BY <1>0, <1>4 DEF applyTunnelDeployment, inputs
  <2>2. Exists(Applied(dep[i]))
    BY <1>0, AppliedType DEF TokenInv, ObservedInOrder
  <2> QED BY <1>0, <2>1, <2>2 DEF DeployedInv
<1>5. ASSUME NEW failed \in SUBSET Replica, cleanupStaleTunnelResources(failed)
      PROVE  DeployedInv'
  <2>1. rec.want = Replica /\ rec'.want = rec.want /\ UNCHANGED <<want, cgs>>
    BY <1>0, <1>5 DEF cleanupStaleTunnelResources, DeployedInv, inputs
  <2>2. PICK gone \in SUBSET (Replica \ rec.want) :
          dep' = [i \in Replica |-> IF i \in gone THEN Absent ELSE dep[i]]
    BY <1>5 DEF cleanupStaleTunnelResources
  <2>3. \A i \in Replica : dep'[i] = dep[i]
    BY <2>1, <2>2
  <2> QED BY <2>1, <2>3 DEF DeployedInv
<1>6. CASE StartReconcile
  BY <1>6 DEF StartReconcile, DeployedInv, Idle, inputs, cluster
<1>7. CASE reconcileCGS
  BY <1>0, <1>7 DEF reconcileCGS, DeployedInv, cluster
<1>8. CASE patchCGSTokenHash
  <2>1. cgs'.inventory = cgs.inventory
    BY <1>8 DEF patchCGSTokenHash, TokenInv, TypeOK
  <2>2. rec'.want = rec.want /\ rec.pc = "announce" /\ UNCHANGED <<want, dep>>
    BY <1>0, <1>8 DEF patchCGSTokenHash, inputs, cluster
  <2> QED BY <2>1, <2>2 DEF DeployedInv
<1>9. CASE \/ maybeRotateToken \/ WriteTokenSecret \/ ApplyNothing
           \/ checkAllDeploymentsReadiness \/ NonFatalError
  <2>1. /\ rec'.want = rec.want /\ rec.pc # "idle"
        /\ UNCHANGED <<want, cgs, dep>>
    BY <1>0, <1>9 DEF maybeRotateToken, WriteTokenSecret, ApplyNothing,
       checkAllDeploymentsReadiness, NonFatalError, inputs, cluster
  <2> QED BY <2>1 DEF DeployedInv
<1>10. CASE patchGatewayStatus \/ Abort
  BY <1>10 DEF patchGatewayStatus, Abort, DeployedInv, Idle, inputs, cluster
<1>11. CASE User
  <2>1. ASSUME NEW w \in SUBSET Replica, EditReplicas(w) PROVE FALSE
    BY <1>0, <2>1 DEF EditReplicas
  <2> QED BY <1>1, <1>11, <2>1 DEF User, PublishTemplate, RequestRotation, CronTrigger,
     Requeue, inputs, cluster
<1>12. ASSUME NEW i \in Replica, SyncCache(i) PROVE DeployedInv'
  BY <1>1, <1>12 DEF SyncCache, inputs
<1>13. CASE Next
  BY <1>2, <1>3, <1>4, <1>5, <1>6, <1>7, <1>8, <1>9, <1>10, <1>11, <1>12, <1>13
     DEF Next, Reconcile, Kubernetes
<1>14. CASE UNCHANGED vars
  BY <1>1, <1>14 DEF vars
<1>15. CASE SkipReconcile \/ Toggle \/ SyncAndPatch \/ \E m \in {"rotate", "attach"} : ReadCGS(m)
  BY <1>1, <1>14, <1>15 DEF SkipReconcile, Toggle, SyncAndPatch, ReadCGS, inputs, cluster
<1>16. CASE \/ (\E i \in Replica : GetDeployment(i)) \/ CheckSuspended \/ SyncAttach
            \/ ListDeployments \/ DeploymentEvent \/ handleGatewayUpdate \/ Report \/ Timeout
  BY <1>14, <1>16 DEF GetDeployment, CheckSuspended, SyncAttach, ListDeployments,
     DeploymentEvent, handleGatewayUpdate, Report, Timeout
<1>17. CASE UNCHANGED watchVars
  BY <1>1, <1>17 DEF watchVars
<1> QED BY <1>13, <1>15, <1>16, <1>17 DEF WatchNext, Command

\* A Deployment that the command takes for pending gets the newest hash or keeps
\* the one that was taken for the old.
LEMMA PendingStays ==
    ASSUME TokenInv, TokenInv', Advance, StartInv, DeployedInv, DeployedInv', WatchTypeOK,
           cli.pc # "start", cli'.old = cli.old, cli'.start = cli.start,
           Pending([i \in Replica |-> dep[i].hash])
    PROVE  \E q \in Replica : dep'[q].hash = cli'.old \/ cli'.start <= dep'[q].hash
<1>1. PICK q \in Replica : dep[q].hash = cli.old \/ cli.start <= dep[q].hash
  BY DEF Pending
<1>2. dep'[q].hash = dep[q].hash \/ dep'[q].hash = token'
  BY DEF DeployedInv, Advance
<1>3. cli.start \in Nat /\ token \in Nat /\ token' \in Nat /\ cli.start <= token /\ token <= token'
  BY DEF WatchTypeOK, Watcher, TokenInv, TypeOK, StartInv, Advance
<1> QED BY <1>1, <1>2, <1>3

\* All Deployments were counted, with one hash, and one of them has a new one.
LEMMA PassedFacts ==
    ASSUME TokenInv, NEW c \in Watcher, c.n = N, printReport(c) = "passed",
           \E q \in Replica : c.at[q].updated # 0 => c.start <= c.at[q].hash,
           \A i \in Replica : c.at[i].rolled # 0 => Loaded(i, c.at[i].hash)
    PROVE  \A i \in rolledOut(c) : Loaded(i, c.start)
<1>1. IsFiniteSet(Replica) /\ Cardinality(Replica) = N
  BY FS_Interval, NAssumption DEF Replica
<1>2. /\ Cardinality(tokenUpdated(c)) = c.n
      /\ \A i, j \in tokenUpdated(c) : c.at[i].hash = c.at[j].hash
  BY DEF printReport
<1>3. tokenUpdated(c) \in SUBSET Replica
  BY DEF tokenUpdated
<1>4. tokenUpdated(c) = Replica
  BY <1>1, <1>2, <1>3, FS_Subset
<1>5. PICK q \in Replica : c.start <= c.at[q].hash
  BY <1>4 DEF tokenUpdated
<1>6. ASSUME NEW i \in rolledOut(c) PROVE Loaded(i, c.start)
  <2>1. i \in Replica /\ Loaded(i, c.at[i].hash)
    BY <1>6 DEF rolledOut
  <2>2. c.at[i].hash \in Nat /\ c.start \in Nat /\ c.start <= c.at[i].hash
    BY <1>2, <1>4, <1>5, <2>1 DEF Watcher, Line
  <2> QED BY <2>1, <2>2, LoadedOlder
<1> QED BY <1>6

\* A verdict of an attached command.
LEMMA AttachEnds ==
    ASSUME TokenInv, TokenInv', Advance, WatchTypeOK, NEW c \in Watcher, NEW r \in Verdicts,
           cli' = Ended(c, r),
           c.mode = "attach" /\ r = "passed" => \A i \in rolledOut(c) : Loaded(i, c.start)
    PROVE  AttachInv'
<1>1. /\ cli'.pc = "ended" /\ cli'.result = r /\ cli'.mode = c.mode
      /\ cli'.start = c.start /\ cli'.checked = rolledOut(c)
  BY EndedType
<1>2. ASSUME c.mode = "attach", r = "passed", NEW i \in rolledOut(c)
      PROVE  Kept(i, c.start)
  <2>1. i \in Replica /\ c.start \in Nat
    BY DEF rolledOut, Watcher
  <2> QED BY <1>2, <2>1, LoadedStays
<1> QED BY <1>1, <1>2 DEF AttachInv, Loaded, Kept

\* While the system moves, and while the command handles events.
LEMMA AttachedStays ==
    ASSUME TokenInv, TokenInv', Advance, WatchInv, DeployedInv, DeployedInv', AttachInv,
           UNCHANGED cli
    PROVE  AttachInv'
<1>1. WatchTypeOK /\ StartInv
  BY DEF WatchInv
<1>2. ASSUME cli.pc # "start", Pending([i \in Replica |-> dep[i].hash])
      PROVE  \E q \in Replica : dep'[q].hash = cli.old \/ cli.start <= dep'[q].hash
  BY <1>1, <1>2, PendingStays
<1>3. \A i \in Replica : Loaded(i, cli.start) => Kept(i, cli.start)
  BY <1>1, LoadedStays DEF WatchTypeOK, Watcher
<1>4. cli.checked \subseteq Replica
  BY <1>1 DEF WatchTypeOK, Watcher
<1>5. Pending([i \in Replica |-> dep[i].hash])' <=>
        \E q \in Replica : dep'[q].hash = cli'.old \/ cli'.start <= dep'[q].hash
  BY DEF Pending
<1>6. Pending([i \in Replica |-> cli.view[i].hash])' <=>
        Pending([i \in Replica |-> cli.view[i].hash])
  BY DEF Pending
<1> SUFFICES ASSUME cli.mode = "attach"
             PROVE  /\ \/ cli.pc \in {"check", "sync"}
                       \/ cli.pc = "get" /\ cli.pend # {}
                       => Pending([i \in Replica |-> dep[i].hash])'
                    /\ cli.result = "passed" => \A i \in cli.checked : Kept(i, cli.start)
  BY <1>6 DEF AttachInv, Loaded, Kept
<1>7. \/ cli.pc \in {"check", "sync"}
      \/ cli.pc = "get" /\ cli.pend # {}
      => Pending([i \in Replica |-> dep[i].hash])'
  BY <1>2, <1>5 DEF AttachInv
<1>8. cli.result = "passed" => \A i \in cli.checked : Kept(i, cli.start)
  BY <1>3, <1>4 DEF AttachInv
<1> QED BY <1>7, <1>8

\* Attaching begins with the whole inventory.
LEMMA AttachRead ==
    ASSUME TokenInv, TokenInv', Advance, WatchInv, DeployedInv,
           NEW mode \in {"rotate", "attach"}, ReadCGS(mode)
    PROVE  AttachInv'
<1>1. /\ cli \in Watcher /\ cli.pc = "start" /\ cli.result = "none" /\ cli.pend = {}
      /\ cgs.inventory = Replica
  BY DEF ReadCGS, WatchInv, WatchTypeOK, CommandInv, DeployedInv
<1>2. Cardinality(Replica) = N /\ Replica # {}
  <2>1. N \in Nat /\ N >= 1 /\ 1 \in Replica
    BY NAssumption DEF Replica
  <2>2. Cardinality(1..N) = N
    BY <2>1, FS_Interval
  <2> QED BY <2>1, <2>2 DEF Replica
<1> DEFINE c == [cli EXCEPT !.mode = mode, !.n = Cardinality(cgs.inventory),
                            !.start = cgs.hash, !.gw = GatewayNow,
                            !.todo = IF mode = "attach" THEN cgs.inventory ELSE {},
                            !.old = IF mode = "rotate" THEN cgs.hash ELSE 0]
<1>3. cli' = [c EXCEPT !.pc = IF mode = "attach" THEN "get" ELSE "sync"]
  BY <1>1, <1>2 DEF ReadCGS
<1>4. /\ cli'.mode = mode /\ cli'.result = "none"
      /\ mode = "attach" => /\ cli'.pc = "get" /\ cli'.n = N /\ cli'.todo = Replica
                            /\ cli'.pend = {} /\ cli'.old = 0
  BY <1>1, <1>2, <1>3 DEF Watcher
<1> QED BY <1>2, <1>4 DEF AttachInv

\* The first Deployment found pending gives the old hash.
LEMMA AttachGet ==
    ASSUME TokenInv, TokenInv', Advance, WatchInv, DeployedInv, AttachInv,
           NEW i \in Replica, GetDeployment(i)
    PROVE  AttachInv'
<1> DEFINE pending == dep[i].hash # cli.start
           old == IF pending /\ cli.old = 0 THEN dep[i].hash ELSE cli.old
           pend == IF pending THEN cli.pend \cup {dep[i].hash} ELSE cli.pend
           c == [cli EXCEPT !.todo = @ \ {i}, !.pend = pend, !.old = old]
           d == [c EXCEPT !.pc = "check"]
<1>1. /\ cli \in Watcher /\ cli.pc = "get" /\ cli.mode = "attach" /\ cli.result = "none"
      /\ dep[i].hash \in Nat /\ Exists(dep[i]) /\ WatchTypeOK /\ UNCHANGED dep
      /\ cli.n = N /\ (cli.pend = {} => cli.old = 0)
      /\ cli.pend # {} => \E q \in Replica : dep[q].hash = cli.old \/ cli.start <= dep[q].hash
  BY DEF GetDeployment, WatchInv, WatchTypeOK, CommandInv, DeployedInv, AttachInv, Pending,
     TokenInv, TypeOK, Deployment, vars
<1>2. /\ pend = {} => old = 0
      /\ pend # {} => \E q \in Replica : dep[q].hash = old \/ cli.start <= dep[q].hash
  <2>1. CASE cli.pend = {}
    BY <1>1, <2>1
  <2>2. CASE cli.pend # {}
    <3>1. PICK q \in Replica : dep[q].hash = cli.old \/ cli.start <= dep[q].hash
      BY <1>1, <2>2
    <3>2. CASE old = cli.old
      BY <2>2, <3>1, <3>2
    <3>3. CASE old = dep[i].hash
      BY <2>2, <3>3
    <3> QED BY <3>2, <3>3
  <2> QED BY <2>1, <2>2
<1>3. cli' = IF c.todo # {} THEN c
             ELSE IF c.pend = {} THEN Ended(c, "up to date") ELSE d
  BY <1>1 DEF GetDeployment
<1> HIDE DEF pend, old
<1>4. /\ pend \in SUBSET Nat /\ old \in Nat
  BY <1>1 DEF Watcher, pend, old
<1>5. /\ c \in Watcher /\ c.pc = "get" /\ c.mode = "attach" /\ c.n = N /\ c.result = "none"
      /\ c.start = cli.start /\ c.pend = pend /\ c.old = old
  BY <1>1, <1>4 DEF Watcher
<1> HIDE DEF c
<1>6. /\ d \in Watcher /\ d.pc = "check" /\ d.mode = "attach" /\ d.n = N /\ d.result = "none"
      /\ d.start = cli.start /\ d.pend = pend /\ d.old = old
  BY <1>5 DEF Watcher
<1> HIDE DEF d
<1>7. CASE cli' = Ended(c, "up to date")
  BY <1>1, <1>5, <1>7, AttachEnds DEF Verdicts
<1>8. CASE \/ cli' = c /\ c.todo # {}
           \/ cli' = d /\ pend # {}
  <2>1. Pending([k \in Replica |-> dep[k].hash])' <=>
          \E q \in Replica : dep[q].hash = cli'.old \/ cli'.start <= dep[q].hash
    BY <1>1 DEF Pending
  <2> QED BY <1>2, <1>5, <1>6, <1>8, <2>1 DEF AttachInv
<1> QED BY <1>3, <1>5, <1>7, <1>8

\* The informers show the Deployments that were read one by one.
LEMMA AttachSynced ==
    ASSUME TokenInv, TokenInv', Advance, WatchInv, DeployedInv, AttachInv,
           CheckSuspended \/ SyncAttach \/ SyncAndPatch
    PROVE  AttachInv'
<1>1. cli \in Watcher /\ WatchTypeOK /\ cli.result = "none"
  BY DEF CheckSuspended, SyncAttach, SyncAndPatch, WatchInv, WatchTypeOK, CommandInv
<1>2. CASE cli' = Ended(cli, "error")
  BY <1>1, <1>2, AttachEnds DEF Verdicts
<1>3. CASE cli.pc = "check" /\ cli' = [cli EXCEPT !.pc = "sync"] /\ UNCHANGED dep
  <2>1. /\ cli'.pc = "sync" /\ cli'.mode = cli.mode /\ cli'.n = cli.n /\ cli'.result = "none"
        /\ cli'.old = cli.old /\ cli'.start = cli.start
    BY <1>1, <1>3 DEF Watcher
  <2>2. Pending([k \in Replica |-> dep[k].hash])' <=> Pending([k \in Replica |-> dep[k].hash])
    BY <1>3, <2>1 DEF Pending
  <2> QED BY <1>3, <2>1, <2>2 DEF AttachInv
<1>4. CASE cli.pc = "sync" /\ cli' = Synced
  <2> DEFINE view == [i \in Replica |-> Glance(dep[i])]
  <2>1. /\ cli'.pc = "list" /\ cli'.mode = cli.mode /\ cli'.n = cli.n /\ cli'.result = "none"
        /\ cli'.old = cli.old /\ cli'.start = cli.start /\ cli'.view = view
    BY <1>1, <1>4 DEF Synced, Watcher
  <2>2. \A i \in Replica : cli'.view[i].hash = dep[i].hash
    BY <2>1 DEF Glance
  <2>3. Pending([k \in Replica |-> cli.view[k].hash])' <=> Pending([k \in Replica |-> dep[k].hash])
    BY <2>1, <2>2 DEF Pending
  <2> QED BY <1>4, <2>1, <2>3 DEF AttachInv
<1> QED BY <1>2, <1>3, <1>4 DEF CheckSuspended, SyncAttach, SyncAndPatch, vars, cluster

\* A pending Deployment gets no synthetic event, and a new one has the new hash.
LEMMA AttachList ==
    ASSUME Prompt, TokenInv, TokenInv', Advance, WatchInv, AttachInv, ListDeployments
    PROVE  AttachInv'
<1>1. /\ cli \in Watcher /\ cli.pc = "list" /\ Cached(0) = cli.view /\ WatchTypeOK
      /\ cli.result = "none"
  BY CachedFirst DEF ListDeployments, WatchInv, WatchTypeOK, CommandInv
<1>2. PICK s \in Listings(Adopted(cli, cli.view)) :
        \/ cli' = Ended(cli, "error")
        \/ cli' = Ended(Adopt(cli, cli.view, s), printReport(Adopt(cli, cli.view, s)))
        \/ cli' = Adopt(cli, cli.view, s)
  BY <1>1 DEF ListDeployments
<1> DEFINE c == Adopt(cli, cli.view, s)
<1>3. /\ c \in Watcher
      /\ c.pc = "watch" /\ c.start = cli.start /\ c.mode = cli.mode
      /\ c.old = cli.old /\ c.result = cli.result /\ c.n = cli.n
      /\ \A i \in Replica :
           \/ c.at[i] = NoTimeline
           \/ /\ cli.mode = "attach" /\ cli.view[i].hash # cli.old
              /\ c.at[i].hash = cli.view[i].hash
              /\ c.at[i].rolled # 0 => cli.view[i].out
  BY <1>1, AdoptFacts
<1> HIDE DEF c
<1>4. ASSUME cli.mode = "attach"
      PROVE  /\ c.n = N
             /\ \E q \in Replica : c.at[q].updated # 0 => cli.start <= c.at[q].hash
  <2>1. PICK q \in Replica : cli.view[q].hash = cli.old \/ cli.start <= cli.view[q].hash
    BY <1>1, <1>4 DEF AttachInv, Pending
  <2>2. c.at[q].updated # 0 => cli.start <= c.at[q].hash
    BY <1>3, <2>1 DEF NoTimeline
  <2> QED BY <1>1, <1>3, <1>4, <2>2 DEF AttachInv
<1>5. \A i \in Replica : c.at[i].rolled # 0 => Loaded(i, c.at[i].hash)
  BY <1>1, <1>3 DEF NoTimeline, WatchInv, TimelineInv
<1>6. CASE cli' = Ended(cli, "error")
  BY <1>1, <1>6, AttachEnds DEF Verdicts
<1>7. CASE cli' = Ended(c, printReport(c))
  <2>1. c.mode = "attach" /\ printReport(c) = "passed" =>
          \A i \in rolledOut(c) : Loaded(i, c.start)
    BY <1>3, <1>4, <1>5, PassedFacts
  <2> QED BY <1>1, <1>3, <1>7, <2>1, ReportType, AttachEnds
<1>8. CASE cli' = c
  BY <1>1, <1>3, <1>4, <1>8 DEF AttachInv
<1> QED BY <1>2, <1>6, <1>7, <1>8 DEF c

\* The pending Deployment is counted when a hash that is new to the command comes.
LEMMA AttachEvent ==
    ASSUME TokenInv, TokenInv', Advance, WatchInv, AttachInv, DeploymentEvent
    PROVE  AttachInv'
<1> DEFINE e == Head(feed)
           c == handleDeployUpdate(cli, e)
           i == e.rep
<1>1. /\ cli \in Watcher /\ cli.pc \in {"watch", "drain"} /\ Listening
      /\ feed \in Seq(Event) /\ feed # <<>> /\ NewsInv /\ cli.result = "none"
  BY DEF DeploymentEvent, WatchInv, WatchTypeOK, CommandInv, Listening
<1>2. e \in Event /\ i \in Replica /\ e = feed[1] /\ 1 \in DOMAIN feed
  <2>1. \A x \in Event : x.rep \in Replica
    BY DEF Event
  <2> QED BY <1>1, <2>1, TailFacts
<1>3. /\ c \in Watcher
      /\ c.pc = cli.pc /\ c.start = cli.start /\ c.mode = cli.mode
      /\ c.result = cli.result /\ c.n = cli.n
      /\ \A k \in Replica : k # i => c.at[k] = cli.at[k]
      /\ \/ c.at[i].hash = cli.at[i].hash /\ c.at[i].updated = cli.at[i].updated
         \/ e.hash # cli.cur[i] /\ c.at[i].hash = e.hash
  BY <1>1, <1>2, HandleFacts
<1> HIDE DEF c
<1>4. cli' = c \/ cli' = Judge(c)
  BY DEF DeploymentEvent, c
<1>5. /\ cli'.pc \in {"watch", "drain"} /\ cli'.start = cli.start /\ cli'.mode = cli.mode
      /\ cli'.n = cli.n /\ cli'.result = "none" /\ cli'.at = c.at
  BY <1>1, <1>3, <1>4 DEF Judge, Watcher
<1>6. ASSUME cli.mode = "attach"
      PROVE  \E q \in Replica : c.at[q].updated # 0 => cli.start <= c.at[q].hash
  <2>1. PICK q \in Replica : cli.at[q].updated # 0 => cli.start <= cli.at[q].hash
    BY <1>1, <1>6 DEF AttachInv
  <2>2. e.hash # cli.cur[i] => cli.start <= e.hash
    BY <1>1, <1>2 DEF NewsInv, Base
  <2>3. CASE q # i
    BY <1>3, <2>1, <2>3
  <2>4. CASE q = i
    BY <1>3, <2>1, <2>2, <2>4
  <2> QED BY <2>3, <2>4
<1> QED BY <1>1, <1>5, <1>6 DEF AttachInv

\* The rest of the event loop.
LEMMA AttachLoop ==
    ASSUME TokenInv, TokenInv', Advance, WatchInv, AttachInv,
           handleGatewayUpdate \/ Report \/ Timeout
    PROVE  AttachInv'
<1>1. /\ cli \in Watcher /\ cli.pc \in {"watch", "drain"} /\ cli.result = "none"
      /\ WatchTypeOK /\ TimelineInv
  BY DEF handleGatewayUpdate, Report, Timeout, WatchInv, WatchTypeOK, CommandInv
<1>2. CASE Timeout
  BY <1>1, <1>2, AttachEnds DEF Timeout, Verdicts
<1>3. CASE Report
  <2>1. cli' = Ended(cli, printReport(cli))
    BY <1>3 DEF Report
  <2>2. \A i \in Replica : cli.at[i].rolled # 0 => Loaded(i, cli.at[i].hash)
    BY <1>1 DEF TimelineInv
  <2>3. cli.mode = "attach" /\ printReport(cli) = "passed" =>
          \A i \in rolledOut(cli) : Loaded(i, cli.start)
    BY <1>1, <2>2, PassedFacts DEF AttachInv
  <2> QED BY <1>1, <2>1, <2>3, ReportType, AttachEnds
<1>4. CASE handleGatewayUpdate
  <2> DEFINE c == [cli EXCEPT !.gw = GatewayNow, !.ready = ready, !.off = pause.on]
  <2>1. GatewayNow \in [ready : {"True", "False", "Unknown"}, off : BOOLEAN, req : Nat]
    BY <1>1 DEF GatewayNow, TokenInv, TypeOK, WatchTypeOK
  <2>2. /\ c \in Watcher /\ c.pc = cli.pc /\ c.start = cli.start /\ c.mode = cli.mode
        /\ c.n = cli.n /\ c.result = "none" /\ c.at = cli.at
    BY <1>1, <2>1 DEF Watcher, TokenInv, TypeOK, WatchTypeOK
  <2> HIDE DEF c
  <2>3. cli' \in {Ended(c, "suspended"), c, Judge(c)}
    BY <1>4 DEF handleGatewayUpdate, c
  <2>4. CASE cli' = Ended(c, "suspended")
    BY <1>1, <2>2, <2>4, AttachEnds DEF Verdicts
  <2>5. CASE cli' = c \/ cli' = Judge(c)
    <3>1. /\ cli'.pc \in {"watch", "drain"} /\ cli'.start = cli.start /\ cli'.mode = cli.mode
          /\ cli'.n = cli.n /\ cli'.result = "none" /\ cli'.at = cli.at
      BY <1>1, <2>2, <2>5 DEF Judge, Watcher
    <3> QED BY <1>1, <3>1 DEF AttachInv
  <2> QED BY <2>3, <2>4, <2>5
<1> QED BY <1>2, <1>3, <1>4

\* Every step keeps what attaching relies on.
LEMMA AttachStep ==
    ASSUME Prompt, MaxEdits = 0, TokenInv, WatchInv, DeployedInv, AttachInv,
           [WatchNext]_watchVars
    PROVE  AttachInv'
<1>1. TokenInv' /\ Advance /\ DeployedInv'
  BY WatchAdvances, DeployedStep
<1>2. CASE UNCHANGED cli
  BY <1>1, <1>2, AttachedStays
<1>3. CASE Watched \/ Toggle \/ UNCHANGED watchVars
  BY <1>2, <1>3 DEF Watched, Toggle, watchVars
<1>4. ASSUME NEW mode \in {"rotate", "attach"}, ReadCGS(mode) PROVE AttachInv'
  BY <1>1, <1>4, AttachRead
<1>5. ASSUME NEW i \in Replica, GetDeployment(i) PROVE AttachInv'
  BY <1>1, <1>5, AttachGet
<1>6. CASE CheckSuspended \/ SyncAttach \/ SyncAndPatch
  BY <1>1, <1>6, AttachSynced
<1>7. CASE ListDeployments
  BY <1>1, <1>7, AttachList
<1>8. CASE DeploymentEvent
  BY <1>1, <1>8, AttachEvent
<1>9. CASE handleGatewayUpdate \/ Report \/ Timeout
  BY <1>1, <1>9, AttachLoop
<1> QED BY <1>3, <1>4, <1>5, <1>6, <1>7, <1>8, <1>9 DEF WatchNext, Command

-----------------------------------------------------------------------------
(* The verdict.                                                            *)

\* If the informer cache does not change between the request and the listing,
\* what the command keeps of the rollout is true of the pods that run.
THEOREM WatchInvariant ==
    ASSUME Prompt
    PROVE  WatchSpec => [](TokenInv /\ WatchInv)
<1>1. WatchInit => TokenInv /\ WatchInv
  BY WatchInitInv
<1>2. TokenInv /\ WatchInv /\ [WatchNext]_watchVars => (TokenInv /\ WatchInv)'
  BY WatchAdvances, WatchStep
<1> QED BY <1>1, <1>2, PTL DEF WatchSpec

\* PASSED means that the old token can be given up: every pod of the Deployments
\* that `rotate gateway token --watch` reported has loaded a token newer than the
\* one it replaced, and with `watch gateway token` at least the announced one
\* (printReport and the event loop of watchRotation), for any lag of the events.
THEOREM PassedRotated ==
    ASSUME Prompt, MaxEdits = 0
    PROVE  WatchSpec => []PassedMeansRotated
<1> DEFINE Inv == TokenInv /\ WatchInv /\ DeployedInv /\ AttachInv
<1>1. WatchInit => Inv
  BY WatchInitInv
<1>2. Inv /\ [WatchNext]_watchVars => Inv'
  BY WatchAdvances, WatchStep, DeployedStep, AttachStep
<1>3. Inv => PassedMeansRotated
  <2> SUFFICES ASSUME Inv, cli.result = "passed", NEW i \in cli.checked, NEW p \in pods[i]
               PROVE  IF cli.mode = "rotate" THEN p.tok > cli.start ELSE p.tok >= cli.start
    BY DEF PassedMeansRotated
  <2>1. /\ cli \in Watcher /\ cli.start \in Nat /\ i \in Replica
        /\ cli.mode \in {"rotate", "attach"}
    BY DEF WatchInv, WatchTypeOK, Watcher
  <2>2. p.tok \in Nat
    BY <2>1 DEF TokenInv, TypeOK, Pod
  <2>3. CASE cli.mode = "rotate"
    <3>1. cli.start + 1 <= p.tok
      BY <2>3 DEF WatchInv, TimelineInv, Loaded
    <3> QED BY <2>1, <2>2, <2>3, <3>1
  <2>4. CASE cli.mode = "attach"
    <3>1. cli.start <= p.tok
      BY <2>4 DEF AttachInv, Loaded
    <3> QED BY <2>1, <2>2, <2>4, <3>1
  <2> QED BY <2>1, <2>3, <2>4
<1> QED BY <1>1, <1>2, <1>3, PTL DEF WatchSpec

\* What a step of the system does to the Deployments, as far as the order of the
\* rolling update goes: at most Deployment i changes.  Its pods move, and the
\* command can see when that completes its rollout; or it gets the newest token,
\* and all Deployments before it are complete with that token.
Turn(i) ==
    /\ \A k \in Replica \ {i} : dep'[k] = dep[k]
    /\ \/ /\ dep'[i].hash = dep[i].hash /\ dep'[i].gen = dep[i].gen
          /\ Complete(dep[i]) => Complete(dep'[i])
          /\ Complete(dep'[i]) => \/ Complete(dep[i])
                                  \/ ~Glance(dep[i]).out /\ Glance(dep'[i]).out
       \/ /\ token' = token /\ dep'[i].hash = token
          /\ dep'[i].hash # dep[i].hash \/ dep'[i].tmpl # dep[i].tmpl
          /\ ~Complete(dep'[i]) /\ dep'[i].gen # 1
          /\ \A k \in Replica : k < i => dep[k].hash = token /\ Complete(dep[k])

-----------------------------------------------------------------------------
(* The order of the rolling update.                                        *)

\* A rollout completes when one pod is left, ready and of the current template.
LEMMA ObservedComplete ==
    ASSUME NEW d \in Deployment, NEW ps \in SUBSET Pod, IsFiniteSet(ps), d.obs <= d.gen,
           isDeploymentRolledOut(d) => d.prog = "available",
           Complete(Observed(d, ps)), ~Complete(d)
    PROVE  /\ isDeploymentRolledOut(Observed(d, ps)) /\ ~isDeploymentRolledOut(d)
           /\ \A p \in ps : p.ready /\ IsCurrent(p, d)
<1> DEFINE current == {p \in ps : IsCurrent(p, d)}
           rdy == {p \in ps : p.ready}
           done == Cardinality(ps) = 1 /\ \E p \in current : p.ready
           O == Observed(d, ps)
<1>1. O.prog = IF done THEN "available" ELSE IF d.obs # d.gen THEN "progressing" ELSE d.prog
  BY DEF Observed
<1>2. done
  BY <1>1 DEF Complete
<1>3. PICK p \in ps : p.ready /\ IsCurrent(p, d)
  BY <1>2
<1>4. ps = {p}
  <2>1. \E x : ps = {x}
    BY <1>2, FS_Singleton
  <2> QED BY <1>3, <2>1
<1>5. current = ps /\ rdy = ps
  BY <1>3, <1>4
<1>6. O.obs = O.gen /\ O.updated = 1 /\ O.replicas = 1 /\ O.ready = 1
  BY <1>2, <1>5 DEF Observed
<1>7. O \in Deployment
  BY ObservedType
<1>8. isDeploymentRolledOut(O)
  BY <1>6, <1>7 DEF isDeploymentRolledOut, desiredReplicas, Deployment
<1>9. d.obs < d.gen \/ d.obs = d.gen
  BY DEF Deployment
<1>10. ~isDeploymentRolledOut(d)
  BY <1>9 DEF Complete, isDeploymentRolledOut, Deployment
<1> QED BY <1>3, <1>4, <1>8, <1>10

\* The command sees what the controller sees.
LEMMA GlanceOut ==
    ASSUME NEW d
    PROVE  Glance(d).hash = d.hash /\ Glance(d).out = isDeploymentRolledOut(d)
BY DEF Glance, isWatchDeploymentRolledOut, isDeploymentRolledOut, desiredReplicas

\* The pods of one Deployment move.
LEMMA PodTurn ==
    ASSUME TokenInv, UpdateInv, NEW i \in Replica,
           StartRollout(i) \/ PodBecomesReady(i) \/ RetireOldPod(i) \/ RestartPod(i)
    PROVE  Turn(i)
<1>1. PICK ps \in SUBSET Pod :
        /\ IsFiniteSet(ps)
        /\ pods' = [pods EXCEPT ![i] = ps]
        /\ dep' = dep \/ dep' = [dep EXCEPT ![i] = Observed(dep[i], ps)]
  BY PodStep DEF TokenInv
<1>2. /\ dep \in [Replica -> Deployment] /\ dep[i] \in Deployment /\ dep[i].obs <= dep[i].gen
      /\ dep[i].prog # "failed" /\ (isDeploymentRolledOut(dep[i]) => dep[i].prog = "available")
  BY DEF TokenInv, TypeOK, ObservedInOrder, UpdateInv
<1>3. CASE dep' = dep
  BY <1>3 DEF Turn
<1>4. CASE dep' = [dep EXCEPT ![i] = Observed(dep[i], ps)]
  <2> DEFINE O == Observed(dep[i], ps)
  <2>1. /\ O.hash = dep[i].hash /\ O.gen = dep[i].gen /\ O.obs = dep[i].gen
        /\ Complete(dep[i]) => O.prog = "available"
    <3>1. UniquePods'
      BY UniqueStep DEF UpdateInv
    <3>2. \A p, q \in ps : p.hash = q.hash /\ p.tmpl = q.tmpl => p = q
      BY <1>1, <3>1 DEF UniquePods, TokenInv, TypeOK
    <3> QED BY <1>1, <1>2, <3>2, ObservedType, ObservedAvailable DEF Complete
  <2>2. Complete(dep[i]) => Complete(O)
    BY <2>1 DEF Complete
  <2>3. Complete(O) => Complete(dep[i]) \/ (~Glance(dep[i]).out /\ Glance(O).out)
    BY <1>1, <1>2, ObservedComplete, GlanceOut
  <2>4. dep'[i] = O /\ \A k \in Replica \ {i} : dep'[k] = dep[k]
    BY <1>2, <1>4
  <2> QED BY <2>1, <2>2, <2>3, <2>4 DEF Turn
<1> QED BY <1>1, <1>3, <1>4

\* The controller applies the template of one Deployment.
LEMMA ApplyTurn ==
    ASSUME TokenInv, UpdateInv, DeployedInv, SpreadInv,
           NEW i \in Replica, applyTunnelDeployment(i)
    PROVE  Turn(i)
<1>1. /\ dep \in [Replica -> Deployment] /\ dep[i] \in Deployment /\ dep[i].obs <= dep[i].gen
      /\ rec.pc = "apply" /\ rec.hash = token /\ rec.want = Replica /\ Exists(dep[i])
      /\ \A k \in rec.todo : i <= k
      /\ rec.todo \subseteq Replica /\ i \in Nat
  BY DEF TokenInv, TypeOK, ObservedInOrder, TokenOrder, Stored, DeployedInv,
         applyTunnelDeployment, NextReplica, Replica
<1>2. /\ dep' = dep \/ dep' = [dep EXCEPT ![i] = Applied(dep[i])]
      /\ token' = token
  BY DEF applyTunnelDeployment
<1>3. CASE dep' = dep
  BY <1>3 DEF Turn
<1>4. CASE dep' = [dep EXCEPT ![i] = Applied(dep[i])] /\ Applied(dep[i]) # dep[i]
  <2> DEFINE A == Applied(dep[i])
  <2>1. /\ A.hash = token /\ A.gen = dep[i].gen + 1 /\ A.obs = dep[i].obs
        /\ A.hash # dep[i].hash \/ A.tmpl # dep[i].tmpl
    BY <1>1, <1>4 DEF Applied
  <2>2. ~Complete(A) /\ A.gen # 1
    BY <1>1, <2>1 DEF Complete, Exists, Deployment
  <2>3. dep'[i] = A /\ \A k \in Replica \ {i} : dep'[k] = dep[k]
    BY <1>1, <1>4
  <2>4. ASSUME NEW k \in Replica, k < i
        PROVE  dep[k].hash = token /\ Complete(dep[k])
    <3>1. k \in rec.want \ rec.todo
      BY <1>1, <2>4 DEF Replica
    <3>2. dep[k].hash = token
      BY <1>1, <3>1 DEF TokenInv, DoneReplicas
    <3>3. Complete(dep[k])
      BY <1>1, <3>1 DEF UpdateInv, SpreadInv, Complete
    <3> QED BY <3>2, <3>3
  <2> QED BY <1>2, <2>1, <2>2, <2>3, <2>4 DEF Turn
<1> QED BY <1>1, <1>2, <1>3, <1>4

\* A step that leaves the Deployments alone is no one's turn.
LEMMA NoTurn ==
    ASSUME UNCHANGED dep
    PROVE  \E i \in Replica : Turn(i)
<1>1. 1 \in Replica
  BY NAssumption DEF Replica
<1> QED BY <1>1 DEF Turn

\* In every step of the system it is the turn of at most one Deployment.
LEMMA NextTurn ==
    ASSUME ~Deadlines, TokenInv, UpdateInv, DeployedInv, SpreadInv, Next
    PROVE  \E i \in Replica : Turn(i)
<1>1. ASSUME NEW i \in Replica,
             StartRollout(i) \/ PodBecomesReady(i) \/ RetireOldPod(i) \/ RestartPod(i)
      PROVE  \E k \in Replica : Turn(k)
  BY <1>1, PodTurn
<1>2. ASSUME NEW i \in Replica, applyTunnelDeployment(i) PROVE \E k \in Replica : Turn(k)
  BY <1>2, ApplyTurn
<1>3. ASSUME NEW failed \in SUBSET Replica, cleanupStaleTunnelResources(failed)
      PROVE  \E k \in Replica : Turn(k)
  <2>1. rec.want = Replica /\ dep \in [Replica -> Deployment]
    BY <1>3 DEF cleanupStaleTunnelResources, DeployedInv, TokenInv, TypeOK
  <2>2. PICK gone \in SUBSET (Replica \ rec.want) :
          dep' = [i \in Replica |-> IF i \in gone THEN Absent ELSE dep[i]]
    BY <1>3 DEF cleanupStaleTunnelResources
  <2>3. dep' = [i \in Replica |-> dep[i]]
    BY <2>1, <2>2
  <2> QED BY <2>1, <2>3, NoTurn
<1>4. ASSUME NEW i \in Replica, DeadlineExceeded(i) PROVE FALSE
  BY <1>4 DEF DeadlineExceeded
<1>5. CASE User
  BY <1>5, NoTurn DEF User, PublishTemplate, EditReplicas, RequestRotation, CronTrigger,
     Requeue, cluster
<1>6. CASE \/ StartReconcile \/ maybeRotateToken \/ WriteTokenSecret \/ patchCGSTokenHash
           \/ ApplyNothing \/ checkAllDeploymentsReadiness \/ reconcileCGS
           \/ patchGatewayStatus \/ NonFatalError \/ Abort
  BY <1>6, NoTurn DEF StartReconcile, maybeRotateToken, WriteTokenSecret, patchCGSTokenHash,
     ApplyNothing, checkAllDeploymentsReadiness, reconcileCGS, patchGatewayStatus,
     NonFatalError, Abort, cluster
<1>7. ASSUME NEW i \in Replica, SyncCache(i) PROVE \E k \in Replica : Turn(k)
  BY <1>7, NoTurn DEF SyncCache
<1>8. CASE Reconcile
  BY <1>2, <1>3, <1>6, <1>8 DEF Reconcile
<1>9. ASSUME NEW i \in Replica, Kubernetes(i) PROVE \E k \in Replica : Turn(k)
  BY <1>1, <1>4, <1>7, <1>9 DEF Kubernetes
<1> QED BY <1>5, <1>6, <1>8, <1>9 DEF Next

\* The newest hash keeps spreading in order.
LEMMA SpreadStays ==
    ASSUME TokenInv, TokenInv', Advance, SpreadInv, NEW i \in Replica, Turn(i)
    PROVE  SpreadInv'
<1>1. /\ token \in Nat /\ token' \in Nat /\ token <= token'
      /\ \A k \in Replica : dep[k].hash \in Nat /\ dep[k].hash <= token
  <2>1. \A k \in Replica : dep[k] \in Deployment /\ dep[k].hash <= secret
    BY DEF TokenInv, TypeOK, TokenOrder
  <2>2. token \in Nat /\ token' \in Nat /\ secret \in Nat /\ secret <= token
    BY DEF TokenInv, TypeOK, TokenOrder
  <2> QED BY <2>1, <2>2 DEF Deployment, Advance
<1>2. \A k \in Replica : dep'[k].gen = 1 => Complete(dep'[k])
  BY DEF Turn, SpreadInv
<1>3. ASSUME NEW j \in Replica, NEW k \in Replica, k < j, dep'[j].hash = token'
      PROVE  dep'[k].hash = token'
  BY <1>1, <1>3 DEF Turn, SpreadInv
<1> QED BY <1>2, <1>3 DEF SpreadInv

\* The command's own steps leave the cluster and the reconcile alone.
LEMMA WatchCases ==
    ASSUME [WatchNext]_watchVars
    PROVE  \/ Next /\ Watched
           \/ /\ UNCHANGED <<tmpl, token, secret, dep, pods, rec>>
              /\ used' = used \/ used' = [used EXCEPT !.rotations = @ + 1]
<1>1. CASE SkipReconcile \/ Toggle \/ (\E mode \in {"rotate", "attach"} : ReadCGS(mode))
  BY <1>1 DEF SkipReconcile, Toggle, ReadCGS, inputs, cluster
<1>2. CASE SyncAndPatch \/ UNCHANGED watchVars
  BY <1>2 DEF SyncAndPatch, vars, cluster, watchVars
<1>3. CASE \/ (\E i \in Replica : GetDeployment(i)) \/ CheckSuspended \/ SyncAttach
           \/ ListDeployments \/ DeploymentEvent \/ handleGatewayUpdate \/ Report \/ Timeout
  BY <1>3 DEF GetDeployment, CheckSuspended, SyncAttach, ListDeployments, DeploymentEvent,
     handleGatewayUpdate, Report, Timeout, vars
<1> QED BY <1>1, <1>2, <1>3 DEF WatchNext, Command

\* The rollout goes on as if nobody watched.
LEMMA WatchUpdate ==
    ASSUME ~CacheLag, ~Deadlines, TokenInv, UpdateInv, [WatchNext]_watchVars
    PROVE  UpdateInv'
<1>1. CASE Next
  BY <1>1, UpdateStep
<1>2. CASE UNCHANGED <<dep, pods, rec>>
  BY <1>2 DEF UpdateInv, UniquePods, isDeploymentRolledOut
<1> QED BY <1>1, <1>2, WatchCases

-----------------------------------------------------------------------------
(* The events on their way.                                                *)

\* Queue p is q with event e appended, as far as the command c is concerned.
Appended(c, q, p, e) ==
    LET n == Len(q) IN
    /\ n \in Nat /\ DOMAIN q = 1..n /\ DOMAIN p = 1..(n + 1) /\ Len(p) = n + 1
    /\ p[n + 1] = e /\ \A k \in 1..n : p[k] = q[k]
    /\ \A x \in Replica, h \in Nat : \A k \in 1..(n + 1) :
         /\ Comes(p, x, h, k) <=> Comes(q, x, h, k)
         /\ Noted(c, p, x, h, k) <=> Noted(c, q, x, h, k)
         /\ Finished(c, p, x, h, k) <=> Finished(c, q, x, h, k)
    /\ \A x \in Replica, h \in Nat :
         /\ Comes(p, x, h, n + 2) <=> Comes(q, x, h, n + 1) \/ (x = e.rep /\ h = e.hash)
         /\ Finished(c, p, x, h, n + 2) <=>
              Finished(c, q, x, h, n + 1) \/ (x = e.rep /\ h = e.hash /\ e.out)

\* An event that is appended comes after all others.
LEMMA AppendFacts ==
    ASSUME NEW q \in Seq(Event), NEW e \in Event, NEW p, p = Append(q, e), NEW c
    PROVE  Appended(c, q, p, e)
<1> DEFINE n == Len(q)
<1>1. /\ n \in Nat /\ DOMAIN q = 1..n /\ DOMAIN p = 1..(n + 1) /\ Len(p) = n + 1
      /\ p[n + 1] = e /\ \A k \in 1..n : p[k] = q[k]
  OBVIOUS
<1> HIDE DEF n
<1>2. ASSUME NEW x, NEW h, NEW k \in 1..(n + 1)
      PROVE  Comes(p, x, h, k) <=> Comes(q, x, h, k)
  BY <1>1 DEF Comes
<1>3. ASSUME NEW x, NEW h, NEW k \in 1..(n + 1)
      PROVE  Finished(c, p, x, h, k) <=> Finished(c, q, x, h, k)
  BY <1>1 DEF Finished
<1>4. ASSUME NEW x, NEW h
      PROVE  /\ Comes(p, x, h, n + 2) <=> Comes(q, x, h, n + 1) \/ (x = e.rep /\ h = e.hash)
             /\ Finished(c, p, x, h, n + 2) <=>
                  Finished(c, q, x, h, n + 1) \/ (x = e.rep /\ h = e.hash /\ e.out)
  <2>1. \A l : l \in 1..(n + 1) /\ l < n + 2 <=> (l \in 1..n /\ l < n + 1) \/ l = n + 1
    BY <1>1
  <2>2. n + 1 \notin 1..n
    BY <1>1
  <2> QED BY <1>1, <2>1, <2>2 DEF Comes, Finished
<1> QED BY <1>1, <1>2, <1>3, <1>4 DEF n, Noted, Appended

\* What the command knows of a Deployment is not newer than the Deployment.
LEMMA NotedOld ==
    ASSUME TokenInv, WatchInv, Listening, NEW i \in Replica, Exists(dep[i]), NEW h, NEW k,
           Noted(cli, feed, i, h, k)
    PROVE  h <= dep[i].hash
<1>1. FeedInv /\ NewsInv
  BY DEF WatchInv
<1>2. CASE Logged(cli, i, h)
  <2>1. h = Floor(i)
    BY <1>2 DEF Logged, Timeline, Floor, AdoptedLine, NoTimeline
  <2> QED BY <1>1, <2>1 DEF NewsInv
<1>3. CASE Comes(feed, i, h, k)
  BY <1>1, <1>3 DEF Comes, FeedInv
<1> QED BY <1>2, <1>3 DEF Noted

\* The command hears of the turn of a Deployment.
LEMMA HeardStays ==
    ASSUME TokenInv, TokenInv', WatchInv, DeployedInv, DeployedInv', SpreadInv,
           HeardInv, InTurnInv, Watched, NEW i \in Replica, Turn(i)
    PROVE  HeardInv' /\ InTurnInv'
<1> DEFINE n == Len(feed)
           m == Len(feed')
<1>0. UNCHANGED cli /\ Deliver /\ feed \in Seq(Event)
  BY DEF Watched, WatchInv, WatchTypeOK
<1> SUFFICES ASSUME Listening
             PROVE  /\ \A x \in Replica :
                         /\ Awaited(cli, x, dep'[x].hash) => Comes(feed', x, dep'[x].hash, m + 1)
                         /\ Requester /\ Complete(dep'[x]) /\ Noted(cli, feed', x, dep'[x].hash, m + 1)
                              => Finished(cli, feed', x, dep'[x].hash, m + 1)
                    /\ Requester => \A k \in DOMAIN feed' : \A x \in Replica \ {feed'[k].rep} :
                         Marks(cli, feed', k) /\ Noted(cli, feed', x, feed'[k].hash, k) =>
                           Finished(cli, feed', x, feed'[k].hash, k)
  BY <1>0 DEF HeardInv, InTurnInv, Listening, Requester
<1> DEFINE e == [rep |-> i, hash |-> dep'[i].hash, out |-> Glance(dep'[i]).out]
<1>1. \/ /\ feed' = feed
         /\ Glance(dep'[i]) = Glance(dep[i])
      \/ feed' = Append(feed, e)
  <2> DEFINE news == {j \in Replica :
                        /\ Exists(dep[j]) /\ Exists(dep'[j]) /\ dep'[j] # dep[j]
                        /\ \/ Glance(dep'[j]) # Glance(dep[j])
                           \/ cli.pc # "list" /\ cli.cur[j] = 0}
  <2>1. \A j \in news : j = i
    BY DEF Turn
  <2>2. CASE news = {}
    <3>1. dep'[i] = dep[i] \/ Glance(dep'[i]) = Glance(dep[i])
      BY <2>2 DEF DeployedInv
    <3> QED BY <1>0, <2>2, <3>1 DEF Deliver
  <2>3. CASE news # {}
    <3>1. (CHOOSE j \in news : TRUE) = i
      BY <2>1, <2>3
    <3> QED BY <1>0, <2>3, <3>1 DEF Deliver
  <2> QED BY <2>2, <2>3
<1>2. /\ \A x \in Replica : dep[x] \in Deployment /\ dep'[x] \in Deployment /\ Exists(dep[x])
      /\ \A x \in Replica : dep[x].hash \in Nat /\ dep[x].hash <= token /\ x \in Nat
      /\ token \in Nat
  <2>1. \A x \in Replica : dep[x] \in Deployment /\ dep'[x] \in Deployment /\ dep[x].hash <= secret
    BY DEF TokenInv, TypeOK, TokenOrder
  <2>2. token \in Nat /\ secret \in Nat /\ secret <= token
    BY DEF TokenInv, TypeOK, TokenOrder
  <2>3. \A x \in Replica : Exists(dep[x]) /\ x \in Nat
    BY DEF DeployedInv, Replica
  <2>4. \A x \in Replica : dep[x].hash \in Nat
    BY <2>1 DEF Deployment
  <2> QED BY <2>1, <2>2, <2>3, <2>4
<1>3. CASE feed' = feed /\ Glance(dep'[i]) = Glance(dep[i])
  <2>1. ASSUME NEW x \in Replica
        PROVE  dep'[x].hash = dep[x].hash /\ (Complete(dep'[x]) => Complete(dep[x]))
    <3>1. CASE x # i
      BY <3>1 DEF Turn
    <3>2. CASE x = i
      BY <1>3, <3>2, GlanceOut DEF Turn
    <3> QED BY <3>1, <3>2
  <2>2. m = n
    BY <1>3
  <2> QED BY <1>3, <2>1, <2>2 DEF HeardInv, InTurnInv
<1>4. CASE feed' = Append(feed, e)
  <2>1. e \in Event /\ e.rep = i /\ e.hash = dep'[i].hash /\ e.out = Glance(dep'[i]).out
    <3>1. Glance(dep'[i]).out \in BOOLEAN
      BY <1>2, GlanceOut DEF isDeploymentRolledOut
    <3> QED BY <1>2, <3>1 DEF Event, Deployment
  <2> HIDE DEF e
  <2>2. /\ n \in Nat /\ DOMAIN feed = 1..n /\ DOMAIN feed' = 1..(n + 1) /\ m = n + 1
        /\ feed'[n + 1] = e /\ \A k \in 1..n : feed'[k] = feed[k]
        /\ \A x \in Replica, h \in Nat : \A k \in 1..(n + 1) :
             /\ Comes(feed', x, h, k) <=> Comes(feed, x, h, k)
             /\ Noted(cli, feed', x, h, k) <=> Noted(cli, feed, x, h, k)
             /\ Finished(cli, feed', x, h, k) <=> Finished(cli, feed, x, h, k)
        /\ \A x \in Replica, h \in Nat :
             /\ Comes(feed', x, h, n + 2) <=> Comes(feed, x, h, n + 1) \/ (x = e.rep /\ h = e.hash)
             /\ Finished(cli, feed', x, h, n + 2) <=>
                  Finished(cli, feed, x, h, n + 1) \/ (x = e.rep /\ h = e.hash /\ e.out)
    <3>1. Appended(cli, feed, feed', e)
      BY <1>0, <1>4, <2>1, AppendFacts
    <3> QED BY <3>1 DEF Appended
  <2>3. m + 1 = n + 2
    BY <2>2
  <2>4. \A x \in Replica \ {i} : dep'[x] = dep[x]
    BY DEF Turn
  <2> HIDE DEF n, m
  <2>5. ASSUME NEW x \in Replica, Awaited(cli, x, dep'[x].hash)
        PROVE  Comes(feed', x, dep'[x].hash, n + 2)
    <3>1. CASE x # i
      BY <1>2, <2>2, <2>4, <2>5, <3>1 DEF HeardInv, n, Deployment
    <3>2. CASE x = i
      BY <1>2, <2>1, <2>2, <3>2 DEF Deployment
    <3> QED BY <3>1, <3>2
  <2>6. ASSUME NEW x \in Replica, Requester, Complete(dep'[x]), Noted(cli, feed', x, dep'[x].hash, n + 2)
        PROVE  Finished(cli, feed', x, dep'[x].hash, n + 2)
    <3>1. dep'[x].hash \in Nat /\ dep[x].hash \in Nat
      BY <1>2 DEF Deployment
    <3>2. CASE x # i
      <4>1. Noted(cli, feed, x, dep[x].hash, n + 1)
        BY <2>1, <2>2, <2>4, <2>6, <3>1, <3>2 DEF Noted
      <4>2. Finished(cli, feed, x, dep[x].hash, n + 1)
        BY <2>4, <2>6, <3>2, <4>1 DEF HeardInv, n
      <4> QED BY <2>2, <2>4, <3>1, <3>2, <4>2
    <3>3. CASE x = i /\ ~Complete(dep[i])
      <4>1. Glance(dep'[i]).out
        BY <2>6, <3>3 DEF Turn
      <4> QED BY <2>1, <2>2, <3>1, <3>3, <4>1
    <3>4. CASE x = i /\ Complete(dep[i])
      <4>1. dep'[i].hash = dep[i].hash
        BY <2>6, <3>4 DEF Turn
      <4>2. Noted(cli, feed, i, dep[i].hash, n + 1)
        BY <2>6, <3>4, <4>1 DEF Noted, HeardInv, n
      <4>3. Finished(cli, feed, i, dep[i].hash, n + 1)
        BY <2>6, <3>4, <4>2 DEF HeardInv, n
      <4> QED BY <2>2, <3>1, <3>4, <4>1, <4>3
    <3> QED BY <3>2, <3>3, <3>4
  <2>7. ASSUME Requester, NEW k \in 1..(n + 1), NEW x \in Replica \ {feed'[k].rep},
               Marks(cli, feed', k), Noted(cli, feed', x, feed'[k].hash, k)
        PROVE  Finished(cli, feed', x, feed'[k].hash, k)
    <3>1. feed'[k].hash \in Nat /\ feed'[k].rep \in Replica
      <4>1. feed'[k] \in Event
        <5>1. CASE k = n + 1
          BY <2>1, <2>2, <5>1
        <5>2. CASE k \in 1..n
          BY <1>0, <2>2, <5>2
        <5> QED BY <2>2, <5>1, <5>2
      <4> QED BY <4>1 DEF Event
    <3>2. /\ Noted(cli, feed, x, feed'[k].hash, k)
          /\ ~Comes(feed, feed'[k].rep, feed'[k].hash, k)
          /\ Finished(cli, feed, x, feed'[k].hash, k) => Finished(cli, feed', x, feed'[k].hash, k)
      BY <2>2, <2>7, <3>1 DEF Marks
    <3>3. CASE k \in 1..n
      <4>1. feed'[k] = feed[k] /\ k \in DOMAIN feed
        BY <2>2, <3>3
      <4>2. Marks(cli, feed, k)
        BY <2>7, <3>2, <4>1 DEF Marks
      <4> QED BY <2>7, <3>2, <4>1, <4>2 DEF InTurnInv
    <3>4. CASE k = n + 1
      <4>1. feed'[k] = e /\ x # i /\ x \in Replica
        BY <2>1, <2>2, <2>7, <3>4
      <4>2. dep[i].hash # e.hash
        BY <2>1, <2>7, <3>2, <3>4, <4>1 DEF Marks, HeardInv, n
      <4>3. /\ e.hash = token
            /\ \A y \in Replica : y < i => dep[y].hash = token /\ Complete(dep[y])
        BY <2>1, <4>2 DEF Turn
      <4>4. token <= dep[x].hash
        BY <1>2, <3>2, <4>1, <4>3, NotedOld
      <4>5. dep[x].hash = token /\ x < i
        <5>1. dep[x].hash = token
          BY <1>2, <4>1, <4>4
        <5>2. ~(i < x)
          BY <2>1, <4>2, <4>3, <5>1 DEF SpreadInv
        <5> QED BY <1>2, <4>1, <5>1, <5>2
      <4>6. Finished(cli, feed, x, token, n + 1)
        BY <2>7, <3>2, <3>4, <4>1, <4>3, <4>5 DEF HeardInv, n
      <4> QED BY <3>2, <3>4, <4>1, <4>3, <4>6
    <3> QED BY <2>2, <3>3, <3>4
  <2> QED BY <2>2, <2>3, <2>5, <2>6, <2>7
<1> QED BY <1>1, <1>3, <1>4

\* The command takes note of nothing that concerns the Deployments.
LEMMA HeardSame ==
    ASSUME WatchTypeOK, HeardInv, InTurnInv, Listening, UNCHANGED <<dep, feed>>,
           cli'.old = cli.old, cli'.mode = cli.mode,
           \A x \in Replica :
               /\ Known(cli', x) = Known(cli, x)
               /\ Timeline(cli', x).hash = Timeline(cli, x).hash
               /\ Timeline(cli', x).updated = 0 <=> Timeline(cli, x).updated = 0
               /\ Timeline(cli', x).rolled = 0 <=> Timeline(cli, x).rolled = 0
    PROVE  HeardInv' /\ InTurnInv'
<1>1. ASSUME NEW x \in Replica, NEW h, NEW k
      PROVE  /\ Awaited(cli', x, h) <=> Awaited(cli, x, h)
             /\ Noted(cli', feed, x, h, k) <=> Noted(cli, feed, x, h, k)
             /\ Finished(cli', feed, x, h, k) <=> Finished(cli, feed, x, h, k)
  BY DEF Awaited, Logged, Noted, Finished
<1>2. \A k \in DOMAIN feed : feed[k].rep \in Replica
  <2>1. \A k \in DOMAIN feed : feed[k] \in Event
    BY DEF WatchTypeOK
  <2> QED BY <2>1 DEF Event
<1>3. \A k \in DOMAIN feed : Marks(cli', feed, k) <=> Marks(cli, feed, k)
  BY <1>1, <1>2 DEF Marks
<1>4. Requester' <=> Requester
  BY DEF Requester
<1>5. HeardInv'
  BY <1>1, <1>4 DEF HeardInv
<1>6. InTurnInv'
  BY <1>1, <1>3, <1>4 DEF InTurnInv
<1> QED BY <1>5, <1>6

\* Handling event e turns command c into d.
Took(c, e, d) ==
    LET i == e.rep
        t == c.at[i]
        new == e.hash # c.cur[i] /\ e.hash # c.old
        upd == t.updated = 0 /\ new
    IN /\ d \in Watcher
       /\ d.pc = c.pc /\ d.start = c.start /\ d.mode = c.mode /\ d.pend = c.pend
       /\ d.old = c.old /\ d.result = c.result /\ d.n = c.n
       /\ \A k \in Replica : k # i => d.cur[k] = c.cur[k] /\ d.at[k] = c.at[k]
       /\ d.cur[i] = IF new THEN e.hash ELSE c.cur[i]
       /\ d.at[i].updated = IF upd THEN c.events + 1 ELSE t.updated
       /\ d.at[i].hash = IF upd THEN e.hash ELSE t.hash
       /\ d.at[i].rolled = t.rolled \/ (t.rolled = 0 /\ d.at[i].rolled = d.events)
       /\ e.out /\ d.at[i].updated # 0 => d.at[i].rolled # 0
       /\ (IF upd THEN c.events + 1 ELSE c.events) <= d.events

\* What one event changes, exactly.
LEMMA HandleExact ==
    ASSUME NEW c \in Watcher, NEW e \in Event
    PROVE  Took(c, e, handleDeployUpdate(c, e))
<1> DEFINE i == e.rep
           t == c.at[i]
           new == e.hash # c.cur[i] /\ e.hash # c.old
           upd == new /\ t.updated = 0
           out == (upd \/ t.updated # 0) /\ t.rolled = 0 /\ e.out
           at == c.events + (IF upd THEN 1 ELSE 0)
           line == [updated |-> IF upd THEN at ELSE t.updated,
                    hash    |-> IF upd THEN e.hash ELSE t.hash,
                    rolled  |-> IF out THEN at + 1 ELSE t.rolled]
           cur == [c.cur EXCEPT ![i] = IF new THEN e.hash ELSE @]
           lines == [c.at EXCEPT ![i] = line]
           events == IF out THEN at + 1 ELSE at
           all == c.all \/ (out /\ Cardinality(rolledOut(c)) + 1 = c.n)
           d == handleDeployUpdate(c, e)
<1>1. /\ i \in Replica /\ e.hash \in Nat /\ e.out \in BOOLEAN
      /\ c.cur \in [Replica -> Nat] /\ c.at \in [Replica -> Line] /\ c.events \in Nat
      /\ c.all \in BOOLEAN
  BY DEF Event, Watcher
<1>2. t \in Line /\ t.updated \in Nat /\ t.rolled \in Nat
  BY <1>1 DEF Line
<1>3. at \in Nat /\ events \in Nat /\ at = (IF upd THEN c.events + 1 ELSE c.events)
      /\ at <= events
  BY <1>1
<1>4. d = [c EXCEPT !.cur = cur, !.events = events, !.at = lines, !.all = all]
  BY DEF handleDeployUpdate, Watcher
<1>5. /\ \A k \in Replica : k # i => cur[k] = c.cur[k] /\ lines[k] = c.at[k]
      /\ cur[i] = (IF new THEN e.hash ELSE c.cur[i])
      /\ lines[i] = line
  BY <1>1
<1>6. /\ line.updated = (IF upd THEN c.events + 1 ELSE t.updated)
      /\ line.hash = (IF upd THEN e.hash ELSE t.hash)
      /\ line.rolled = t.rolled \/ (t.rolled = 0 /\ line.rolled = events)
      /\ e.out /\ line.updated # 0 => line.rolled # 0
  BY <1>1, <1>2, <1>3
<1>7. d \in Watcher
  BY HandleFacts
<1> HIDE DEF cur, events, lines, all, line, d
<1>8. /\ d.pc = c.pc /\ d.start = c.start /\ d.mode = c.mode /\ d.pend = c.pend
      /\ d.old = c.old /\ d.result = c.result /\ d.n = c.n
      /\ d.cur = cur /\ d.at = lines /\ d.events = events
  BY <1>4 DEF Watcher
<1> QED BY <1>3, <1>5, <1>6, <1>7, <1>8 DEF Took, d

\* The first event is handled: what was to come of the others still is.
LEMMA HeardPop ==
    ASSUME WatchInv, HeardInv, InTurnInv, DeploymentEvent, TokenInv
    PROVE  HeardInv' /\ InTurnInv'
<1> DEFINE e == Head(feed)
           c == handleDeployUpdate(cli, e)
           i == e.rep
           n == Len(feed)
<1>1. /\ cli \in Watcher /\ cli.pc \in {"watch", "drain"} /\ Listening /\ UNCHANGED dep
  BY DEF DeploymentEvent, WatchInv, WatchTypeOK, Listening, vars, cluster
<1>2. /\ n \in Nat /\ n >= 1 /\ DOMAIN feed = 1..n
      /\ e = feed[1] /\ e \in Event /\ i \in Replica /\ Len(feed') = n - 1
      /\ DOMAIN feed' = 1..(n - 1)
      /\ \A j \in 1..(n - 1) : j + 1 \in 1..n /\ feed'[j] = feed[j + 1]
      /\ \A j \in 1..n : feed[j] \in Event
  <2>1. feed \in Seq(Event) /\ feed # <<>> /\ feed' = Tail(feed)
    BY DEF DeploymentEvent, WatchInv, WatchTypeOK
  <2>2. Head(feed).rep \in Replica
    BY <2>1, TailFacts DEF Event
  <2>3. Len(feed') = n - 1
    BY <2>1
  <2> QED BY <2>1, <2>2, <2>3, TailFacts
<1>3. Took(cli, e, c) /\ (cli' = c \/ cli' = Judge(c))
  BY <1>1, <1>2, HandleExact DEF DeploymentEvent
<1> HIDE DEF c, e, i, n
<1>4. /\ cli'.pc \in {"watch", "drain"} /\ Listening' /\ cli'.old = cli.old
      /\ cli'.mode = cli.mode
      /\ \A x \in Replica : Known(cli', x) = c.cur[x] /\ Timeline(cli', x) = c.at[x]
      /\ \A x \in Replica : Known(cli, x) = cli.cur[x] /\ Timeline(cli, x) = cli.at[x]
  BY <1>1, <1>3 DEF Took, Judge, Watcher, Listening, Known, Timeline
<1>5. cli.events + 1 # 0
  BY <1>1 DEF Watcher
<1>6. ASSUME NEW x \in Replica, NEW h, Awaited(cli', x, h)
      PROVE  Awaited(cli, x, h) /\ ~(x = i /\ h = e.hash)
  BY <1>3, <1>4, <1>5, <1>6 DEF Awaited, Took, i
<1>7. ASSUME NEW l \in DOMAIN feed PROVE l = 1 \/ (l - 1 \in DOMAIN feed' /\ feed'[l - 1] = feed[l])
  BY <1>2, <1>7
<1>8. ASSUME NEW x \in Replica, NEW h, NEW k \in Nat, k # 0
      PROVE  /\ Comes(feed', x, h, k) => Comes(feed, x, h, k + 1)
             /\ Comes(feed, x, h, k + 1) => Comes(feed', x, h, k) \/ (x = i /\ h = e.hash)
  <2>1. ASSUME NEW l \in DOMAIN feed', l < k, feed'[l].rep = x, feed'[l].hash = h
        PROVE  l + 1 \in DOMAIN feed /\ l + 1 < k + 1 /\ feed[l + 1].rep = x /\ feed[l + 1].hash = h
    BY <1>2, <2>1
  <2>2. ASSUME NEW l \in DOMAIN feed, l < k + 1, feed[l].rep = x, feed[l].hash = h
        PROVE  Comes(feed', x, h, k) \/ (x = i /\ h = e.hash)
    <3>1. CASE l = 1
      BY <1>2, <2>2, <3>1 DEF i
    <3>2. CASE l # 1
      <4>1. l - 1 \in DOMAIN feed' /\ feed'[l - 1] = feed[l] /\ l - 1 < k
        BY <1>2, <1>7, <2>2, <3>2
      <4> QED BY <2>2, <4>1 DEF Comes
    <3> QED BY <3>1, <3>2
  <2> QED BY <2>1, <2>2 DEF Comes
<1>9. ASSUME NEW x \in Replica, NEW h, NEW k \in Nat, k # 0, Noted(cli', feed', x, h, k)
      PROVE  Noted(cli, feed, x, h, k + 1)
  <2>1. CASE Awaited(cli', x, h) /\ Comes(feed', x, h, k)
    BY <1>6, <1>8, <1>9, <2>1 DEF Noted
  <2>2. CASE Logged(cli', x, h) /\ ~Logged(cli, x, h)
    <3>1. x = i /\ h = e.hash /\ Awaited(cli, x, h)
      BY <1>3, <1>4, <2>2 DEF Logged, Awaited, Took, i
    <3>2. Comes(feed, x, h, k + 1)
      BY <1>2, <1>9, <3>1 DEF Comes, i
    <3> QED BY <3>1, <3>2 DEF Noted
  <2> QED BY <1>9, <2>1, <2>2 DEF Noted
<1>10. ASSUME NEW x \in Replica, NEW h, NEW k \in Nat, k # 0, Noted(cli', feed', x, h, k),
              Finished(cli, feed, x, h, k + 1)
       PROVE  Finished(cli', feed', x, h, k)
  <2>1. CASE Logged(cli, x, h) /\ Timeline(cli, x).rolled # 0
    BY <1>3, <1>4, <2>1 DEF Logged, Finished, Took, i
  <2>2. ASSUME NEW l \in DOMAIN feed, l < k + 1, feed[l].rep = x, feed[l].hash = h, feed[l].out
        PROVE  Finished(cli', feed', x, h, k)
    <3>1. CASE l = 1
      <4>1. x = i /\ h = e.hash /\ e.out
        BY <1>2, <2>2, <3>1 DEF i
      <4>2. Logged(cli', x, h)
        BY <1>6, <1>10, <4>1 DEF Noted
      <4>3. Timeline(cli', x).rolled # 0
        BY <1>3, <1>4, <4>1, <4>2 DEF Logged, Took, i
      <4> QED BY <4>2, <4>3 DEF Finished
    <3>2. CASE l # 1
      <4>1. l - 1 \in DOMAIN feed' /\ feed'[l - 1] = feed[l] /\ l - 1 < k
        BY <1>2, <1>7, <2>2, <3>2
      <4> QED BY <2>2, <4>1 DEF Finished
    <3> QED BY <3>1, <3>2
  <2> QED BY <1>10, <2>1, <2>2 DEF Finished
<1>11. Requester' <=> Requester
  BY <1>4 DEF Requester
<1>12. HeardInv'
  <2> SUFFICES ASSUME NEW x \in Replica
               PROVE  /\ Awaited(cli', x, dep[x].hash) => Comes(feed', x, dep[x].hash, n)
                      /\ Requester /\ Complete(dep[x]) /\ Noted(cli', feed', x, dep[x].hash, n) =>
                           Finished(cli', feed', x, dep[x].hash, n)
    <3>1. Len(feed') + 1 = n
      BY <1>2
    <3> QED BY <1>1, <1>11, <3>1 DEF HeardInv
  <2>1. Awaited(cli', x, dep[x].hash) => Comes(feed', x, dep[x].hash, n)
    BY <1>1, <1>2, <1>6, <1>8 DEF HeardInv, n
  <2>2. Requester /\ Complete(dep[x]) /\ Noted(cli', feed', x, dep[x].hash, n) =>
          Finished(cli', feed', x, dep[x].hash, n)
    BY <1>1, <1>2, <1>9, <1>10 DEF HeardInv, n
  <2> QED BY <2>1, <2>2
<1>13. InTurnInv'
  <2> SUFFICES ASSUME Requester, NEW k \in DOMAIN feed', NEW x \in Replica \ {feed'[k].rep},
                      Marks(cli', feed', k), Noted(cli', feed', x, feed'[k].hash, k)
               PROVE  Finished(cli', feed', x, feed'[k].hash, k)
    BY <1>11 DEF InTurnInv
  <2>1. /\ k \in Nat /\ k # 0 /\ k + 1 \in DOMAIN feed /\ feed[k + 1] = feed'[k]
        /\ feed'[k].rep \in Replica
    BY <1>2 DEF Event
  <2>2. Marks(cli, feed, k + 1)
    BY <1>6, <1>8, <2>1 DEF Marks
  <2>3. Noted(cli, feed, x, feed'[k].hash, k + 1)
    BY <1>9, <2>1
  <2>4. Finished(cli, feed, x, feed'[k].hash, k + 1)
    BY <1>1, <2>1, <2>2, <2>3 DEF InTurnInv
  <2> QED BY <1>10, <2>1, <2>4
<1> QED BY <1>12, <1>13

\* The event is logged in turn.
LEMMA LoggedPop ==
    ASSUME WatchInv, InTurnInv, LoggedInv, DeploymentEvent
    PROVE  LoggedInv'
<1> DEFINE e == Head(feed)
           c == handleDeployUpdate(cli, e)
           i == e.rep
<1>1. /\ cli \in Watcher /\ cli.pc \in {"watch", "drain"} /\ Listening
  BY DEF DeploymentEvent, WatchInv, WatchTypeOK, Listening
<1>2. e \in Event /\ i \in Replica /\ e = feed[1] /\ 1 \in DOMAIN feed /\ DOMAIN feed \subseteq Nat \ {0}
  <2>1. feed \in Seq(Event) /\ feed # <<>>
    BY DEF DeploymentEvent, WatchInv, WatchTypeOK
  <2>2. e \in Event /\ e = feed[1] /\ 1 \in DOMAIN feed /\ DOMAIN feed \subseteq Nat \ {0}
    BY <2>1, TailFacts
  <2> QED BY <2>2 DEF Event
<1>3. Took(cli, e, c) /\ (cli' = c \/ cli' = Judge(c))
  BY <1>1, <1>2, HandleExact DEF DeploymentEvent
<1> HIDE DEF c, e, i
<1>4. /\ c \in Watcher /\ c.events \in Nat /\ cli.events \in Nat
      /\ \A x \in Replica : /\ cli.at[x].updated \in Nat /\ cli.at[x].rolled \in Nat
                            /\ c.at[x].updated \in Nat /\ c.at[x].rolled \in Nat
  BY <1>1, <1>3 DEF Took, Watcher, Line
<1>5. /\ cli'.pc \in {"watch", "drain"} /\ cli'.mode = cli.mode /\ cli'.at = c.at
      /\ cli'.events = c.events
  BY <1>1, <1>3, <1>4 DEF Took, Judge, Watcher
<1>6. \A x \in Replica : cli.at[x].updated <= cli.events /\ cli.at[x].rolled <= cli.events
  BY <1>1 DEF LoggedInv
<1>7. \A x \in Replica : c.at[x].updated <= c.events /\ c.at[x].rolled <= c.events
  <2> SUFFICES ASSUME NEW x \in Replica
               PROVE  c.at[x].updated <= c.events /\ c.at[x].rolled <= c.events
    OBVIOUS
  <2>1. cli.events <= c.events
    BY <1>3, <1>4 DEF Took
  <2>2. CASE x # i
    BY <1>3, <1>4, <1>6, <2>1, <2>2 DEF Took, i
  <2>3. CASE x = i
    BY <1>3, <1>4, <1>6, <2>1, <2>3 DEF Took, i
  <2> QED BY <2>2, <2>3
<1>8. ASSUME Requester PROVE InOrder(c)
  <2> SUFFICES ASSUME NEW x \in Replica, NEW y \in Replica,
                      c.at[x].updated # 0, c.at[x].updated < c.at[y].updated,
                      c.at[x].hash = c.at[y].hash
               PROVE  c.at[x].rolled # 0 /\ c.at[x].rolled < c.at[y].updated
    BY DEF InOrder
  <2>1. InOrder(cli)
    BY <1>1, <1>8 DEF LoggedInv
  <2> DEFINE upd == cli.at[i].updated = 0 /\ e.hash # cli.cur[i] /\ e.hash # cli.old
  <2>2. CASE ~upd
    <3>1. \A z \in Replica : c.at[z].updated = cli.at[z].updated /\ c.at[z].hash = cli.at[z].hash
      BY <1>3, <2>2 DEF Took, i
    <3>2. cli.at[x].rolled # 0 /\ cli.at[x].rolled < cli.at[y].updated
      BY <2>1, <3>1 DEF InOrder
    <3>3. c.at[x].rolled = cli.at[x].rolled
      BY <1>3, <3>2 DEF Took, i
    <3> QED BY <3>1, <3>2, <3>3
  <2>3. CASE upd
    <3>1. c.at[i].updated = cli.events + 1 /\ c.at[i].hash = e.hash
      BY <1>3, <2>3 DEF Took, i
    <3>2. x # i
      <4>1. c.at[y].updated <= cli.events + 1
        BY <1>3, <1>4, <1>6, <3>1 DEF Took, i
      <4> QED BY <1>4, <3>1, <4>1
    <3>3. c.at[x] = cli.at[x]
      BY <1>3, <3>2 DEF Took, i
    <3>4. CASE y # i
      BY <1>3, <2>1, <3>3, <3>4 DEF Took, i, InOrder
    <3>5. CASE y = i
      <4>1. Marks(cli, feed, 1)
        BY <1>1, <1>2, <2>3 DEF Marks, Awaited, Comes, Known, Timeline, i
      <4>2. Noted(cli, feed, x, feed[1].hash, 1)
        BY <1>1, <1>2, <3>1, <3>3, <3>5 DEF Noted, Logged, Timeline
      <4>3. Finished(cli, feed, x, feed[1].hash, 1)
        BY <1>1, <1>2, <1>8, <3>2, <4>1, <4>2 DEF InTurnInv, i
      <4>4. cli.at[x].rolled # 0
        BY <1>1, <1>2, <4>3 DEF Finished, Timeline
      <4> QED BY <1>4, <1>6, <3>1, <3>3, <3>5, <4>4
    <3> QED BY <3>4, <3>5
  <2> QED BY <2>2, <2>3
<1>9. Requester' <=> Requester
  BY <1>5 DEF Requester
<1>10. InOrder(c) => InOrder(cli)'
  BY <1>5 DEF InOrder
<1> QED BY <1>5, <1>7, <1>8, <1>9, <1>10 DEF LoggedInv

-----------------------------------------------------------------------------
(* The verdict.                                                            *)

\* The list has n Deployments to adopt, and P is their places: command c becomes d.
Adoption(c, d, P, n) ==
    /\ d \in Watcher /\ d.pc = "watch" /\ d.start = c.start /\ d.mode = c.mode
    /\ d.pend = c.pend /\ d.old = c.old /\ d.result = c.result /\ d.n = c.n
    /\ n \in Nat /\ d.events = 2 * n
    /\ \A i \in Replica : d.cur[i] = c.view[i].hash
    /\ \A i \in Replica \ Adopted(c, c.view) : d.at[i] = NoTimeline
    /\ \A i \in Adopted(c, c.view) : P[i] \in 1..n /\ d.at[i] = AdoptedLine(c.view[i], P[i])

\* The list is adopted in its order.
LEMMA AdoptExact ==
    ASSUME WatchTypeOK, NEW s \in Listings(Adopted(cli, cli.view))
    PROVE  \E P, n : Adoption(cli, Adopt(cli, cli.view, s), P, n)
<1> DEFINE updated == Adopted(cli, cli.view)
           n == Cardinality(updated)
           place(i) == CHOOSE j \in DOMAIN s : s[j] = i
           P == [i \in updated |-> place(i)]
           cur == [i \in Replica |-> cli.view[i].hash]
           at == [i \in Replica |-> IF i \in updated THEN AdoptedLine(cli.view[i], place(i))
                                    ELSE NoTimeline]
           all == Cardinality({i \in updated : cli.view[i].out}) = cli.n
           c == Adopt(cli, cli.view, s)
<1>1. cli \in Watcher /\ updated \in SUBSET Replica
  BY DEF WatchTypeOK, Adopted, Listed
<1>2. IsFiniteSet(updated) /\ n \in Nat
  <2>1. IsFiniteSet(Replica)
    BY FS_Interval, NAssumption DEF Replica
  <2> QED BY <1>1, <2>1, FS_Subset, FS_CardinalityType
<1>3. /\ s \in [1..n -> updated] /\ \A a, b \in 1..n : a # b => s[a] # s[b]
  BY DEF Listings
<1>4. \A i \in updated : \E j \in 1..n : s[j] = i
  <2>1. s \in Injection(1..n, updated) /\ Cardinality(1..n) = n
    BY <1>2, <1>3, FS_Interval DEF Injection, IsInjective
  <2>2. s \in Surjection(1..n, updated)
    BY <1>2, <2>1, FS_Injection
  <2> QED BY <2>2 DEF Surjection
<1>5. DOMAIN s = 1..n
  BY <1>3
<1> HIDE DEF n, updated
<1>6. \A i \in updated : P[i] \in 1..n /\ s[P[i]] = i /\ P[i] = place(i)
  BY <1>4, <1>5
<1> HIDE DEF P
<1>7. c \in Watcher /\ c.pc = "watch"
  BY AdoptFacts
<1>8. /\ c = [cli EXCEPT !.pc = "watch", !.view = Unseen, !.cur = cur, !.at = at,
                         !.events = 2 * n, !.all = all]
  BY DEF Adopt, updated, n
<1> HIDE DEF c, all, place
<1>9. /\ c.start = cli.start /\ c.mode = cli.mode /\ c.pend = cli.pend /\ c.old = cli.old
      /\ c.result = cli.result /\ c.n = cli.n /\ c.events = 2 * n /\ c.cur = cur /\ c.at = at
  BY <1>1, <1>8 DEF Watcher
<1>10. \A i \in updated : at[i] = AdoptedLine(cli.view[i], P[i])
  BY <1>1, <1>6
<1>11. Adoption(cli, c, P, n)
  BY <1>2, <1>6, <1>7, <1>9, <1>10 DEF Adoption, updated
<1> QED BY <1>11 DEF c

\* What a command has logged when it reports, and from which hashes.
Honest(c) ==
    /\ Requester => InOrder(c)
    /\ \A i \in Replica : c.at[i].updated # 0 => c.at[i].hash <= secret
    /\ c.mode = "rotate" => \A i \in Replica : c.at[i].updated # 0 => c.start < c.at[i].hash
    /\ c.mode = "attach" =>
        /\ IsFiniteSet(c.pend) /\ c.old \in c.pend
        /\ \A i \in Replica : c.at[i].updated # 0 =>
             c.at[i].hash # c.old /\ (c.at[i].hash \in c.pend \/ c.start <= c.at[i].hash)

\* Such a command raises no false alarm.
LEMMA ReportReal ==
    ASSUME TokenInv, TokenInv', Advance, WatchInv, NEW c \in Watcher, Honest(c),
           c.mode = cli.mode, cli' = Ended(c, printReport(c))
    PROVE  MixedTokensAreReal' /\ RequesterSeesOrder'
<1> DEFINE r == printReport(c)
<1>1. /\ cli'.result = r /\ cli'.mode = c.mode /\ cli'.start = c.start /\ cli'.pend = c.pend
  BY EndedType, ReportType DEF WatchInv, Ended, NotStarted
<1>2. /\ c.mode \in {"rotate", "attach"} /\ c.start \in Nat
      /\ \A i \in Replica : c.at[i].updated \in Nat /\ c.at[i].rolled \in Nat /\ c.at[i].hash \in Nat
      /\ token \in Nat /\ token' \in Nat /\ token <= token' /\ secret \in Nat /\ secret <= token
  <2>1. \A i \in Replica : c.at[i] \in Line
    BY DEF Watcher
  <2>2. c.mode \in {"rotate", "attach"} /\ c.start \in Nat
    BY DEF Watcher
  <2> QED BY <2>1, <2>2 DEF Line, TokenInv, TypeOK, TokenOrder, Advance
<1>3. MixedTokensAreReal'
  <2> SUFFICES ASSUME r = "inconsistent"
               PROVE  IF c.mode = "rotate" THEN token' > c.start + 1
                      ELSE token' > c.start \/ Cardinality(c.pend) > 1
    BY <1>1 DEF MixedTokensAreReal
  <2>1. PICK i, j \in Replica : /\ c.at[i].updated # 0 /\ c.at[j].updated # 0
                                /\ c.at[i].hash # c.at[j].hash
    BY DEF printReport, tokenUpdated
  <2>2. c.at[i].hash <= token' /\ c.at[j].hash <= token'
    BY <1>2, <2>1 DEF Honest
  <2>3. CASE c.mode = "rotate"
    BY <1>2, <2>1, <2>2, <2>3 DEF Honest
  <2>4. CASE c.mode = "attach"
    <3>1. CASE c.start <= c.at[i].hash /\ c.start <= c.at[j].hash
      BY <1>2, <2>1, <2>2, <2>4, <3>1
    <3>2. CASE ~(c.start <= c.at[i].hash /\ c.start <= c.at[j].hash)
      <4>1. PICK h \in c.pend : h # c.old
        BY <2>1, <2>4, <3>2 DEF Honest
      <4>2. IsFiniteSet(c.pend) /\ c.old \in c.pend
        BY <2>4 DEF Honest
      <4>3. Cardinality(c.pend) \in Nat /\ Cardinality(c.pend) # 0
        BY <4>2, FS_CardinalityType, FS_EmptySet
      <4>4. Cardinality(c.pend) # 1
        <5>1. ASSUME Cardinality(c.pend) = 1 PROVE \E x : c.pend = {x}
          BY <4>2, <5>1, FS_Singleton
        <5> QED BY <4>1, <4>2, <5>1
      <4> QED BY <2>4, <4>3, <4>4
    <3> QED BY <3>1, <3>2
  <2> QED BY <1>2, <2>3, <2>4
<1>4. ASSUME Requester PROVE r # "order"
  <2> SUFFICES ASSUME r = "order" PROVE FALSE
    OBVIOUS
  <2>1. PICK i, j \in Replica :
          /\ c.at[i].updated # 0 /\ c.at[j].updated # 0 /\ c.at[i].hash = c.at[j].hash
          /\ c.at[i].updated < c.at[j].updated /\ c.at[j].updated < c.at[i].rolled
    BY DEF printReport, tokenUpdated, Follows
  <2>2. c.at[i].rolled < c.at[j].updated
    BY <1>4, <2>1 DEF Honest, InOrder
  <2> QED BY <1>2, <2>1, <2>2
<1>5. Requester' <=> Requester
  BY <1>1 DEF Requester
<1> QED BY <1>1, <1>3, <1>4, <1>5 DEF RequesterSeesOrder, Requester

\* A verdict stands.
LEMMA AlarmsStay ==
    ASSUME TokenInv, TokenInv', Advance, WatchInv, UNCHANGED cli,
           MixedTokensAreReal, RequesterSeesOrder
    PROVE  MixedTokensAreReal' /\ RequesterSeesOrder'
<1>1. token \in Nat /\ token' \in Nat /\ token <= token' /\ cli.start \in Nat
  BY DEF TokenInv, TypeOK, WatchInv, WatchTypeOK, Watcher, Advance
<1>2. MixedTokensAreReal'
  BY <1>1 DEF MixedTokensAreReal
<1> QED BY <1>2 DEF RequesterSeesOrder

\* A command that returns has nothing left to hear.
LEMMA AlarmEnds ==
    ASSUME TokenInv, TokenInv', Advance, WatchInv, NEW c \in Watcher, NEW r \in Verdicts,
           cli' = Ended(c, r), c.mode = "attach" => IsFiniteSet(c.pend),
           \/ r \notin {"order", "inconsistent"}
           \/ r = printReport(c) /\ Honest(c) /\ c.mode = cli.mode
    PROVE  AlarmInv'
<1>1. /\ cli'.pc = "ended" /\ cli'.result = r /\ cli'.mode = c.mode /\ cli'.pend = c.pend
  BY EndedType DEF WatchInv, Ended, NotStarted
<1>2. HeardInv' /\ InTurnInv' /\ LoggedInv' /\ FoundInv'
  BY <1>1 DEF HeardInv, InTurnInv, LoggedInv, FoundInv, Listening
<1>3. CASE r \notin {"order", "inconsistent"}
  BY <1>1, <1>2, <1>3 DEF AlarmInv, RequesterSeesOrder, MixedTokensAreReal
<1>4. CASE r = printReport(c) /\ Honest(c) /\ c.mode = cli.mode
  BY <1>2, <1>4, ReportReal DEF AlarmInv
<1> QED BY <1>3, <1>4

\* Until the informers run, it hears of nothing.
LEMMA AlarmEarly ==
    ASSUME cli'.pc \in {"get", "check", "sync"}, cli'.result = "none", FoundInv'
    PROVE  AlarmInv'
BY DEF AlarmInv, HeardInv, InTurnInv, LoggedInv, Listening, RequesterSeesOrder, MixedTokensAreReal

\* What the command has found stays true while the system goes on.
LEMMA FoundStays ==
    ASSUME TokenInv, TokenInv', Advance, WatchInv, DeployedInv, DeployedInv', FoundInv,
           UNCHANGED cli
    PROVE  FoundInv'
<1>1. ASSUME cli.pc \in {"get", "check", "sync"}, NEW i \in Replica,
             cli.start <= dep[i].hash
      PROVE  cli.start <= dep'[i].hash
  <2>1. dep'[i].hash = dep[i].hash \/ dep'[i].hash = token'
    BY DEF DeployedInv, Advance
  <2>2. /\ cli.start \in Nat /\ token \in Nat /\ token' \in Nat
        /\ cli.start <= token /\ token <= token'
    BY <1>1 DEF TokenInv, TypeOK, WatchInv, WatchTypeOK, Watcher, StartInv, Advance
  <2> QED BY <1>1, <2>1, <2>2
<1>2. ASSUME cli.pc \in {"get", "check", "sync"}, NEW i \in Replica,
             dep[i].hash \in cli.pend
      PROVE  dep'[i].hash \in cli.pend \/ cli.start <= dep'[i].hash
  <2>1. dep'[i].hash = dep[i].hash \/ dep'[i].hash = token'
    BY DEF DeployedInv, Advance
  <2>2. /\ cli.start \in Nat /\ token \in Nat /\ token' \in Nat
        /\ cli.start <= token /\ token <= token'
    BY <1>2 DEF TokenInv, TypeOK, WatchInv, WatchTypeOK, Watcher, StartInv, Advance
  <2> QED BY <1>2, <2>1, <2>2
<1> QED BY <1>1, <1>2 DEF FoundInv

\* The command watches a step of the system.
LEMMA AlarmWatched ==
    ASSUME TokenInv, TokenInv', Advance, WatchInv, DeployedInv, DeployedInv', SpreadInv,
           AlarmInv, Watched, NEW i \in Replica, Turn(i)
    PROVE  AlarmInv'
<1>1. HeardInv' /\ InTurnInv'
  BY HeardStays DEF AlarmInv
<1>2. FoundInv' /\ MixedTokensAreReal' /\ RequesterSeesOrder'
  BY FoundStays, AlarmsStay DEF AlarmInv, Watched
<1>3. LoggedInv'
  BY DEF AlarmInv, LoggedInv, Watched, Requester, InOrder
<1> QED BY <1>1, <1>2, <1>3 DEF AlarmInv

\* A step that shows the command nothing.
LEMMA AlarmSame ==
    ASSUME AlarmInv, UNCHANGED <<cli, feed, dep, token>>
    PROVE  AlarmInv'
<1>1. HeardInv' /\ InTurnInv' /\ LoggedInv' /\ FoundInv'
  BY DEF AlarmInv, HeardInv, InTurnInv, LoggedInv, FoundInv, Listening, Requester, InOrder
<1>2. MixedTokensAreReal' /\ RequesterSeesOrder'
  BY DEF AlarmInv, MixedTokensAreReal, RequesterSeesOrder
<1> QED BY <1>1, <1>2 DEF AlarmInv

-----------------------------------------------------------------------------
(* The steps of the command.                                               *)

\* The command reads the CGS.
LEMMA AlarmRead ==
    ASSUME TokenInv, TokenInv', Advance, WatchInv, DeployedInv,
           NEW mode \in {"rotate", "attach"}, ReadCGS(mode)
    PROVE  AlarmInv'
<1> DEFINE c == [cli EXCEPT !.mode = mode, !.n = Cardinality(cgs.inventory),
                            !.start = cgs.hash, !.gw = GatewayNow,
                            !.todo = IF mode = "attach" THEN cgs.inventory ELSE {},
                            !.old = IF mode = "rotate" THEN cgs.hash ELSE 0]
           d == [c EXCEPT !.pc = IF mode = "attach" THEN "get" ELSE "sync"]
<1>1. /\ cli \in Watcher /\ cli.pend = {} /\ cli.result = "none"
      /\ cgs.inventory = Replica /\ Replica # {}
  <2>1. 1 \in Replica
    BY NAssumption DEF Replica
  <2> QED BY <2>1 DEF ReadCGS, WatchInv, WatchTypeOK, CommandInv, DeployedInv
<1>2. /\ d.mode = mode /\ d.pend = {} /\ d.result = "none"
      /\ d.pc = (IF mode = "attach" THEN "get" ELSE "sync")
      /\ mode = "attach" => d.todo = Replica
  BY <1>1 DEF Watcher
<1>3. cli' = d
  BY <1>1 DEF ReadCGS
<1> HIDE DEF d
<1>4. IsFiniteSet({})
  BY FS_EmptySet
<1>5. FoundInv'
  BY <1>2, <1>3, <1>4 DEF FoundInv
<1> QED BY <1>2, <1>3, <1>5, AlarmEarly

\* watch gateway token compares one Deployment with the CGS.
LEMMA AlarmGet ==
    ASSUME TokenInv, TokenInv', Advance, WatchInv, DeployedInv, AttachInv, AlarmInv,
           NEW i \in Replica, GetDeployment(i)
    PROVE  AlarmInv'
<1> DEFINE pending == dep[i].hash # cli.start
           c == [cli EXCEPT !.todo = @ \ {i},
                            !.pend = IF pending THEN @ \cup {dep[i].hash} ELSE @,
                            !.old = IF pending /\ @ = 0 THEN dep[i].hash ELSE @]
           d == [c EXCEPT !.pc = "check"]
<1>1. /\ cli \in Watcher /\ cli.pc = "get" /\ cli.mode = "attach" /\ cli.result = "none"
      /\ dep[i].hash \in Nat /\ cli.start \in Nat /\ Exists(dep[i]) /\ UNCHANGED dep
      /\ IsFiniteSet(cli.pend) /\ (cli.pend # {} => cli.old \in cli.pend)
      /\ cli.pend = {} => cli.old = 0
      /\ \A j \in Replica : j \in cli.todo \/ dep[j].hash \in cli.pend \/ cli.start <= dep[j].hash
  <2>1. cli \in Watcher /\ cli.pc = "get" /\ cli.mode = "attach" /\ cli.result = "none"
    BY DEF GetDeployment, WatchInv, WatchTypeOK, CommandInv
  <2>2. dep[i].hash \in Nat /\ cli.start \in Nat /\ Exists(dep[i]) /\ UNCHANGED dep
    BY <2>1 DEF GetDeployment, vars, cluster, TokenInv, TypeOK, Deployment, Watcher, DeployedInv
  <2> QED BY <2>1, <2>2 DEF AlarmInv, FoundInv, AttachInv
<1>2. /\ c \in Watcher /\ c.start = cli.start /\ c.mode = "attach" /\ c.result = "none"
      /\ c.pc = "get" /\ c.todo = cli.todo \ {i}
      /\ c.pend = (IF pending THEN cli.pend \cup {dep[i].hash} ELSE cli.pend)
      /\ c.old = (IF pending /\ cli.old = 0 THEN dep[i].hash ELSE cli.old)
  BY <1>1 DEF Watcher
<1> HIDE DEF c
<1>3. /\ d.start = c.start /\ d.mode = "attach" /\ d.result = "none"
      /\ d.pc = "check" /\ d.todo = c.todo /\ d.pend = c.pend /\ d.old = c.old
  BY <1>2 DEF Watcher
<1>4. cli' = IF c.todo # {} THEN c ELSE IF c.pend = {} THEN Ended(c, "up to date") ELSE d
  BY <1>1 DEF GetDeployment, c
<1> HIDE DEF d
<1>5. /\ IsFiniteSet(c.pend) /\ (c.pend # {} => c.old \in c.pend)
      /\ \A j \in Replica : j \in c.todo \/ dep[j].hash \in c.pend \/ c.start <= dep[j].hash
  <2>1. IsFiniteSet(c.pend)
    BY <1>1, <1>2, FS_AddElement
  <2> QED BY <1>1, <1>2, <2>1
<1>6. CASE cli' = c \/ (cli' = d /\ c.todo = {} /\ c.pend # {})
  <2>1. FoundInv'
    BY <1>1, <1>2, <1>3, <1>5, <1>6 DEF FoundInv
  <2> QED BY <1>2, <1>3, <1>6, <2>1, AlarmEarly
<1>7. CASE cli' = Ended(c, "up to date")
  BY <1>2, <1>5, <1>7, AlarmEnds DEF Verdicts
<1> QED BY <1>4, <1>6, <1>7

\* A suspended Gateway ends the command.
LEMMA AlarmCheck ==
    ASSUME TokenInv, TokenInv', Advance, WatchInv, AlarmInv, CheckSuspended
    PROVE  AlarmInv'
<1>1. /\ cli \in Watcher /\ cli.pc = "check" /\ cli.mode = "attach" /\ cli.result = "none"
      /\ FoundInv /\ UNCHANGED dep
  BY DEF CheckSuspended, WatchInv, WatchTypeOK, CommandInv, AlarmInv, vars, cluster
<1>2. CASE cli' = Ended(cli, "error")
  BY <1>1, <1>2, AlarmEnds DEF Verdicts, FoundInv
<1>3. CASE cli' = [cli EXCEPT !.pc = "sync"]
  <2>1. /\ cli'.pc = "sync" /\ cli'.mode = "attach" /\ cli'.result = "none"
        /\ cli'.start = cli.start /\ cli'.pend = cli.pend /\ cli'.old = cli.old
        /\ cli'.todo = cli.todo
    BY <1>1, <1>3 DEF Watcher
  <2>2. FoundInv'
    BY <1>1, <2>1 DEF FoundInv
  <2> QED BY <2>1, <2>2, AlarmEarly
<1> QED BY <1>2, <1>3 DEF CheckSuspended

\* The informers show the Deployments as they are.
LEMMA AlarmSynced ==
    ASSUME TokenInv, WatchInv, AlarmInv, cli.pc = "sync", cli' = Synced,
           UNCHANGED <<feed, dep>>
    PROVE  AlarmInv'
<1> DEFINE view == [i \in Replica |-> Glance(dep[i])]
<1>1. cli \in Watcher /\ cli.result = "none" /\ FoundInv /\ feed = <<>>
  BY DEF WatchInv, WatchTypeOK, CommandInv, AlarmInv, FeedInv, Listening
<1>2. \A i \in Replica : /\ view[i].hash = dep[i].hash
                         /\ view[i].out = isDeploymentRolledOut(dep[i])
  BY GlanceOut
<1> HIDE DEF view
<1>3. /\ cli'.pc = "list" /\ cli'.mode = cli.mode /\ cli'.old = cli.old /\ cli'.view = view
      /\ cli'.start = cli.start /\ cli'.pend = cli.pend /\ cli'.result = "none"
  BY <1>1 DEF Synced, Watcher, view
<1>4. Listening' /\ Len(feed') = 0 /\ DOMAIN feed' = {} /\ feed' = feed
  BY <1>1, <1>3 DEF Listening
<1>5. HeardInv'
  <2> SUFFICES ASSUME NEW i \in Replica
               PROVE  /\ ~Awaited(cli', i, dep[i].hash)
                      /\ Requester' /\ Complete(dep[i]) /\ Noted(cli', feed', i, dep[i].hash, 1) =>
                           Finished(cli', feed', i, dep[i].hash, 1)
    BY <1>4 DEF HeardInv
  <2>1. ~Awaited(cli', i, dep[i].hash)
    BY <1>2, <1>3 DEF Awaited, Known
  <2>2. ASSUME Requester', Complete(dep[i]), Logged(cli', i, dep[i].hash)
        PROVE  Timeline(cli', i).rolled # 0
    <3>1. i \in Adopted(cli', cli'.view)
      BY <1>3, <2>2 DEF Logged, Timeline, NoTimeline
    <3> QED BY <2>2, <3>1 DEF Requester, Adopted
  <2> QED BY <2>1, <2>2 DEF Noted, Finished
<1>6. InTurnInv'
  BY <1>4 DEF InTurnInv
<1>7. LoggedInv'
  BY <1>3 DEF LoggedInv
<1>8. FoundInv'
  BY <1>1, <1>2, <1>3 DEF FoundInv
<1> QED BY <1>3, <1>5, <1>6, <1>7, <1>8 DEF AlarmInv, RequesterSeesOrder, MixedTokensAreReal

\* rotate gateway token requests the rotation once the informers run.
LEMMA AlarmPatch ==
    ASSUME TokenInv, TokenInv', Advance, WatchInv, AlarmInv, SyncAndPatch
    PROVE  AlarmInv'
<1>1. cli \in Watcher /\ cli.pc = "sync" /\ cli.mode = "rotate" /\ UNCHANGED <<feed, dep>>
  BY DEF SyncAndPatch, WatchInv, WatchTypeOK, vars, cluster
<1>2. CASE cli' = Ended(cli, "error")
  BY <1>1, <1>2, AlarmEnds DEF Verdicts
<1>3. CASE cli' = Synced
  BY <1>1, <1>3, AlarmSynced
<1> QED BY <1>2, <1>3 DEF SyncAndPatch

\* The command starts watching from what it has listed.
LEMMA AlarmList ==
    ASSUME Prompt, TokenInv, TokenInv', Advance, WatchInv, AlarmInv, ListDeployments
    PROVE  AlarmInv'
<1>1. /\ cli \in Watcher /\ cli.pc = "list" /\ Cached(0) = cli.view /\ WatchTypeOK
      /\ cli.mode \in {"rotate", "attach"} /\ Listening /\ UNCHANGED <<vars, pause>>
      /\ HeardInv /\ InTurnInv /\ LoggedInv /\ FoundInv
  BY CachedFirst DEF ListDeployments, WatchInv, WatchTypeOK, Watcher, Listening, AlarmInv
<1>2. PICK s \in Listings(Adopted(cli, cli.view)) :
        \/ cli' = Ended(cli, "error")
        \/ cli' = Ended(Adopt(cli, cli.view, s), printReport(Adopt(cli, cli.view, s)))
        \/ cli' = Adopt(cli, cli.view, s)
  BY <1>1 DEF ListDeployments
<1> DEFINE c == Adopt(cli, cli.view, s)
           A == Adopted(cli, cli.view)
<1>3. PICK P, n : Adoption(cli, c, P, n)
  BY <1>1, AdoptExact
<1> HIDE DEF c
<1>4. /\ c \in Watcher /\ c.pc = "watch" /\ c.mode = cli.mode /\ c.start = cli.start
      /\ c.pend = cli.pend /\ c.old = cli.old /\ c.result = cli.result
      /\ n \in Nat /\ c.events = 2 * n
      /\ \A i \in Replica : c.cur[i] = cli.view[i].hash
  BY <1>3 DEF Adoption
<1>5. ASSUME NEW i \in Replica \ A
      PROVE  c.at[i] = NoTimeline /\ c.at[i].updated = 0 /\ c.at[i].rolled = 0
  BY <1>3 DEF Adoption, NoTimeline
<1>6. ASSUME NEW i \in A
      PROVE  /\ i \in Replica /\ cli.mode = "attach" /\ cli.view[i].hash # cli.old
             /\ P[i] \in 1..n /\ c.at[i] = AdoptedLine(cli.view[i], P[i])
             /\ c.at[i].updated = 2 * P[i] - 1 /\ c.at[i].hash = cli.view[i].hash
             /\ c.at[i].rolled = (IF cli.view[i].out THEN 2 * P[i] ELSE 0)
  <2>1. i \in Replica /\ cli.mode = "attach" /\ cli.view[i].hash # cli.old
    BY <1>1, <1>6 DEF Adopted, Listed
  <2> QED BY <1>3, <1>6, <2>1 DEF Adoption, AdoptedLine
<1>7. ASSUME Requester PROVE InOrder(c)
  <2>1. A = {}
    BY <1>7 DEF Requester, Adopted
  <2> QED BY <1>5, <2>1 DEF InOrder
<1>8. c.mode = "attach" =>
        /\ IsFiniteSet(c.pend) /\ c.old \in c.pend
        /\ \A i \in Replica : c.at[i].updated # 0 =>
             c.at[i].hash # c.old /\ (c.at[i].hash \in c.pend \/ c.start <= c.at[i].hash)
  BY <1>1, <1>4, <1>5, <1>6 DEF FoundInv
<1>9. CASE cli' = Ended(cli, "error")
  BY <1>1, <1>9, AlarmEnds DEF Verdicts, FoundInv
<1>10. CASE cli' = Ended(c, printReport(c))
  <2>1. \A i \in Replica : c.at[i].updated # 0 => c.at[i].hash <= secret
    BY <1>1, <1>5, <1>6 DEF WatchInv, NewsInv, Floor
  <2>2. \A i \in Replica : c.at[i].updated # 0 => c.mode = "attach"
    BY <1>4, <1>5, <1>6
  <2>3. Honest(c)
    BY <1>7, <1>8, <2>1, <2>2 DEF Honest
  <2> QED BY <1>4, <1>8, <1>10, <2>3, ReportType, AlarmEnds
<1>11. CASE cli' = c
  <2>1. /\ Listening' /\ UNCHANGED <<dep, feed>>
        /\ cli'.pc = "watch" /\ cli'.result = cli.result
    BY <1>1, <1>4, <1>11 DEF ListDeployments, Listening, vars, cluster
  <2>2. \A x \in Replica :
          /\ Known(cli', x) = Known(cli, x)
          /\ Timeline(cli', x).hash = Timeline(cli, x).hash
          /\ Timeline(cli', x).updated = 0 <=> Timeline(cli, x).updated = 0
          /\ Timeline(cli', x).rolled = 0 <=> Timeline(cli, x).rolled = 0
    <3> SUFFICES ASSUME NEW x \in Replica
                 PROVE  /\ c.at[x].hash = Timeline(cli, x).hash
                        /\ c.at[x].updated = 0 <=> Timeline(cli, x).updated = 0
                        /\ c.at[x].rolled = 0 <=> Timeline(cli, x).rolled = 0
      BY <1>1, <1>4, <1>11 DEF Known, Timeline
    <3>1. CASE x \in A
      <4>1. P[x] \in Nat /\ P[x] # 0
        BY <1>4, <1>6, <3>1
      <4>2. /\ Timeline(cli, x).updated = 1 /\ Timeline(cli, x).hash = cli.view[x].hash
            /\ Timeline(cli, x).rolled = (IF cli.view[x].out THEN 2 ELSE 0)
        BY <1>1, <3>1 DEF Timeline, AdoptedLine
      <4>3. c.at[x].updated # 0 /\ (c.at[x].rolled = 0 <=> ~cli.view[x].out)
        BY <1>6, <3>1, <4>1
      <4> QED BY <1>6, <3>1, <4>2, <4>3
    <3>2. CASE x \notin A
      BY <1>1, <1>5, <3>2 DEF Timeline
    <3> QED BY <3>1, <3>2
  <2>3. HeardInv' /\ InTurnInv'
    BY <1>1, <1>4, <1>11, <2>1, <2>2, HeardSame
  <2>4. LoggedInv'
    <3>1. \A i \in Replica : c.at[i].updated <= c.events /\ c.at[i].rolled <= c.events
      <4> SUFFICES ASSUME NEW i \in Replica
                   PROVE  c.at[i].updated <= 2 * n /\ c.at[i].rolled <= 2 * n
        BY <1>4
      <4>1. CASE i \in A
        BY <1>4, <1>6, <4>1
      <4>2. CASE i \notin A
        BY <1>4, <1>5, <4>2
      <4> QED BY <4>1, <4>2
    <3>2. Requester' => Requester
      BY <1>4, <1>11 DEF Requester
    <3> QED BY <1>7, <1>11, <2>1, <3>1, <3>2 DEF LoggedInv
  <2>5. FoundInv'
    BY <1>1, <1>4, <1>8, <1>11, <2>1 DEF FoundInv
  <2>6. cli'.result = "none"
    BY <1>1, <2>1 DEF WatchInv, CommandInv
  <2> QED BY <2>3, <2>4, <2>5, <2>6 DEF AlarmInv, RequesterSeesOrder, MixedTokensAreReal
<1> QED BY <1>2, <1>9, <1>10, <1>11 DEF c

\* One event is handled.
LEMMA AlarmEvent ==
    ASSUME TokenInv, WatchInv, AlarmInv, DeploymentEvent
    PROVE  AlarmInv'
<1> DEFINE e == Head(feed)
           c == handleDeployUpdate(cli, e)
           i == e.rep
<1>1. /\ cli \in Watcher /\ cli.pc \in {"watch", "drain"} /\ Listening /\ cli.result = "none"
      /\ HeardInv /\ InTurnInv /\ LoggedInv /\ FoundInv
  BY DEF DeploymentEvent, WatchInv, WatchTypeOK, CommandInv, Listening, AlarmInv
<1>2. e \in Event /\ i \in Replica /\ e = feed[1] /\ 1 \in DOMAIN feed
  <2>1. feed \in Seq(Event) /\ feed # <<>>
    BY DEF DeploymentEvent, WatchInv, WatchTypeOK
  <2>2. e \in Event /\ e = feed[1] /\ 1 \in DOMAIN feed
    BY <2>1, TailFacts
  <2> QED BY <2>2 DEF Event
<1>3. Took(cli, e, c) /\ (cli' = c \/ cli' = Judge(c))
  BY <1>1, <1>2, HandleExact DEF DeploymentEvent
<1>4. e.hash = cli.cur[i] \/ cli.start <= e.hash
  BY <1>1, <1>2 DEF WatchInv, NewsInv, Base
<1> HIDE DEF c, e, i
<1>5. /\ cli'.pc \in {"watch", "drain"} /\ cli'.mode = cli.mode /\ cli'.at = c.at
      /\ cli'.pend = cli.pend /\ cli'.old = cli.old /\ cli'.start = cli.start
      /\ cli'.result = "none"
  BY <1>1, <1>3 DEF Took, Judge, Watcher
<1>6. \A x \in Replica : \/ c.at[x].updated = cli.at[x].updated /\ c.at[x].hash = cli.at[x].hash
                         \/ c.at[x].hash = e.hash /\ e.hash # cli.old /\ cli.start <= e.hash
  BY <1>3, <1>4 DEF Took, i
<1>7. FoundInv'
  BY <1>1, <1>5, <1>6 DEF FoundInv
<1>8. HeardInv' /\ InTurnInv' /\ LoggedInv'
  BY <1>1, HeardPop, LoggedPop
<1> QED BY <1>5, <1>7, <1>8 DEF AlarmInv, RequesterSeesOrder, MixedTokensAreReal

\* One update of the Gateway is handled.
LEMMA AlarmGateway ==
    ASSUME TokenInv, TokenInv', Advance, WatchInv, AlarmInv, handleGatewayUpdate
    PROVE  AlarmInv'
<1> DEFINE c == [cli EXCEPT !.gw = GatewayNow, !.ready = ready, !.off = pause.on]
<1>1. /\ cli \in Watcher /\ cli.pc \in {"watch", "drain"} /\ Listening /\ cli.result = "none"
      /\ WatchTypeOK /\ UNCHANGED dep /\ HeardInv /\ InTurnInv /\ LoggedInv /\ FoundInv
  BY DEF handleGatewayUpdate, WatchInv, WatchTypeOK, CommandInv, Listening, AlarmInv, vars,
     cluster
<1>2. GatewayNow \in [ready : {"True", "False", "Unknown"}, off : BOOLEAN, req : Nat]
  BY DEF GatewayNow, TokenInv, TypeOK, WatchInv, WatchTypeOK
<1>3. /\ c \in Watcher
      /\ c.pc = cli.pc /\ c.start = cli.start /\ c.mode = cli.mode /\ c.old = cli.old
      /\ c.result = "none" /\ c.cur = cli.cur /\ c.at = cli.at /\ c.pend = cli.pend
      /\ c.events = cli.events
  BY <1>1, <1>2 DEF Watcher, TokenInv, TypeOK, WatchTypeOK
<1>4. \/ cli' = Ended(c, "suspended")
      \/ (cli' = c \/ cli' = Judge(c)) /\ feed' = feed
  BY DEF handleGatewayUpdate
<1> HIDE DEF c
<1>5. CASE cli' = Ended(c, "suspended")
  BY <1>1, <1>3, <1>5, AlarmEnds DEF Verdicts, FoundInv
<1>6. CASE (cli' = c \/ cli' = Judge(c)) /\ feed' = feed
  <2>1. /\ cli'.pc \in {"watch", "drain"} /\ cli'.start = cli.start /\ cli'.mode = cli.mode
        /\ cli'.old = cli.old /\ cli'.result = "none" /\ cli'.cur = cli.cur /\ cli'.at = cli.at
        /\ cli'.pend = cli.pend /\ cli'.events = cli.events
    BY <1>1, <1>3, <1>6 DEF Judge, Watcher
  <2>2. HeardInv' /\ InTurnInv'
    <3>1. \A x \in Replica : Known(cli', x) = Known(cli, x) /\ Timeline(cli', x) = Timeline(cli, x)
      BY <1>1, <2>1 DEF Known, Timeline
    <3> QED BY <1>1, <1>6, <2>1, <3>1, HeardSame
  <2>3. LoggedInv' /\ FoundInv'
    BY <1>1, <2>1 DEF LoggedInv, FoundInv, Requester, InOrder
  <2> QED BY <2>1, <2>2, <2>3 DEF AlarmInv, RequesterSeesOrder, MixedTokensAreReal
<1> QED BY <1>4, <1>5, <1>6

\* The watch ends with a report, or without one.
LEMMA AlarmReport ==
    ASSUME TokenInv, TokenInv', Advance, WatchInv, AlarmInv, Report \/ Timeout
    PROVE  AlarmInv'
<1>1. /\ cli \in Watcher /\ cli.pc \in {"watch", "drain"} /\ Listening
      /\ LoggedInv /\ FoundInv
  BY DEF Report, Timeout, WatchInv, WatchTypeOK, Listening, AlarmInv
<1>2. CASE Timeout
  BY <1>1, <1>2, AlarmEnds DEF Verdicts, FoundInv, Timeout
<1>3. CASE Report
  <2>1. Honest(cli)
    BY <1>1 DEF Honest, LoggedInv, FoundInv, WatchInv, NewsInv, Floor, TimelineInv
  <2> QED BY <1>1, <1>3, <2>1, ReportType, AlarmEnds DEF Report, FoundInv
<1> QED BY <1>2, <1>3

\* Every step keeps the alarms real.
LEMMA AlarmStep ==
    ASSUME Prompt, ~CacheLag, ~Deadlines, TokenInv, WatchInv, DeployedInv, DeployedInv',
           AttachInv, UpdateInv, SpreadInv, AlarmInv, [WatchNext]_watchVars
    PROVE  AlarmInv'
<1>1. TokenInv' /\ Advance
  BY WatchAdvances
<1>2. CASE Next /\ Watched
  BY <1>1, <1>2, NextTurn, AlarmWatched
<1>3. CASE SkipReconcile /\ Watched
  <2>1. UNCHANGED dep
    BY <1>3 DEF SkipReconcile, cluster
  <2> QED BY <1>1, <1>3, <2>1, NoTurn, AlarmWatched
<1>4. CASE Toggle \/ UNCHANGED watchVars
  BY <1>4, AlarmSame DEF Toggle, watchVars, cluster
<1>5. CASE \E mode \in {"rotate", "attach"} : ReadCGS(mode)
  BY <1>1, <1>5, AlarmRead
<1>6. CASE \E i \in Replica : GetDeployment(i)
  BY <1>1, <1>6, AlarmGet
<1>7. CASE CheckSuspended
  BY <1>1, <1>7, AlarmCheck
<1>8. CASE SyncAndPatch
  BY <1>1, <1>8, AlarmPatch
<1>9. CASE SyncAttach
  BY <1>9, AlarmSynced DEF SyncAttach, vars, cluster
<1>10. CASE ListDeployments
  BY <1>1, <1>10, AlarmList
<1>11. CASE DeploymentEvent
  BY <1>11, AlarmEvent
<1>12. CASE handleGatewayUpdate
  BY <1>1, <1>12, AlarmGateway
<1>13. CASE Report \/ Timeout
  BY <1>1, <1>13, AlarmReport
<1> QED BY <1>2, <1>3, <1>4, <1>5, <1>6, <1>7, <1>8, <1>9, <1>10, <1>11, <1>12, <1>13
        DEF WatchNext, Command

\* So does the order behind them.
LEMMA OrderStep ==
    ASSUME ~CacheLag, ~Deadlines, TokenInv, UpdateInv, DeployedInv, SpreadInv,
           [WatchNext]_watchVars
    PROVE  UpdateInv' /\ SpreadInv'
<1>1. TokenInv' /\ Advance /\ UpdateInv'
  BY WatchAdvances, WatchUpdate
<1>2. CASE Next
  <2>1. PICK i \in Replica : Turn(i)
    BY <1>2, NextTurn
  <2>2. SpreadInv'
    BY <1>1, <2>1, SpreadStays
  <2> QED BY <1>1, <2>2
<1>3. CASE /\ UNCHANGED <<tmpl, token, secret, dep, pods, rec>>
           /\ used' = used \/ used' = [used EXCEPT !.rotations = @ + 1]
  <2>1. SpreadInv'
    BY <1>3 DEF SpreadInv, Complete
  <2> QED BY <1>1, <2>1
<1> QED BY <1>2, <1>3, WatchCases

\* The command starts beside a Gateway that is served.
LEMMA AlarmInit == WatchInit => UpdateInv /\ SpreadInv /\ AlarmInv
<1> SUFFICES ASSUME WatchInit PROVE UpdateInv /\ SpreadInv /\ AlarmInv
  OBVIOUS
<1>1. \A i \in Replica :
        /\ dep[i] = Served
        /\ pods[i] = {[hash |-> 1, tmpl |-> 1, tok |-> 1, ready |-> TRUE]}
  BY DEF WatchInit
<1>2. /\ rec.pc = "idle" /\ tmpl = 1 /\ token = 1 /\ used.templates = 1
  BY DEF WatchInit, Idle
<1>3. UpdateInv
  BY <1>1, <1>2 DEF WatchInit, UpdateInv, UniquePods, isDeploymentRolledOut, Served,
     desiredReplicas, Idle
<1>4. SpreadInv
  BY <1>1, <1>2 DEF SpreadInv, Complete, Served
<1>5. cli.pc = "start" /\ cli.mode = "rotate" /\ cli.result = "none"
  BY DEF WatchInit, NotStarted
<1>6. AlarmInv
  BY <1>5 DEF AlarmInv, HeardInv, InTurnInv, LoggedInv, FoundInv, Listening, RequesterSeesOrder,
     MixedTokensAreReal
<1> QED BY <1>3, <1>4, <1>6

\* The invariants behind the alarms, all of them.
WholeInv == /\ TokenInv /\ WatchInv /\ DeployedInv /\ AttachInv
            /\ UpdateInv /\ SpreadInv /\ AlarmInv

LEMMA WholeInvariant ==
    ASSUME Prompt, ~CacheLag, ~Deadlines, MaxEdits = 0
    PROVE  WatchSpec => []WholeInv
<1>1. WatchInit => WholeInv
  BY WatchInitInv, AlarmInit DEF WholeInv
<1>2. WholeInv /\ [WatchNext]_watchVars => WholeInv'
  <2> SUFFICES ASSUME WholeInv, [WatchNext]_watchVars PROVE WholeInv'
    OBVIOUS
  <2>1. TokenInv' /\ WatchInv' /\ DeployedInv'
    BY WatchAdvances, WatchStep, DeployedStep DEF WholeInv
  <2>2. AttachInv'
    BY <2>1, AttachStep DEF WholeInv
  <2>3. UpdateInv' /\ SpreadInv'
    BY OrderStep DEF WholeInv
  <2>4. AlarmInv'
    BY <2>1, AlarmStep DEF WholeInv
  <2> QED BY <2>1, <2>2, <2>3, <2>4 DEF WholeInv
<1> QED BY <1>1, <1>2, PTL DEF WatchSpec

\* A report of mixed tokens is never false: neither the command that requested
\* the rotation nor one that attached takes an old hash for a new one
\* (printReport).  The premises: the list follows the patch promptly, the
\* controller reads Deployments up to date, no rollout misses its deadline, and
\* nobody edits the replica list.
THEOREM MixedTokensReal ==
    ASSUME Prompt, ~CacheLag, ~Deadlines, MaxEdits = 0
    PROVE  WatchSpec => []MixedTokensAreReal
<1>1. WholeInv => MixedTokensAreReal
  BY DEF WholeInv, AlarmInv
<1> QED BY <1>1, WholeInvariant, PTL

\* Under the same premises, the command that requested the rotation never says
\* that the order of the rolling update was violated, in whatever order the
\* informer lists the Deployments (printReport).
THEOREM RequesterOrder ==
    ASSUME Prompt, ~CacheLag, ~Deadlines, MaxEdits = 0
    PROVE  WatchSpec => []RequesterSeesOrder
<1>1. WholeInv => RequesterSeesOrder
  BY DEF WholeInv, AlarmInv
<1> QED BY <1>1, WholeInvariant, PTL

\* The guarantee of the rolling update that the report relies on holds while the
\* command runs and the Gateway is suspended and resumed (tunnelLoop).
THEOREM WatchedRolloutCompletes ==
    ASSUME ~CacheLag, ~Deadlines
    PROVE  WatchSpec => RolloutCompletesBeforeNext
<1> DEFINE Inv == TokenInv /\ UpdateInv
           Touch == \A j \in Replica : Exists(dep[j]) /\ dep'[j].gen > dep[j].gen =>
                      \A i \in rec.want : i < j => ~Updating(dep[i])
<1>1. WatchInit => Inv
  BY WatchInitInv, AlarmInit
<1>2. Inv /\ [WatchNext]_watchVars => Inv'
  BY WatchAdvances, WatchUpdate
<1>3. Inv /\ [WatchNext]_watchVars => [Touch]_vars
  <2> SUFFICES ASSUME Inv, [WatchNext]_watchVars, NEW j \in Replica,
                      Exists(dep[j]), dep'[j].gen > dep[j].gen
               PROVE  \A i \in rec.want : i < j => ~Updating(dep[i])
    OBVIOUS
  <2>1. dep[j].gen \in Nat
    BY DEF TokenInv, TypeOK, Deployment
  <2>2. CASE Next
    BY <2>2, TouchStep
  <2>3. CASE UNCHANGED dep
    BY <2>1, <2>3
  <2> QED BY <2>2, <2>3, WatchCases
<1> QED BY <1>1, <1>2, <1>3, PTL DEF WatchSpec, RolloutCompletesBeforeNext
=============================================================================
