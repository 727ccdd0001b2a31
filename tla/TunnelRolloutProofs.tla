------------------------- MODULE TunnelRolloutProofs -------------------------
(***************************************************************************)
(* The safety properties of TunnelRollout, for any number of replicas and  *)
(* any bounds.                                                             *)
(***************************************************************************)
EXTENDS TunnelRollout, FiniteSetTheorems, TLAPS

USE NAssumption, BadAssumption, FlagAssumption, BoundAssumption

\* Counting the pods of a Deployment: its status fields are numbers, and a
\* status that counts no more pods than updated ones leaves no old pod.
LEMMA ObservedType ==
    ASSUME NEW d \in Deployment, NEW ps \in SUBSET Pod, IsFiniteSet(ps)
    PROVE  /\ Observed(d, ps) \in Deployment
           /\ Observed(d, ps).hash = d.hash
           /\ Observed(d, ps).tmpl = d.tmpl
           /\ Observed(d, ps).gen = d.gen
           /\ Observed(d, ps).obs = d.gen
           /\ isDeploymentRolledOut(Observed(d, ps)) =>
                \A p \in ps : IsCurrent(p, d)
<1> DEFINE current == {p \in ps : IsCurrent(p, d)}
           rdy == {p \in ps : p.ready}
<1>1. /\ IsFiniteSet(current) /\ Cardinality(current) \in Nat
      /\ Cardinality(current) <= Cardinality(ps)
      /\ Cardinality(current) = Cardinality(ps) => current = ps
  BY FS_Subset, FS_CardinalityType, current \subseteq ps
<1>2. IsFiniteSet(rdy) /\ Cardinality(rdy) \in Nat
  BY FS_Subset, FS_CardinalityType, rdy \subseteq ps
<1>3. Cardinality(ps) \in Nat
  BY FS_CardinalityType
<1>6. /\ Observed(d, ps) \in Deployment
      /\ Observed(d, ps).hash = d.hash
      /\ Observed(d, ps).tmpl = d.tmpl
      /\ Observed(d, ps).gen = d.gen
      /\ Observed(d, ps).obs = d.gen
  BY <1>1, <1>2, <1>3 DEF Deployment, Observed
<1>7. ASSUME isDeploymentRolledOut(Observed(d, ps))
      PROVE  \A p \in ps : IsCurrent(p, d)
  <2>1. Cardinality(ps) <= Cardinality(current)
    BY <1>7 DEF isDeploymentRolledOut, Observed
  <2>2. current = ps
    BY <2>1, <1>1, <1>3
  <2> QED BY <2>2
<1> QED BY <1>6, <1>7

\* The four ways the pods of one Deployment change: the pods stay finitely
\* many, each keeps its token or has just loaded the Secret's, and the status
\* either stays behind or describes exactly the new pods.
LEMMA PodStep ==
    ASSUME TypeOK, FinitePods, TokenOrder, PodsLoadNewerToken, NEW i \in Replica,
           StartRollout(i) \/ PodBecomesReady(i) \/ RetireOldPod(i) \/ RestartPod(i)
    PROVE  /\ \E ps \in SUBSET Pod :
              /\ IsFiniteSet(ps)
              /\ pods' = [pods EXCEPT ![i] = ps]
              /\ \/ dep' = dep
                 \/ dep' = [dep EXCEPT ![i] = Observed(dep[i], ps)]
              /\ \A p \in ps : /\ p.hash <= p.tok /\ p.tok <= secret
                               /\ \/ p.tok = secret
                                  \/ \E q \in pods[i] : q.tok = p.tok
           /\ UNCHANGED <<inputs, token, secret, cgs, seen, rec, ready, queued>>
           /\ used' \in [templates : Nat, rotations : Nat, edits : Nat, faults : Nat]
<1> DEFINE Good(ps) ==
      /\ ps \in SUBSET Pod /\ IsFiniteSet(ps)
      /\ \A p \in ps : /\ p.hash <= p.tok /\ p.tok <= secret
                       /\ \/ p.tok = secret
                          \/ \E q \in pods[i] : q.tok = p.tok
<1>1. Good(pods[i])
  BY DEF TypeOK, FinitePods, PodsLoadNewerToken
<1>2. \A S \in SUBSET pods[i] : Good(S)
  BY <1>1, FS_Subset
<1>3. ASSUME NEW S \in SUBSET pods[i], NEW p \in Pod, Good({p})
      PROVE  Good(S \cup {p})
  BY <1>2, <1>3, FS_AddElement
<1>4. dep[i] \in Deployment /\ dep[i].hash <= secret /\ secret \in Nat
  BY DEF TypeOK, TokenOrder
<1>5. CASE StartRollout(i)
  <2> DEFINE kept == {p \in pods[i] : p.ready \/ IsCurrent(p, dep[i])}
             new  == [hash |-> dep[i].hash, tmpl |-> dep[i].tmpl,
                      tok |-> secret, ready |-> FALSE]
             next == IF \E p \in kept : IsCurrent(p, dep[i]) THEN kept
                     ELSE kept \cup {new}
  <2>1. new \in Pod /\ new.hash <= new.tok /\ new.tok <= secret /\ new.tok = secret
    BY <1>4 DEF Pod, Deployment
  <2>2. Good({new})
    BY <2>1, FS_Singleton
  <2>3. Good(kept)
    BY <1>2, kept \in SUBSET pods[i]
  <2>4. Good(kept \cup {new})
    BY <1>3, <2>1, <2>2, kept \in SUBSET pods[i]
  <2>5. Good(next)
    BY <2>3, <2>4
  <2>6. pods' = [pods EXCEPT ![i] = next] /\ dep' = [dep EXCEPT ![i] = Observed(dep[i], next)]
    BY <1>5 DEF StartRollout
  <2> QED BY <1>5, <2>5, <2>6 DEF StartRollout, TypeOK
<1>6. ASSUME NEW ps, SetPods(i, ps)
      PROVE  /\ pods' = [pods EXCEPT ![i] = ps]
             /\ dep' = dep \/ dep' = [dep EXCEPT ![i] = Observed(dep[i], ps)]
  BY <1>6 DEF SetPods
<1>7. CASE PodBecomesReady(i)
  <2>1. PICK p \in pods[i] : SetPods(i, (pods[i] \ {p}) \cup {[p EXCEPT !.ready = TRUE]})
    BY <1>7 DEF PodBecomesReady
  <2> DEFINE q == [p EXCEPT !.ready = TRUE]
  <2>2. q \in Pod /\ q.tok = p.tok /\ q.hash = p.hash
    BY <1>1 DEF Pod
  <2>3. Good({q})
    BY <1>1, <2>2, FS_Singleton
  <2>4. Good((pods[i] \ {p}) \cup {q})
    BY <1>3, <2>2, <2>3, pods[i] \ {p} \in SUBSET pods[i]
  <2> QED BY <1>6, <1>7, <2>1, <2>4 DEF PodBecomesReady, TypeOK
<1>8. CASE RetireOldPod(i)
  <2>1. PICK p \in pods[i] : SetPods(i, pods[i] \ {p})
    BY <1>8 DEF RetireOldPod
  <2>2. Good(pods[i] \ {p})
    BY <1>2
  <2> QED BY <1>6, <1>8, <2>1, <2>2 DEF RetireOldPod, TypeOK
<1>9. CASE RestartPod(i)
  <2>1. PICK p \in pods[i] : SetPods(i, (pods[i] \ {p}) \cup
                                {[p EXCEPT !.tok = secret, !.ready = FALSE]})
    BY <1>9 DEF RestartPod
  <2> DEFINE q == [p EXCEPT !.tok = secret, !.ready = FALSE]
  <2>2. p \in Pod /\ p.hash <= p.tok /\ p.tok <= secret
    BY <1>1
  <2>3b. p.hash <= secret /\ secret <= secret
    BY <1>4, <2>2 DEF Pod
  <2>3a. q \in Pod /\ q.tok = secret /\ q.hash = p.hash
    BY <1>4, <2>2 DEF Pod
  <2>3. Good({q})
    BY <2>3a, <2>3b, FS_Singleton
  <2>4. Good((pods[i] \ {p}) \cup {q})
    BY <1>3, <2>3a, <2>3, pods[i] \ {p} \in SUBSET pods[i]
  <2>5. used' = [used EXCEPT !.faults = @ + 1] /\ used \in
          [templates : Nat, rotations : Nat, edits : Nat, faults : Nat]
    BY <1>9 DEF RestartPod, TypeOK
  <2>6. used' \in [templates : Nat, rotations : Nat, edits : Nat, faults : Nat]
    BY <2>5
  <2> QED BY <1>6, <1>9, <2>1, <2>4, <2>6 DEF RestartPod
<1> QED BY <1>5, <1>7, <1>8, <1>9

\* Users and cron triggers leave the token bookkeeping intact.
LEMMA UserStep ==
    ASSUME TokenInv, User
    PROVE  TokenInv'
<1>1. TypeOK' /\ FinitePods'
  <2>1. CASE PublishTemplate
    BY <2>1 DEF PublishTemplate, TokenInv, TypeOK, FinitePods, cluster
  <2>2. ASSUME NEW w \in SUBSET Replica, EditReplicas(w)
        PROVE  TypeOK' /\ FinitePods'
    BY <2>2 DEF EditReplicas, TokenInv, TypeOK, FinitePods, cluster
  <2>3. CASE RequestRotation
    BY <2>3 DEF RequestRotation, TokenInv, TypeOK, FinitePods, cluster
  <2>4. CASE CronTrigger
    BY <2>4 DEF CronTrigger, TokenInv, TypeOK, FinitePods, cluster
  <2>5. CASE Requeue
    BY <2>5 DEF Requeue, TokenInv, TypeOK, FinitePods, inputs, cluster
  <2> QED BY <2>1, <2>2, <2>3, <2>4, <2>5 DEF User
<1>2. TokenOrder' /\ PodsLoadNewerToken' /\ ObservedInOrder'
  BY <1>1 DEF User, PublishTemplate, EditReplicas, RequestRotation, CronTrigger, Requeue, TokenInv, TypeOK, TokenOrder, PodsLoadNewerToken,
         ObservedInOrder, Stored, inputs, cluster, Idle
<1>3. RolledOutMeansLoaded' /\ ReadyMeansLoaded'
  BY <1>1 DEF User, PublishTemplate, EditReplicas, RequestRotation, CronTrigger, Requeue, TokenInv, TypeOK, RolledOutMeansLoaded, ReadyMeansLoaded,
         isDeploymentRolledOut, inputs, cluster, Idle
<1>4. RequestServed' /\ UnannouncedIsDue'
  BY <1>1, <1>2 DEF User, PublishTemplate, EditReplicas, RequestRotation, CronTrigger, Requeue, TokenInv, TypeOK, TokenOrder, RequestServed,
         UnannouncedIsDue, Due, Stored, inputs, cluster, Idle
<1>5. HashAnnouncedFirst' /\ DoneReplicas'
  BY <1>1 DEF User, PublishTemplate, EditReplicas, RequestRotation, CronTrigger, Requeue, TokenInv, TypeOK, HashAnnouncedFirst, UnannouncedIsDue,
         TokenOrder, DoneReplicas, Stored, Exists, inputs, cluster, Idle
<1> QED BY <1>1, <1>2, <1>3, <1>4, <1>5 DEF TokenInv

\* The snapshot a reconcile takes is no newer than the inputs.
LEMMA StartStep ==
    ASSUME TokenInv, StartReconcile
    PROVE  TokenInv'
<1>1. TypeOK' /\ FinitePods'
  BY DEF StartReconcile, TokenInv, TypeOK, FinitePods, inputs, cluster, Steps, Idle
<1>2. TokenOrder' /\ PodsLoadNewerToken' /\ ObservedInOrder'
  BY <1>1 DEF StartReconcile, TokenInv, TypeOK, TokenOrder, PodsLoadNewerToken,
         ObservedInOrder, Stored, inputs, cluster, Idle
<1>3. RolledOutMeansLoaded' /\ ReadyMeansLoaded'
  BY <1>1 DEF StartReconcile, TokenInv, TypeOK, RolledOutMeansLoaded, ReadyMeansLoaded,
         isDeploymentRolledOut, inputs, cluster, Idle
<1>4. RequestServed' /\ UnannouncedIsDue'
  BY <1>1, <1>2 DEF StartReconcile, TokenInv, TypeOK, TokenOrder, RequestServed,
         UnannouncedIsDue, Due, Stored, inputs, cluster, Idle
<1>5. HashAnnouncedFirst' /\ DoneReplicas'
  BY <1>1 DEF StartReconcile, TokenInv, TypeOK, HashAnnouncedFirst, UnannouncedIsDue,
         TokenOrder, DoneReplicas, Stored, Exists, inputs, cluster, Idle
<1> QED BY <1>1, <1>2, <1>3, <1>4, <1>5 DEF TokenInv

\* Rotating makes the newest token newer than the pending request.
LEMMA RotateStep ==
    ASSUME TokenInv, maybeRotateToken
    PROVE  TokenInv'
<1>1. TypeOK' /\ FinitePods'
  <2>1. rec' = [rec EXCEPT !.pc = "secret", !.rotated = TRUE]
          \/ rec' = [rec EXCEPT !.pc = "secret"]
    BY DEF maybeRotateToken
  <2>2. rec' \in [pc : Steps, want : SUBSET Replica, tmpl : Nat, req : Nat,
                hash : Nat, rotated : BOOLEAN, todo : SUBSET Replica,
                errs : BOOLEAN, ready : {"True", "False", "Unknown"}]
    BY <2>1 DEF TokenInv, TypeOK, Steps
  <2>3. token' \in Nat
    BY DEF maybeRotateToken, TokenInv, TypeOK
  <2> QED BY <2>2, <2>3 DEF maybeRotateToken, TokenInv, TypeOK, FinitePods, inputs, cluster
<1>2. TokenOrder' /\ PodsLoadNewerToken' /\ ObservedInOrder'
  <2>1. token' = token \/ token' = token + 1
    BY DEF maybeRotateToken
  <2>2. rec'.pc = "secret" /\ rec.pc = "rotate" /\ rec'.req = rec.req
    BY DEF maybeRotateToken, TokenInv, TypeOK
  <2>3. UNCHANGED <<req, secret, cgs, dep, seen, pods>>
    BY DEF maybeRotateToken, inputs, cluster
  <2>4. TokenOrder'
    BY <2>1, <2>2, <2>3 DEF TokenInv, TypeOK, TokenOrder, Stored
  <2> QED BY <2>3, <2>4 DEF TokenInv, PodsLoadNewerToken, ObservedInOrder
<1>3. RolledOutMeansLoaded' /\ ReadyMeansLoaded'
  <2>1. rec'.pc = "secret"
    BY DEF maybeRotateToken, TokenInv, TypeOK
  <2>2. UNCHANGED <<dep, seen, pods>>
    BY DEF maybeRotateToken, cluster
  <2>3. ReadyMeansLoaded'
    BY <2>1 DEF ReadyMeansLoaded
  <2>4. RolledOutMeansLoaded'
    BY <2>2 DEF TokenInv, RolledOutMeansLoaded, isDeploymentRolledOut
  <2> QED BY <2>3, <2>4
<1>4. RequestServed' /\ UnannouncedIsDue'
  <2>1. CASE ~OnDemand /\ ~cron /\ token' = token
    BY <1>1, <1>2, <2>1 DEF maybeRotateToken, OnDemand, TokenInv, TypeOK, TokenOrder,
         RequestServed, UnannouncedIsDue, Due, inputs
  <2>2. CASE (OnDemand \/ cron) /\ token' = token + 1
    <3>1. rec'.pc = "secret" /\ rec'.rotated /\ rec'.req = rec.req
      BY <2>2 DEF maybeRotateToken, TokenInv, TypeOK
    <3>2. cron \/ Due(req)
      BY <2>2 DEF maybeRotateToken, OnDemand, TokenInv, TypeOK, TokenOrder, Due
    <3>3. UNCHANGED <<cgs, cron, req>>
      BY DEF maybeRotateToken, inputs
    <3>4. UnannouncedIsDue'
      BY <3>1, <3>2, <3>3 DEF UnannouncedIsDue, Due
    <3>5. rec.req < token'
      BY <2>2 DEF maybeRotateToken, TokenInv, TypeOK, TokenOrder
    <3> QED BY <3>1, <3>4, <3>5 DEF RequestServed
  <2> QED BY <2>1, <2>2 DEF maybeRotateToken
<1>5. HashAnnouncedFirst' /\ DoneReplicas'
  <2>1. /\ rec.pc = "rotate" /\ rec'.pc = "secret"
        /\ rec'.todo = rec.todo /\ rec'.want = rec.want
    BY DEF maybeRotateToken, TokenInv, TypeOK
  <2> QED BY <2>1 DEF maybeRotateToken, TokenInv, HashAnnouncedFirst, DoneReplicas, cluster
<1> QED BY <1>1, <1>2, <1>3, <1>4, <1>5 DEF TokenInv

\* Writing the Secret can only move it forward.
LEMMA SecretStep ==
    ASSUME TokenInv, WriteTokenSecret
    PROVE  TokenInv'
<1>1. TypeOK' /\ FinitePods'
  BY DEF WriteTokenSecret, TokenInv, TypeOK, FinitePods, inputs, cluster, Steps, Idle
<1>2. TokenOrder' /\ PodsLoadNewerToken' /\ ObservedInOrder'
  <2>1. secret <= token /\ secret \in Nat /\ token \in Nat /\ secret' = token
    BY DEF WriteTokenSecret, TokenInv, TypeOK, TokenOrder
  <2>2. \A i \in Replica : dep'[i].hash <= secret' /\ seen'[i].hash <= secret'
    BY <2>1 DEF WriteTokenSecret, TokenInv, TypeOK, TokenOrder, cluster, Deployment
  <2>3. PodsLoadNewerToken' /\ ObservedInOrder'
    BY <2>1 DEF WriteTokenSecret, TokenInv, TypeOK, PodsLoadNewerToken,
         ObservedInOrder, cluster, Pod
  <2>4. /\ rec'.pc = "announce" /\ rec'.hash = token /\ rec'.req = rec.req
        /\ rec.pc = "secret" /\ UNCHANGED <<token, req, cgs>>
    BY DEF WriteTokenSecret, TokenInv, TypeOK, inputs
  <2> QED BY <2>1, <2>2, <2>3, <2>4 DEF TokenInv, TypeOK, TokenOrder, Stored
<1>3. RolledOutMeansLoaded' /\ ReadyMeansLoaded'
  BY <1>1 DEF WriteTokenSecret, TokenInv, TypeOK, RolledOutMeansLoaded, ReadyMeansLoaded,
         isDeploymentRolledOut, inputs, cluster, Idle
<1>4. RequestServed' /\ UnannouncedIsDue'
  BY <1>1, <1>2 DEF WriteTokenSecret, TokenInv, TypeOK, TokenOrder, RequestServed,
         UnannouncedIsDue, Due, Stored, inputs, cluster, Idle
<1>5. HashAnnouncedFirst' /\ DoneReplicas'
  BY <1>1 DEF WriteTokenSecret, TokenInv, TypeOK, HashAnnouncedFirst, UnannouncedIsDue,
         TokenOrder, DoneReplicas, Stored, Exists, inputs, cluster, Idle
<1> QED BY <1>1, <1>2, <1>3, <1>4, <1>5 DEF TokenInv

\* After the announcement the CGS is up to date.
LEMMA AnnounceStep ==
    ASSUME TokenInv, patchCGSTokenHash
    PROVE  TokenInv'
<1>1. TypeOK' /\ FinitePods'
  BY DEF patchCGSTokenHash, TokenInv, TypeOK, FinitePods, inputs, cluster, Steps, Idle
<1>2. TokenOrder' /\ PodsLoadNewerToken' /\ ObservedInOrder'
  BY <1>1 DEF patchCGSTokenHash, TokenInv, TypeOK, TokenOrder, PodsLoadNewerToken,
         ObservedInOrder, Stored, inputs, cluster, Idle
<1>3. RolledOutMeansLoaded' /\ ReadyMeansLoaded'
  BY <1>1 DEF patchCGSTokenHash, TokenInv, TypeOK, RolledOutMeansLoaded, ReadyMeansLoaded,
         isDeploymentRolledOut, inputs, cluster, Idle
<1>4. RequestServed' /\ UnannouncedIsDue'
  BY <1>1, <1>2 DEF patchCGSTokenHash, TokenInv, TypeOK, TokenOrder, RequestServed,
         UnannouncedIsDue, Due, Stored, inputs, cluster, Idle
<1>5. HashAnnouncedFirst' /\ DoneReplicas'
  <2>1. \A i \in Replica : dep'[i].hash <= token
    BY DEF patchCGSTokenHash, TokenInv, TypeOK, TokenOrder, cluster, Deployment
  <2>2. cgs'.hash = cgs.hash \/ cgs'.hash = token
    BY DEF patchCGSTokenHash, TokenInv, TypeOK, TokenOrder, Stored
  <2>3. HashAnnouncedFirst'
    BY <2>1, <2>2 DEF patchCGSTokenHash, TokenInv, HashAnnouncedFirst, cluster
  <2>4. rec'.pc = "apply" /\ rec'.want \ rec'.todo = {}
    BY DEF patchCGSTokenHash, TokenInv, TypeOK, DoneReplicas
  <2> QED BY <2>3, <2>4 DEF DoneReplicas
<1> QED BY <1>1, <1>2, <1>3, <1>4, <1>5 DEF TokenInv

\* An empty replica list skips the loop.
LEMMA NothingStep ==
    ASSUME TokenInv, ApplyNothing
    PROVE  TokenInv'
<1>1. TypeOK' /\ FinitePods'
  BY DEF ApplyNothing, TokenInv, TypeOK, FinitePods, inputs, cluster, Steps, Idle
<1>2. TokenOrder' /\ PodsLoadNewerToken' /\ ObservedInOrder'
  BY <1>1 DEF ApplyNothing, TokenInv, TypeOK, TokenOrder, PodsLoadNewerToken,
         ObservedInOrder, Stored, inputs, cluster, Idle
<1>3. RolledOutMeansLoaded' /\ ReadyMeansLoaded'
  BY <1>1 DEF ApplyNothing, TokenInv, TypeOK, RolledOutMeansLoaded, ReadyMeansLoaded,
         isDeploymentRolledOut, inputs, cluster, Idle
<1>4. RequestServed' /\ UnannouncedIsDue'
  BY <1>1, <1>2 DEF ApplyNothing, TokenInv, TypeOK, TokenOrder, RequestServed,
         UnannouncedIsDue, Due, Stored, inputs, cluster, Idle
<1>5. HashAnnouncedFirst' /\ DoneReplicas'
  BY <1>1 DEF ApplyNothing, TokenInv, TypeOK, HashAnnouncedFirst, UnannouncedIsDue,
         TokenOrder, DoneReplicas, Stored, Exists, inputs, cluster, Idle
<1> QED BY <1>1, <1>2, <1>3, <1>4, <1>5 DEF TokenInv

\* A fault anywhere in a reconcile keeps the invariant.
LEMMA AbortStep ==
    ASSUME TokenInv, Abort
    PROVE  TokenInv'
<1>1. TypeOK' /\ FinitePods'
  BY DEF Abort, TokenInv, TypeOK, FinitePods, inputs, cluster, Steps, Idle
<1>2. TokenOrder' /\ PodsLoadNewerToken' /\ ObservedInOrder'
  BY <1>1 DEF Abort, TokenInv, TypeOK, TokenOrder, PodsLoadNewerToken,
         ObservedInOrder, Stored, inputs, cluster, Idle
<1>3. RolledOutMeansLoaded' /\ ReadyMeansLoaded'
  BY <1>1 DEF Abort, TokenInv, TypeOK, RolledOutMeansLoaded, ReadyMeansLoaded,
         isDeploymentRolledOut, inputs, cluster, Idle
<1>4. RequestServed' /\ UnannouncedIsDue'
  BY <1>1, <1>2 DEF Abort, TokenInv, TypeOK, TokenOrder, RequestServed,
         UnannouncedIsDue, Due, Stored, inputs, cluster, Idle
<1>5. HashAnnouncedFirst' /\ DoneReplicas'
  BY <1>1 DEF Abort, TokenInv, TypeOK, HashAnnouncedFirst, UnannouncedIsDue,
         TokenOrder, DoneReplicas, Stored, Exists, inputs, cluster, Idle
<1> QED BY <1>1, <1>2, <1>3, <1>4, <1>5 DEF TokenInv

\* Recording the rotation.
LEMMA ReconcileCGSStep ==
    ASSUME TokenInv, reconcileCGS
    PROVE  TokenInv'
<1>1. TypeOK' /\ FinitePods'
  BY DEF reconcileCGS, TokenInv, TypeOK, FinitePods, inputs, cluster, Steps, Idle
<1>2. TokenOrder' /\ PodsLoadNewerToken' /\ ObservedInOrder'
  <2>1. rec.pc = "cgs" /\ rec'.pc = "status" /\ rec'.hash = rec.hash /\ rec'.req = rec.req
    BY DEF reconcileCGS, TokenInv, TypeOK
  <2>2. cgs.handled <= rec.req /\ rec.req <= req /\ rec.hash = token /\ secret = token
    BY <2>1 DEF TokenInv, TokenOrder, Stored
  <2>3. rec.req < token
    BY <2>1, <2>2 DEF TokenInv, TypeOK, TokenOrder, RequestServed
  <2>4. /\ cgs'.handled = rec.req \/ cgs'.handled = cgs.handled
        /\ cgs'.rotated = rec.hash \/ cgs'.rotated = cgs.rotated
    BY DEF reconcileCGS, TokenInv, TypeOK
  <2>5. TokenOrder'
    BY <2>1, <2>2, <2>3, <2>4 DEF reconcileCGS, TokenInv, TypeOK, TokenOrder, Stored, cluster
  <2> QED BY <2>5 DEF reconcileCGS, TokenInv, PodsLoadNewerToken, ObservedInOrder, cluster
<1>3. RolledOutMeansLoaded' /\ ReadyMeansLoaded'
  BY <1>1 DEF reconcileCGS, TokenInv, TypeOK, RolledOutMeansLoaded, ReadyMeansLoaded,
         isDeploymentRolledOut, inputs, cluster, Idle
<1>4. RequestServed' /\ UnannouncedIsDue'
  BY <1>1, <1>2 DEF reconcileCGS, TokenInv, TypeOK, TokenOrder, RequestServed,
         UnannouncedIsDue, Due, Stored, inputs, cluster, Idle
<1>5. HashAnnouncedFirst' /\ DoneReplicas'
  BY <1>1 DEF reconcileCGS, TokenInv, TypeOK, HashAnnouncedFirst, UnannouncedIsDue,
         TokenOrder, DoneReplicas, Stored, Exists, inputs, cluster, Idle
<1> QED BY <1>1, <1>2, <1>3, <1>4, <1>5 DEF TokenInv

\* Reporting readiness.
LEMMA StatusStep ==
    ASSUME TokenInv, patchGatewayStatus
    PROVE  TokenInv'
<1>1. TypeOK' /\ FinitePods'
  BY DEF patchGatewayStatus, TokenInv, TypeOK, FinitePods, inputs, cluster, Steps, Idle
<1>2. TokenOrder' /\ PodsLoadNewerToken' /\ ObservedInOrder'
  BY <1>1 DEF patchGatewayStatus, TokenInv, TypeOK, TokenOrder, PodsLoadNewerToken,
         ObservedInOrder, Stored, inputs, cluster, Idle
<1>3. RolledOutMeansLoaded' /\ ReadyMeansLoaded'
  BY <1>1 DEF patchGatewayStatus, TokenInv, TypeOK, RolledOutMeansLoaded, ReadyMeansLoaded,
         isDeploymentRolledOut, inputs, cluster, Idle
<1>4. RequestServed' /\ UnannouncedIsDue'
  BY <1>1, <1>2 DEF patchGatewayStatus, TokenInv, TypeOK, TokenOrder, RequestServed,
         UnannouncedIsDue, Due, Stored, inputs, cluster, Idle
<1>5. HashAnnouncedFirst' /\ DoneReplicas'
  BY <1>1 DEF patchGatewayStatus, TokenInv, TypeOK, HashAnnouncedFirst, UnannouncedIsDue,
         TokenOrder, DoneReplicas, Stored, Exists, inputs, cluster, Idle
<1> QED BY <1>1, <1>2, <1>3, <1>4, <1>5 DEF TokenInv

\* An error that does not end the reconcile only skips a call.
LEMMA NonFatalStep ==
    ASSUME TokenInv, NonFatalError
    PROVE  TokenInv'
<1>1. /\ UNCHANGED <<inputs, token, secret, cgs, cluster, ready, queued>>
      /\ used' = [used EXCEPT !.faults = @ + 1]
  BY DEF NonFatalError
<1>2. PICK s \in {"readiness", "status"} :
        /\ rec' = [rec EXCEPT !.pc = s, !.errs = TRUE]
        /\ rec.pc = IF s = "status" THEN "cgs" ELSE "cleanup"
  BY DEF NonFatalError
<1>3. /\ rec'.pc = s /\ rec'.hash = rec.hash /\ rec'.req = rec.req
      /\ rec'.want = rec.want /\ rec'.rotated = rec.rotated /\ rec'.ready = rec.ready
  BY <1>2 DEF TokenInv, TypeOK
<1>4. TypeOK' /\ FinitePods'
  <2>1. rec' \in [pc : Steps, want : SUBSET Replica, tmpl : Nat, req : Nat,
                hash : Nat, rotated : BOOLEAN, todo : SUBSET Replica,
                errs : BOOLEAN, ready : {"True", "False", "Unknown"}]
    BY <1>2 DEF TokenInv, TypeOK, Steps
  <2>2. used' \in [templates : Nat, rotations : Nat, edits : Nat, faults : Nat]
    BY <1>1 DEF TokenInv, TypeOK
  <2> QED BY <1>1, <2>1, <2>2 DEF TokenInv, TypeOK, FinitePods, inputs, cluster
<1>5. TokenOrder' /\ PodsLoadNewerToken' /\ ObservedInOrder'
  BY <1>1, <1>2, <1>3 DEF TokenInv, TokenOrder, PodsLoadNewerToken, ObservedInOrder,
         Stored, inputs, cluster
<1>6. RolledOutMeansLoaded' /\ ReadyMeansLoaded'
  BY <1>1, <1>2, <1>3 DEF TokenInv, RolledOutMeansLoaded, ReadyMeansLoaded, cluster
<1>7. RequestServed' /\ UnannouncedIsDue'
  BY <1>1, <1>2, <1>3 DEF TokenInv, RequestServed, UnannouncedIsDue, Due, inputs
<1>8. HashAnnouncedFirst' /\ DoneReplicas'
  BY <1>1, <1>2, <1>3 DEF TokenInv, HashAnnouncedFirst, DoneReplicas, cluster
<1> QED BY <1>4, <1>5, <1>6, <1>7, <1>8 DEF TokenInv

\* What server-side apply does to one Deployment.
LEMMA AppliedType ==
    ASSUME NEW d \in Deployment, TypeOK, d.obs <= d.gen
    PROVE  /\ Applied(d) \in Deployment
           /\ Applied(d).hash = rec.hash /\ Applied(d).tmpl = rec.tmpl
           /\ Exists(Applied(d)) /\ Applied(d).obs <= Applied(d).gen
           /\ Applied(d) = d \/ ~isDeploymentRolledOut(Applied(d))
<1>1. rec.hash \in Nat /\ rec.tmpl \in Nat
  BY DEF TypeOK
<1>2. CASE Exists(d) /\ d.hash = rec.hash /\ d.tmpl = rec.tmpl
  BY <1>2 DEF Applied, Exists
<1>3. CASE ~(Exists(d) /\ d.hash = rec.hash /\ d.tmpl = rec.tmpl)
  <2>1. /\ Applied(d) \in Deployment
        /\ Applied(d).hash = rec.hash /\ Applied(d).tmpl = rec.tmpl
        /\ Applied(d).gen = d.gen + 1 /\ Applied(d).obs = d.obs
    BY <1>1, <1>3 DEF Applied, Deployment
  <2>2. d.gen \in Nat /\ d.obs \in Nat
    BY DEF Deployment
  <2>3. d.gen + 1 # 0 /\ d.obs <= d.gen + 1 /\ ~(d.obs >= d.gen + 1)
    BY <2>2
  <2> QED BY <2>1, <2>3 DEF Exists, isDeploymentRolledOut
<1> QED BY <1>2, <1>3

\* One iteration of the loop over the replicas.
LEMMA ApplyStep ==
    ASSUME TokenInv, NEW i \in Replica, applyTunnelDeployment(i)
    PROVE  TokenInv'
<1> DEFINE A == Applied(dep[i])
<1>1. /\ dep[i] \in Deployment /\ dep[i].obs <= dep[i].gen /\ TypeOK
      /\ rec.pc = "apply" /\ rec.hash = token /\ secret = token
  BY DEF TokenInv, TypeOK, ObservedInOrder, TokenOrder, Stored, applyTunnelDeployment
<1>2. /\ A \in Deployment /\ A.hash = rec.hash /\ A.tmpl = rec.tmpl
      /\ Exists(A) /\ A.obs <= A.gen /\ (A = dep[i] \/ ~isDeploymentRolledOut(A))
  BY <1>1, AppliedType
<1> HIDE DEF A
<1>3. /\ dep' = dep \/ dep' = [dep EXCEPT ![i] = A]
      /\ UNCHANGED <<inputs, token, secret, cgs, seen, pods, ready, queued, used>>
  BY DEF applyTunnelDeployment, A
<1>4. \/ rec' = [rec EXCEPT !.todo = {}, !.pc = "cleanup"]
      \/ /\ rec' = [rec EXCEPT !.todo = rec.todo \ {i}, !.pc = "cleanup"]
      \/ /\ rec' = [rec EXCEPT !.todo = rec.todo \ {i}, !.pc = "apply"]
         /\ dep' = [dep EXCEPT ![i] = A]
  BY DEF applyTunnelDeployment, A
<1>5. /\ rec'.pc \in {"cleanup", "apply"} /\ rec'.hash = rec.hash /\ rec'.req = rec.req
      /\ rec'.want = rec.want /\ rec'.tmpl = rec.tmpl /\ rec'.rotated = rec.rotated
  BY <1>1, <1>4 DEF TypeOK
<1>6. TypeOK' /\ FinitePods'
  <2>1. rec' \in [pc : Steps, want : SUBSET Replica, tmpl : Nat, req : Nat,
                hash : Nat, rotated : BOOLEAN, todo : SUBSET Replica,
                errs : BOOLEAN, ready : {"True", "False", "Unknown"}]
    <3>1. CASE rec' = [rec EXCEPT !.todo = {}, !.pc = "cleanup"]
      BY <1>1, <3>1 DEF TypeOK, Steps
    <3>2. CASE rec' = [rec EXCEPT !.todo = rec.todo \ {i}, !.pc = "cleanup"]
      BY <1>1, <3>2 DEF TypeOK, Steps
    <3>3. CASE rec' = [rec EXCEPT !.todo = rec.todo \ {i}, !.pc = "apply"]
      BY <1>1, <3>3 DEF TypeOK, Steps
    <3> QED BY <1>4, <3>1, <3>2, <3>3
  <2>2. dep' \in [Replica -> Deployment]
    BY <1>1, <1>2, <1>3 DEF TypeOK
  <2> QED BY <1>1, <1>3, <2>1, <2>2 DEF TypeOK, TokenInv, FinitePods, inputs
<1>7. TokenOrder'
  <2>1. \A k \in Replica : dep'[k].hash <= secret
    BY <1>1, <1>2, <1>3 DEF TokenInv, TypeOK, TokenOrder
  <2> QED BY <1>1, <1>3, <1>5, <2>1 DEF TokenInv, TokenOrder, Stored, inputs
<1>8. PodsLoadNewerToken' /\ ObservedInOrder'
  BY <1>1, <1>2, <1>3 DEF TokenInv, TypeOK, PodsLoadNewerToken, ObservedInOrder
<1>9. RolledOutMeansLoaded' /\ ReadyMeansLoaded'
  <2>1. ASSUME NEW k \in Replica, NEW d \in {dep'[k], seen'[k]}, isDeploymentRolledOut(d)
        PROVE  \A q \in pods'[k] : d.hash <= q.tok
    <3>1. d \in {dep[k], seen[k]}
      BY <1>1, <1>2, <1>3, <2>1 DEF TypeOK
    <3> QED BY <1>3, <2>1, <3>1 DEF TokenInv, RolledOutMeansLoaded
  <2> QED BY <1>5, <2>1 DEF RolledOutMeansLoaded, ReadyMeansLoaded
<1>10. RequestServed' /\ UnannouncedIsDue'
  BY <1>1, <1>3, <1>5 DEF TokenInv, RequestServed, UnannouncedIsDue
<1>11. HashAnnouncedFirst'
  <2>1. cgs.hash # 0 => token <= cgs.hash
    BY <1>1 DEF TokenInv, TypeOK, UnannouncedIsDue
  <2> QED BY <1>1, <1>2, <1>3, <2>1 DEF TokenInv, TypeOK, HashAnnouncedFirst
<1>12. DoneReplicas'
  <2>1. CASE rec'.pc = "cleanup"
    BY <2>1 DEF DoneReplicas
  <2>2. CASE rec'.pc = "apply"
    <3>1. /\ rec'.todo = rec.todo \ {i} /\ dep' = [dep EXCEPT ![i] = A]
      BY <1>1, <1>4, <2>2 DEF TypeOK
    <3>2. \A k \in rec.want \ rec.todo :
            Exists(dep[k]) /\ dep[k].hash = rec.hash /\ dep[k].tmpl = rec.tmpl
      BY <1>1 DEF TokenInv, DoneReplicas
    <3>3. rec.want \in SUBSET Replica
      BY <1>1 DEF TypeOK
    <3> QED BY <1>1, <1>2, <1>5, <2>2, <3>1, <3>2, <3>3 DEF DoneReplicas, TypeOK
  <2> QED BY <1>5, <2>1, <2>2
<1> QED BY <1>6, <1>7, <1>8, <1>9, <1>10, <1>11, <1>12 DEF TokenInv

\* Deleting Deployments that are not desired removes pods and templates only.
LEMMA CleanupStep ==
    ASSUME TokenInv, NEW failed \in SUBSET Replica, cleanupStaleTunnelResources(failed)
    PROVE  TokenInv'
<1>1. PICK gone \in SUBSET Replica :
        /\ dep' = [k \in Replica |-> IF k \in gone THEN Absent ELSE dep[k]]
        /\ pods' = [k \in Replica |-> IF k \in gone THEN {} ELSE pods[k]]
  BY DEF cleanupStaleTunnelResources
<1>2. /\ rec.pc = "cleanup" /\ UNCHANGED <<inputs, token, secret, cgs, seen, ready, queued>>
      /\ rec' = [rec EXCEPT !.pc = "readiness", !.errs = (failed # {})]
      /\ used' = [used EXCEPT !.faults = @ + Cardinality(failed)]
  BY DEF cleanupStaleTunnelResources
<1>3. /\ rec'.pc = "readiness" /\ rec'.hash = rec.hash /\ rec'.req = rec.req
      /\ rec'.want = rec.want /\ rec'.rotated = rec.rotated
  BY <1>2 DEF TokenInv, TypeOK
<1>4. /\ Absent \in Deployment /\ Absent.hash = 0 /\ Absent.obs = 0 /\ Absent.gen = 0
      /\ ~isDeploymentRolledOut(Absent)
  BY DEF Absent, Deployment, isDeploymentRolledOut, desiredReplicas
<1>5. \A k \in Replica : \/ dep'[k] = dep[k] /\ pods'[k] = pods[k]
                         \/ dep'[k] = Absent /\ pods'[k] = {}
  BY <1>1
<1>6. TypeOK' /\ FinitePods'
  <2>1. Cardinality(failed) \in Nat
    <3>1. IsFiniteSet(Replica)
      BY FS_Interval DEF Replica
    <3> QED BY <3>1, FS_Subset, FS_CardinalityType
  <2>2. used' \in [templates : Nat, rotations : Nat, edits : Nat, faults : Nat]
    BY <1>2, <2>1 DEF TokenInv, TypeOK
  <2>3. rec' \in [pc : Steps, want : SUBSET Replica, tmpl : Nat, req : Nat,
                hash : Nat, rotated : BOOLEAN, todo : SUBSET Replica,
                errs : BOOLEAN, ready : {"True", "False", "Unknown"}]
    BY <1>2 DEF TokenInv, TypeOK, Steps
  <2>4. dep' \in [Replica -> Deployment] /\ pods' \in [Replica -> SUBSET Pod]
    BY <1>1, <1>4 DEF TokenInv, TypeOK
  <2>5. FinitePods'
    BY <1>5, FS_EmptySet DEF TokenInv, FinitePods
  <2> QED BY <1>2, <2>2, <2>3, <2>4, <2>5 DEF TokenInv, TypeOK, inputs
<1>7. TokenOrder'
  <2>1. \A k \in Replica : dep'[k].hash <= secret
    BY <1>4, <1>5 DEF TokenInv, TypeOK, TokenOrder
  <2> QED BY <1>2, <1>3, <2>1 DEF TokenInv, TokenOrder, Stored, inputs
<1>8. PodsLoadNewerToken' /\ ObservedInOrder'
  BY <1>2, <1>4, <1>5 DEF TokenInv, TypeOK, PodsLoadNewerToken, ObservedInOrder
<1>9. RolledOutMeansLoaded' /\ ReadyMeansLoaded'
  BY <1>2, <1>3, <1>4, <1>5 DEF TokenInv, RolledOutMeansLoaded, ReadyMeansLoaded
<1>10. RequestServed' /\ UnannouncedIsDue'
  BY <1>2, <1>3 DEF TokenInv, RequestServed, UnannouncedIsDue
<1>11. HashAnnouncedFirst' /\ DoneReplicas'
  BY <1>2, <1>3, <1>4, <1>5 DEF TokenInv, TypeOK, HashAnnouncedFirst, DoneReplicas
<1> QED BY <1>6, <1>7, <1>8, <1>9, <1>10, <1>11 DEF TokenInv

\* What r.Get returns is well typed, and no pod lags behind it once it looks
\* rolled out.
LEMMA GetFacts ==
    ASSUME TokenInv, NEW i \in Replica
    PROVE  /\ Get(i) \in Deployment
           /\ isDeploymentRolledOut(Get(i)) => \A p \in pods[i] : Get(i).hash <= p.tok
BY DEF Get, TokenInv, TypeOK, RolledOutMeansLoaded

\* Readiness is claimed only when every desired replica runs the newest token.
LEMMA ReadinessStep ==
    ASSUME TokenInv, checkAllDeploymentsReadiness
    PROVE  TokenInv'
<1>1. /\ rec.pc = "readiness"
      /\ UNCHANGED <<inputs, token, secret, cgs, cluster, ready, queued, used>>
  BY DEF checkAllDeploymentsReadiness
<1>2. PICK s \in {"True", "False", "Unknown"} :
        /\ rec' = [rec EXCEPT !.pc = "cgs", !.ready = s]
        /\ s = "True" => \A i \in rec.want : DeployRolledOut(Get(i))
  BY DEF checkAllDeploymentsReadiness, Readiness
<1>3. /\ rec'.pc = "cgs" /\ rec'.hash = rec.hash /\ rec'.req = rec.req
      /\ rec'.want = rec.want /\ rec'.rotated = rec.rotated /\ rec'.ready = s
  BY <1>2 DEF TokenInv, TypeOK
<1>4. TypeOK' /\ FinitePods'
  <2>1. rec' \in [pc : Steps, want : SUBSET Replica, tmpl : Nat, req : Nat,
                hash : Nat, rotated : BOOLEAN, todo : SUBSET Replica,
                errs : BOOLEAN, ready : {"True", "False", "Unknown"}]
    BY <1>2 DEF TokenInv, TypeOK, Steps
  <2> QED BY <1>1, <2>1 DEF TokenInv, TypeOK, FinitePods, inputs, cluster
<1>5. TokenOrder' /\ PodsLoadNewerToken' /\ ObservedInOrder'
  BY <1>1, <1>3 DEF TokenInv, TokenOrder, PodsLoadNewerToken, ObservedInOrder,
         Stored, inputs, cluster
<1>6. ReadyMeansLoaded'
  <2>1. ASSUME s = "True", NEW i \in rec.want
        PROVE  \A p \in pods[i] : rec.hash <= p.tok
    <3>1. i \in Replica
      BY DEF TokenInv, TypeOK
    <3>2. Get(i).hash = rec.hash /\ isDeploymentRolledOut(Get(i))
      BY <1>2, <2>1 DEF DeployRolledOut
    <3> QED BY <3>1, <3>2, GetFacts
  <2> QED BY <1>1, <1>3, <2>1 DEF ReadyMeansLoaded, cluster
<1>7. RolledOutMeansLoaded' /\ RequestServed' /\ UnannouncedIsDue'
  BY <1>1, <1>3 DEF TokenInv, RolledOutMeansLoaded, RequestServed, UnannouncedIsDue,
         inputs, cluster
<1>8. HashAnnouncedFirst' /\ DoneReplicas'
  BY <1>1, <1>3 DEF TokenInv, HashAnnouncedFirst, DoneReplicas, inputs, cluster
<1> QED BY <1>4, <1>5, <1>6, <1>7, <1>8 DEF TokenInv

\* The pods of a Deployment change under the controller's feet.
LEMMA PodStepInv ==
    ASSUME TokenInv, NEW i \in Replica,
           StartRollout(i) \/ PodBecomesReady(i) \/ RetireOldPod(i) \/ RestartPod(i)
    PROVE  TokenInv'
<1>1. PICK ps \in SUBSET Pod :
        /\ IsFiniteSet(ps)
        /\ pods' = [pods EXCEPT ![i] = ps]
        /\ \/ dep' = dep
           \/ dep' = [dep EXCEPT ![i] = Observed(dep[i], ps)]
        /\ \A p \in ps : /\ p.hash <= p.tok /\ p.tok <= secret
                         /\ \/ p.tok = secret
                            \/ \E q \in pods[i] : q.tok = p.tok
  BY PodStep DEF TokenInv
<1>2. /\ UNCHANGED <<inputs, token, secret, cgs, seen, rec, ready, queued>>
      /\ used' \in [templates : Nat, rotations : Nat, edits : Nat, faults : Nat]
  BY PodStep DEF TokenInv
<1> DEFINE O == Observed(dep[i], ps)
<1>3. /\ O \in Deployment /\ O.hash = dep[i].hash /\ O.tmpl = dep[i].tmpl
      /\ O.gen = dep[i].gen /\ O.obs = dep[i].gen
      /\ isDeploymentRolledOut(O) => \A p \in ps : IsCurrent(p, dep[i])
  BY <1>1, ObservedType DEF TokenInv, TypeOK
<1>4. dep' = dep \/ dep' = [dep EXCEPT ![i] = O]
  BY <1>1
<1> HIDE DEF O
<1>5. TypeOK' /\ FinitePods'
  <2>1. dep' \in [Replica -> Deployment] /\ pods' \in [Replica -> SUBSET Pod]
    BY <1>1, <1>3, <1>4 DEF TokenInv, TypeOK
  <2>2. FinitePods'
    BY <1>1 DEF TokenInv, TypeOK, FinitePods
  <2> QED BY <1>2, <2>1, <2>2 DEF TokenInv, TypeOK, inputs
<1>6. \A k \in Replica : /\ dep'[k].hash = dep[k].hash /\ dep'[k].tmpl = dep[k].tmpl
                         /\ dep'[k].gen = dep[k].gen
                         /\ dep'[k].obs = dep[k].obs \/ dep'[k].obs = dep[k].gen
  BY <1>3, <1>4 DEF TokenInv, TypeOK
<1>7. TokenOrder'
  BY <1>2, <1>6 DEF TokenInv, TokenOrder, Stored, inputs
<1>8. PodsLoadNewerToken'
  BY <1>1, <1>2 DEF TokenInv, TypeOK, PodsLoadNewerToken
<1>9. ObservedInOrder'
  <2>1. \A k \in Replica : dep[k].gen \in Nat
    BY DEF TokenInv, TypeOK, Deployment
  <2> QED BY <1>6, <2>1 DEF TokenInv, ObservedInOrder
<1>10. \* Every pod's token is the Secret's or one it had before.
       ASSUME NEW k \in Replica, NEW h \in Nat, h <= secret, \A q \in pods[k] : h <= q.tok
       PROVE  \A p \in pods'[k] : h <= p.tok
  BY <1>1, <1>10 DEF TokenInv, TypeOK
<1>11. RolledOutMeansLoaded'
  <2>1. ASSUME NEW k \in Replica, NEW d \in {dep[k], seen[k]}, isDeploymentRolledOut(d)
        PROVE  \A p \in pods'[k] : d.hash <= p.tok
    <3>1. d.hash \in Nat /\ d.hash <= secret
      BY DEF TokenInv, TypeOK, TokenOrder, Deployment
    <3>2. \A q \in pods[k] : d.hash <= q.tok
      BY <2>1 DEF TokenInv, RolledOutMeansLoaded
    <3> QED BY <3>1, <3>2, <1>10
  <2>2. ASSUME isDeploymentRolledOut(O)
        PROVE  \A p \in ps : O.hash <= p.tok
    BY <1>1, <1>3, <2>2 DEF IsCurrent
  <2>3. \A k \in Replica : dep'[k] = dep[k] \/ (k = i /\ dep'[k] = O)
    BY <1>4 DEF TokenInv, TypeOK
  <2>4. pods'[i] = ps
    BY <1>1 DEF TokenInv, TypeOK
  <2> QED BY <1>2, <2>1, <2>2, <2>3, <2>4 DEF RolledOutMeansLoaded
<1>12. ReadyMeansLoaded'
  <2>1. rec.want \in SUBSET Replica /\ rec.hash \in Nat /\ secret \in Nat
    BY DEF TokenInv, TypeOK
  <2>2. rec.pc \in {"cgs", "status"} => rec.hash <= secret
    BY <2>1 DEF TokenInv, TokenOrder, Stored
  <2> QED BY <1>2, <1>10, <2>1, <2>2 DEF TokenInv, ReadyMeansLoaded
<1>13. RequestServed' /\ UnannouncedIsDue'
  BY <1>2 DEF TokenInv, RequestServed, UnannouncedIsDue, Due, inputs
<1>14. HashAnnouncedFirst' /\ DoneReplicas'
  BY <1>2, <1>6 DEF TokenInv, TypeOK, HashAnnouncedFirst, DoneReplicas, Exists
<1> QED BY <1>5, <1>7, <1>8, <1>9, <1>11, <1>12, <1>13, <1>14 DEF TokenInv

\* A missed deadline changes the Progressing condition only.
LEMMA DeadlineStep ==
    ASSUME TokenInv, NEW i \in Replica, DeadlineExceeded(i)
    PROVE  TokenInv'
<1>1. UNCHANGED <<inputs, token, secret, cgs, seen, pods, rec, ready, queued, used>>
  BY DEF DeadlineExceeded
<1> DEFINE F == [dep[i] EXCEPT !.prog = "failed"]
<1>2. dep' = [dep EXCEPT ![i] = F]
  BY DEF DeadlineExceeded
<1>3. /\ F \in Deployment /\ F.hash = dep[i].hash /\ F.tmpl = dep[i].tmpl
      /\ F.gen = dep[i].gen /\ F.obs = dep[i].obs
      /\ F.updated = dep[i].updated /\ F.replicas = dep[i].replicas
      /\ F.ready = dep[i].ready
  BY DEF TokenInv, TypeOK, Deployment
<1> HIDE DEF F
<1>4. dep' \in [Replica -> Deployment]
  BY <1>2, <1>3 DEF TokenInv, TypeOK
<1>5. \A k \in Replica : /\ dep'[k].hash = dep[k].hash /\ dep'[k].tmpl = dep[k].tmpl
                         /\ dep'[k].gen = dep[k].gen /\ dep'[k].obs = dep[k].obs
                         /\ isDeploymentRolledOut(dep'[k]) = isDeploymentRolledOut(dep[k])
  BY <1>2, <1>3 DEF TokenInv, TypeOK, isDeploymentRolledOut
<1>6. TypeOK' /\ FinitePods'
  BY <1>1, <1>4 DEF TokenInv, TypeOK, FinitePods, inputs
<1>7. TokenOrder' /\ PodsLoadNewerToken' /\ ObservedInOrder'
  BY <1>1, <1>5 DEF TokenInv, TokenOrder, PodsLoadNewerToken, ObservedInOrder,
         Stored, inputs
<1>8. RolledOutMeansLoaded' /\ ReadyMeansLoaded'
  BY <1>1, <1>5 DEF TokenInv, RolledOutMeansLoaded, ReadyMeansLoaded
<1>9. RequestServed' /\ UnannouncedIsDue'
  BY <1>1 DEF TokenInv, RequestServed, UnannouncedIsDue, Due, inputs
<1>10. HashAnnouncedFirst' /\ DoneReplicas'
  BY <1>1, <1>5 DEF TokenInv, TypeOK, HashAnnouncedFirst, DoneReplicas, Exists
<1> QED BY <1>6, <1>7, <1>8, <1>9, <1>10 DEF TokenInv

\* The cache catches up with the API server.
LEMMA CacheStep ==
    ASSUME TokenInv, NEW i \in Replica, SyncCache(i)
    PROVE  TokenInv'
<1>1. /\ UNCHANGED <<inputs, token, secret, cgs, dep, pods, rec, ready, used>>
      /\ queued' = TRUE /\ seen' = [seen EXCEPT ![i] = dep[i]]
  BY DEF SyncCache
<1>2. \A k \in Replica : seen'[k] = seen[k] \/ seen'[k] = dep[k]
  BY <1>1 DEF TokenInv, TypeOK
<1>3. TypeOK' /\ FinitePods'
  BY <1>1 DEF TokenInv, TypeOK, FinitePods, inputs
<1>4. TokenOrder' /\ PodsLoadNewerToken' /\ ObservedInOrder'
  BY <1>1, <1>2 DEF TokenInv, TokenOrder, PodsLoadNewerToken, ObservedInOrder,
         Stored, inputs
<1>5. RolledOutMeansLoaded' /\ ReadyMeansLoaded'
  BY <1>1, <1>2 DEF TokenInv, RolledOutMeansLoaded, ReadyMeansLoaded
<1>6. /\ RequestServed' /\ UnannouncedIsDue' /\ HashAnnouncedFirst' /\ DoneReplicas'
  BY <1>1 DEF TokenInv, RequestServed, UnannouncedIsDue, Due, HashAnnouncedFirst,
         DoneReplicas, inputs
<1> QED BY <1>3, <1>4, <1>5, <1>6 DEF TokenInv

\* The first reconcile starts from an empty cluster.
LEMMA InitInv == Init => TokenInv
<1> SUFFICES ASSUME Init PROVE TokenInv
  OBVIOUS
<1>1. TypeOK
  BY DEF Init, TypeOK, Deployment, Absent, Idle, Steps
<1>2. FinitePods
  BY FS_EmptySet DEF Init, FinitePods
<1>3. \A i \in Replica : /\ dep[i].hash = 0 /\ seen[i].hash = 0 /\ dep[i].obs = 0
                         /\ dep[i].gen = 0 /\ pods[i] = {}
  BY DEF Init, Absent
<1>4. rec.pc = "idle"
  BY DEF Init, Idle
<1>5. TokenOrder
  BY <1>3, <1>4 DEF Init, TokenOrder, Stored
<1>6. PodsLoadNewerToken /\ ObservedInOrder /\ RolledOutMeansLoaded
  BY <1>3 DEF PodsLoadNewerToken, ObservedInOrder, RolledOutMeansLoaded
<1>7. ReadyMeansLoaded /\ RequestServed /\ UnannouncedIsDue /\ HashAnnouncedFirst /\ DoneReplicas
  BY <1>4 DEF Init, ReadyMeansLoaded, RequestServed, UnannouncedIsDue,
         HashAnnouncedFirst, DoneReplicas
<1> QED BY <1>1, <1>2, <1>5, <1>6, <1>7 DEF TokenInv

\* Every step of the system keeps the invariant.
LEMMA NextInv == TokenInv /\ [Next]_vars => TokenInv'
<1> SUFFICES ASSUME TokenInv, [Next]_vars PROVE TokenInv'
  OBVIOUS
<1>1. CASE User
  BY <1>1, UserStep
<1>2. CASE Reconcile
  <2>1. ASSUME NEW i \in Replica, applyTunnelDeployment(i) PROVE TokenInv'
    BY <2>1, ApplyStep
  <2>2. ASSUME NEW failed \in SUBSET Replica, cleanupStaleTunnelResources(failed)
        PROVE  TokenInv'
    BY <2>2, CleanupStep
  <2> QED BY <1>2, <2>1, <2>2, StartStep, RotateStep, SecretStep, AnnounceStep,
             NothingStep, ReadinessStep, ReconcileCGSStep, StatusStep DEF Reconcile
<1>3. CASE Abort \/ NonFatalError
  BY <1>3, AbortStep, NonFatalStep
<1>4. ASSUME NEW i \in Replica, Kubernetes(i) PROVE TokenInv'
  BY <1>4, PodStepInv, DeadlineStep, CacheStep DEF Kubernetes
<1>5. CASE UNCHANGED vars
  BY <1>5 DEF vars, cluster, inputs, TokenInv, TypeOK, FinitePods, TokenOrder,
         PodsLoadNewerToken, ObservedInOrder, RolledOutMeansLoaded, ReadyMeansLoaded,
         RequestServed, UnannouncedIsDue, Due, Stored, HashAnnouncedFirst, DoneReplicas
<1> QED BY <1>1, <1>2, <1>3, <1>4, <1>5 DEF Next

\* The token bookkeeping is consistent in every reachable state: nothing runs
\* ahead of Cloudflare, a Deployment that looks rolled out (however stale the
\* look) has no pod on a token older than its template's, and an unannounced
\* token is always about to be replaced.
THEOREM TokenInvariant == Spec => []TokenInv
BY InitInv, NextInv, PTL DEF Spec

\* The state of the rollout model is always well typed.
THEOREM TypeCorrect == Spec => []TypeOK
<1>1. TokenInv => TypeOK
  BY DEF TokenInv
<1> QED BY <1>1, TokenInvariant, PTL

\* For any number of replicas, faults, crashes and stale reads, no Deployment
\* gets a token hash before the CGS announces it (patchCGSTokenHash runs before
\* applyTunnelDeployments).
THEOREM HashAnnounced == Spec => []HashAnnouncedFirst
<1>1. TokenInv => HashAnnouncedFirst
  BY DEF TokenInv
<1> QED BY <1>1, TokenInvariant, PTL

\* A step writes lastHandledRotateAt only in reconcileCGS of a ready Gateway,
\* whose pods have all loaded the token the reconcile stored.
LEMMA HandledStep ==
    ASSUME TokenInv, Next, cgs'.handled # cgs.handled
    PROVE  \A i \in rec.want : \A p \in pods[i] : p.tok > cgs'.handled
<1>1. reconcileCGS \/ patchCGSTokenHash \/ UNCHANGED cgs
  BY DEF Next, User, Reconcile, Kubernetes, PublishTemplate, EditReplicas,
         RequestRotation, CronTrigger, Requeue, StartReconcile, maybeRotateToken,
         WriteTokenSecret, ApplyNothing, applyTunnelDeployment,
         cleanupStaleTunnelResources, checkAllDeploymentsReadiness,
         patchGatewayStatus, NonFatalError, Abort, StartRollout, PodBecomesReady, RetireOldPod,
         RestartPod, DeadlineExceeded, SyncCache
<1>2. ~patchCGSTokenHash
  BY DEF patchCGSTokenHash, TokenInv, TypeOK
<1>3. reconcileCGS
  BY <1>1, <1>2
<1>4. rec.pc = "cgs" /\ rec.ready = "True" /\ cgs'.handled = rec.req
  BY <1>3 DEF reconcileCGS
<1>5. rec.hash = token /\ rec.req < token
  BY <1>4 DEF TokenInv, TypeOK, TokenOrder, RequestServed, Stored
<1>6. \A i \in rec.want : \A p \in pods[i] : rec.hash <= p.tok /\ p.tok \in Nat
  BY <1>4 DEF TokenInv, TypeOK, ReadyMeansLoaded, Pod
<1> QED BY <1>4, <1>5, <1>6 DEF TokenInv, TypeOK

\* A rotation request is acknowledged (lastHandledRotateAt) only when every pod
\* of every desired replica has loaded a token minted after the request.
THEOREM Handled == Spec => HandledAfterRollout
<1>1. TokenInv /\ [Next]_vars =>
        [cgs'.handled # cgs.handled =>
            \A i \in rec.want : \A p \in pods[i] : p.tok > cgs'.handled]_vars
  BY HandledStep
<1> QED BY <1>1, TokenInvariant, PTL DEF Spec, HandledAfterRollout

\* A Deployment's generation moves only in its own iteration of the loop.
LEMMA SpreadStep ==
    ASSUME TokenInv, Next, NEW j \in Replica, Exists(dep'[j]), dep'[j].gen # dep[j].gen
    PROVE  \A i \in rec.want : i < j =>
             Exists(dep[i]) /\ dep[i].hash = rec.hash /\ dep[i].tmpl = rec.tmpl
<1>1. CASE \E i \in Replica : applyTunnelDeployment(i)
  <2>1. PICK k \in Replica : applyTunnelDeployment(k)
    BY <1>1
  <2>2. /\ rec.pc = "apply" /\ \A m \in rec.todo : k <= m
        /\ \A m \in Replica \ {k} : dep'[m] = dep[m]
    BY <2>1 DEF applyTunnelDeployment, NextReplica, TokenInv, TypeOK
  <2>3. k = j
    BY <2>2
  <2>4. \A i \in rec.want : i < j => i \in rec.want \ rec.todo
    BY <2>2, <2>3 DEF TokenInv, TypeOK, Replica
  <2> QED BY <2>2, <2>4 DEF TokenInv, DoneReplicas
<1>2. CASE \E failed \in SUBSET Replica : cleanupStaleTunnelResources(failed)
  <2>1. dep'[j] = Absent \/ dep'[j] = dep[j]
    BY <1>2 DEF cleanupStaleTunnelResources
  <2> QED BY <2>1 DEF Exists, Absent
<1>3. ASSUME NEW i \in Replica,
             StartRollout(i) \/ PodBecomesReady(i) \/ RetireOldPod(i) \/ RestartPod(i)
      PROVE  FALSE
  <2>1. PICK ps \in SUBSET Pod :
          /\ IsFiniteSet(ps)
          /\ \/ dep' = dep
             \/ dep' = [dep EXCEPT ![i] = Observed(dep[i], ps)]
    BY <1>3, PodStep DEF TokenInv
  <2>2. Observed(dep[i], ps).gen = dep[i].gen
    BY <2>1, ObservedType DEF TokenInv, TypeOK
  <2> QED BY <2>1, <2>2 DEF TokenInv, TypeOK
<1>4. ASSUME NEW i \in Replica, DeadlineExceeded(i)
      PROVE  FALSE
  <2>1. dep' = [dep EXCEPT ![i] = [dep[i] EXCEPT !.prog = "failed"]]
    BY <1>4 DEF DeadlineExceeded
  <2>2. [dep[i] EXCEPT !.prog = "failed"].gen = dep[i].gen
    BY DEF TokenInv, TypeOK, Deployment
  <2> QED BY <2>1, <2>2 DEF TokenInv, TypeOK
<1>5. CASE UNCHANGED dep
  BY <1>5
<1> QED
  BY <1>1, <1>2, <1>3, <1>4, <1>5
  DEF Next, User, Reconcile, Kubernetes, PublishTemplate, EditReplicas,
         RequestRotation, CronTrigger, Requeue, StartReconcile, maybeRotateToken,
         WriteTokenSecret, patchCGSTokenHash, ApplyNothing, reconcileCGS,
         checkAllDeploymentsReadiness, patchGatewayStatus, NonFatalError,
         Abort, SyncCache, cluster

\* For any number of replicas, a new configuration reaches replica j only after
\* every earlier desired replica carries it, whatever the cache shows.
THEOREM Spread == Spec => SpreadsInOrder
<1>1. TokenInv /\ [Next]_vars =>
        [\A j \in Replica : Exists(dep'[j]) /\ dep'[j].gen # dep[j].gen =>
            \A i \in rec.want : i < j =>
                Exists(dep[i]) /\ dep[i].hash = rec.hash /\ dep[i].tmpl = rec.tmpl]_vars
  BY SpreadStep
<1> QED BY <1>1, TokenInvariant, PTL DEF Spec, SpreadsInOrder

-----------------------------------------------------------------------------
(* The rollout implements TokenHandover.                                   *)

\* The tokens in use and the replicas that count, as TokenHandover sees them.
InUse == [i \in Replica |-> {p.tok : p \in pods[i]}]
Scope == IF rec.pc = "idle" THEN want ELSE rec.want

\* A step of one Deployment's pods lets connectors load the stored token.
LEMMA ConnectStep ==
    ASSUME TokenInv, NEW i \in Replica,
           StartRollout(i) \/ PodBecomesReady(i) \/ RetireOldPod(i) \/ RestartPod(i)
    PROVE  Handover!Connect
<1>1. PICK ps \in SUBSET Pod :
        /\ pods' = [pods EXCEPT ![i] = ps]
        /\ \A p \in ps : p.tok = secret \/ \E q \in pods[i] : q.tok = p.tok
  BY PodStep DEF TokenInv
<1>2. UNCHANGED <<inputs, token, secret, cgs, rec>>
  BY PodStep DEF TokenInv
<1>3. \A j \in Replica : pods'[j] = IF j = i THEN ps ELSE pods[j]
  BY <1>1 DEF TokenInv, TypeOK
<1>4. \A j \in Replica : InUse'[j] \subseteq InUse[j] \cup {secret}
  BY <1>1, <1>3 DEF InUse
<1>5. InUse' \in [Replica -> SUBSET ((UNION {InUse[j] : j \in Replica}) \cup {secret})]
  BY <1>4 DEF InUse
<1>6. UNCHANGED <<token, secret, req, cgs>> /\ Scope' = Scope
  BY <1>2 DEF inputs, Scope
<1> QED BY <1>4, <1>5, <1>6 DEF Handover!Connect, InUse, Scope

\* The pods of stale Deployments stop.
LEMMA CleanupConnects ==
    ASSUME TokenInv, NEW failed \in SUBSET Replica, cleanupStaleTunnelResources(failed)
    PROVE  Handover!Connect
<1>1. \A j \in Replica : pods'[j] \subseteq pods[j]
  BY DEF cleanupStaleTunnelResources
<1>2. \A j \in Replica : InUse'[j] \subseteq InUse[j]
  BY <1>1 DEF InUse
<1>3. InUse' \in [Replica -> SUBSET ((UNION {InUse[j] : j \in Replica}) \cup {secret})]
  BY <1>2 DEF InUse
<1>4. Scope' = Scope
  BY DEF cleanupStaleTunnelResources, Scope, TokenInv, TypeOK, inputs
<1> QED BY <1>2, <1>3, <1>4
        DEF Handover!Connect, InUse, Scope, cleanupStaleTunnelResources, inputs

\* Recording the result of a reconcile acknowledges the request it read, or
\* nothing.
LEMMA RecordAcknowledges ==
    ASSUME TokenInv, reconcileCGS
    PROVE  (\E r \in 1..req : Handover!Acknowledge(r)) \/ UNCHANGED Handover!handover
<1>1. UNCHANGED <<token, secret, req, want, pods>> /\ Scope' = Scope /\ InUse' = InUse
  BY DEF reconcileCGS, cluster, Scope, InUse, TokenInv, TypeOK
<1>2. CASE cgs'.handled = cgs.handled
  BY <1>1, <1>2 DEF Handover!handover, InUse, Scope
<1>3. CASE cgs'.handled # cgs.handled
  <2>1. rec.pc = "cgs" /\ cgs'.handled = rec.req
    BY <1>3 DEF reconcileCGS
  <2>2. \A i \in rec.want : \A p \in pods[i] : p.tok > rec.req
    BY <1>3, <2>1, HandledStep DEF Next, Reconcile
  <2>3. /\ cgs.handled \in Nat /\ rec.req \in Nat /\ req \in Nat
        /\ cgs.handled < rec.req /\ rec.req <= req /\ rec.req < token
    BY <1>3, <2>1 DEF TokenInv, TypeOK, TokenOrder, RequestServed
  <2>4. Scope = rec.want /\ rec.want \subseteq Replica
    BY <2>1 DEF Scope, TokenInv, TypeOK
  <2>5. \A i \in Scope : \A t \in InUse[i] : rec.req < t
    BY <2>2, <2>3, <2>4 DEF InUse, TokenInv, TypeOK, Pod
  <2>6. Handover!Acknowledge(rec.req)
    BY <1>1, <2>1, <2>3, <2>5 DEF Handover!Acknowledge, InUse, Scope
  <2> QED BY <2>3, <2>6
<1> QED BY <1>2, <1>3

\* What every other step is to the handover: a new token, its storage, a
\* request, another list of replicas, or nothing.
LEMMA OtherHandover ==
    ASSUME TokenInv,
           \/ User \/ StartReconcile \/ maybeRotateToken \/ WriteTokenSecret
           \/ patchCGSTokenHash \/ ApplyNothing \/ checkAllDeploymentsReadiness
           \/ patchGatewayStatus \/ NonFatalError \/ Abort
           \/ \E i \in Replica : applyTunnelDeployment(i) \/ DeadlineExceeded(i) \/ SyncCache(i)
    PROVE  [Handover!HandoverNext]_(Handover!handover)
<1> DEFINE Goal == [Handover!HandoverNext]_(Handover!handover)
<1>0. /\ want \subseteq Replica /\ rec.want \subseteq Replica
      /\ rec \in [pc : Steps, want : SUBSET Replica, tmpl : Nat, req : Nat,
                  hash : Nat, rotated : BOOLEAN, todo : SUBSET Replica,
                  errs : BOOLEAN, ready : {"True", "False", "Unknown"}]
      /\ cgs \in [hash : Nat, handled : Nat, rotated : Nat, inventory : SUBSET Replica]
  BY DEF TokenInv, TypeOK
<1>1. ASSUME UNCHANGED <<token, secret, req, pods>>, cgs'.handled = cgs.handled, Scope' = Scope
      PROVE  Goal
  BY <1>1 DEF Handover!handover, Scope
<1>2. ASSUME UNCHANGED <<token, secret, req, pods>>, cgs'.handled = cgs.handled,
             Scope' \in SUBSET Replica
      PROVE  Goal
  BY <1>2 DEF Handover!HandoverNext, Handover!Rescope, Scope
<1>3. CASE User
  <2>1. CASE PublishTemplate \/ CronTrigger \/ Requeue
    BY <1>1, <2>1 DEF PublishTemplate, CronTrigger, Requeue, cluster, inputs, Scope
  <2>2. ASSUME NEW w \in SUBSET Replica, EditReplicas(w) PROVE Goal
    BY <1>0, <1>2, <2>2 DEF EditReplicas, cluster, Scope
  <2>3. CASE RequestRotation
    BY <2>3 DEF RequestRotation, cluster, Handover!HandoverNext, Handover!Ask
  <2> QED BY <1>3, <2>1, <2>2, <2>3 DEF User
<1>4. CASE StartReconcile
  BY <1>1, <1>4 DEF StartReconcile, cluster, inputs, Scope, Idle
<1>5. CASE maybeRotateToken
  <2>1. UNCHANGED <<secret, req, pods, cgs, want>> /\ (token' = token + 1 \/ token' = token)
    BY <1>5 DEF maybeRotateToken, inputs, cluster
  <2>2. Scope' = Scope
    BY <1>0, <1>5 DEF maybeRotateToken, inputs, Scope
  <2> QED BY <1>1, <2>1, <2>2 DEF Handover!HandoverNext, Handover!Mint, Scope
<1>6. CASE WriteTokenSecret
  <2>1. Scope' = Scope
    BY <1>0, <1>6 DEF WriteTokenSecret, inputs, Scope
  <2> QED BY <1>6, <2>1
          DEF WriteTokenSecret, inputs, cluster, Handover!HandoverNext, Handover!Store, Scope
<1>7. CASE patchCGSTokenHash \/ ApplyNothing \/ checkAllDeploymentsReadiness \/ NonFatalError
  <2>1. UNCHANGED <<token, secret, req, pods>> /\ cgs'.handled = cgs.handled
    BY <1>0, <1>7 DEF patchCGSTokenHash, ApplyNothing, checkAllDeploymentsReadiness,
                      NonFatalError, inputs, cluster
  <2>2. Scope' = Scope
    BY <1>0, <1>7 DEF patchCGSTokenHash, ApplyNothing, checkAllDeploymentsReadiness,
                      NonFatalError, inputs, Scope
  <2> QED BY <1>1, <2>1, <2>2
<1>8. CASE patchGatewayStatus \/ Abort
  <2>1. UNCHANGED <<token, secret, req, pods, cgs, want>> /\ rec' = Idle
    BY <1>8 DEF patchGatewayStatus, Abort, inputs, cluster
  <2> QED BY <1>0, <1>2, <2>1 DEF Scope, Idle
<1>9. ASSUME NEW i \in Replica,
             applyTunnelDeployment(i) \/ DeadlineExceeded(i) \/ SyncCache(i)
      PROVE  Goal
  <2>1. UNCHANGED <<token, secret, req, pods, cgs>>
    BY <1>9 DEF applyTunnelDeployment, DeadlineExceeded, SyncCache, inputs
  <2>2. Scope' = Scope
    BY <1>0, <1>9 DEF applyTunnelDeployment, DeadlineExceeded, SyncCache, inputs, Scope
  <2> QED BY <1>1, <2>1, <2>2
<1> QED BY <1>3, <1>4, <1>5, <1>6, <1>7, <1>8, <1>9

\* The rollout, with its reconciles, stale reads, restarts and faults, implements
\* the abstract handover for any number of replicas: every acknowledgement
\* (lastHandledRotateAt) comes after the last connector in scope gave up the
\* tokens the request revokes.
THEOREM Refinement == Spec => ImplementsHandover
<1>1. Init => Handover!HandoverInit
  <2> SUFFICES ASSUME Init PROVE Handover!HandoverInit
    OBVIOUS
  <2>1. [i \in Replica |-> {p.tok : p \in pods[i]}] = [i \in Replica |-> {}]
    BY DEF Init
  <2> QED BY <2>1 DEF Init, Handover!HandoverInit, Idle
<1>2. TokenInv /\ [Next]_vars => [Handover!HandoverNext]_(Handover!handover)
  <2> SUFFICES ASSUME TokenInv, [Next]_vars
               PROVE  [Handover!HandoverNext]_(Handover!handover)
    OBVIOUS
  <2>1. CASE reconcileCGS
    BY <2>1, RecordAcknowledges DEF Handover!HandoverNext
  <2>2. CASE \E failed \in SUBSET Replica : cleanupStaleTunnelResources(failed)
    BY <2>2, CleanupConnects DEF Handover!HandoverNext
  <2>3. ASSUME NEW i \in Replica,
               StartRollout(i) \/ PodBecomesReady(i) \/ RetireOldPod(i) \/ RestartPod(i)
        PROVE  [Handover!HandoverNext]_(Handover!handover)
    BY <2>3, ConnectStep DEF Handover!HandoverNext
  <2>4. CASE UNCHANGED vars
    BY <2>4 DEF vars, Handover!handover
  <2> QED BY <2>1, <2>2, <2>3, <2>4, OtherHandover DEF Next, Reconcile, Kubernetes
<1> QED BY <1>1, <1>2, TokenInvariant, PTL
        DEF Spec, ImplementsHandover, Handover!HandoverSpec

-----------------------------------------------------------------------------
(* With an up-to-date cache and no missed deadline, the rollout of one      *)
(* Deployment completes before the next existing one is touched.            *)

\* A status that looks rolled out describes a single pod, ready and of the
\* current template; a completed rollout stays completed.
LEMMA ObservedAvailable ==
    ASSUME NEW d \in Deployment, NEW ps \in SUBSET Pod, IsFiniteSet(ps),
           d.prog # "failed",
           \A p, q \in ps : p.hash = q.hash /\ p.tmpl = q.tmpl => p = q
    PROVE  /\ Observed(d, ps).prog # "failed"
           /\ isDeploymentRolledOut(Observed(d, ps)) => Observed(d, ps).prog = "available"
           /\ d.obs = d.gen /\ d.prog = "available" => Observed(d, ps).prog = "available"
<1> DEFINE O == Observed(d, ps)
           current == {p \in ps : IsCurrent(p, d)}
           rdy == {p \in ps : p.ready}
           done == Cardinality(ps) = 1 /\ \E p \in current : p.ready
<1>1. O.prog = IF done THEN "available"
               ELSE IF d.obs # d.gen THEN "progressing" ELSE d.prog
  BY DEF Observed
<1>2. ASSUME isDeploymentRolledOut(O) PROVE done
  <2>1. O.updated = Cardinality(current) /\ O.ready = Cardinality(rdy)
    BY DEF Observed
  <2>2. \A p \in ps : IsCurrent(p, d)
    BY <1>2, ObservedType
  <2>3. current = ps
    BY <2>2
  <2>4. Cardinality(ps) \in Nat /\ Cardinality(rdy) \in Nat /\ IsFiniteSet(rdy)
    BY FS_CardinalityType, FS_Subset, rdy \subseteq ps
  <2>5. 1 <= Cardinality(ps) /\ Cardinality(ps) <= Cardinality(rdy)
    BY <1>2, <2>1, <2>3, <2>4 DEF isDeploymentRolledOut, desiredReplicas
  <2>6. rdy = ps
    BY <2>4, <2>5, FS_Subset, rdy \subseteq ps
  <2>7. ps # {}
    BY <2>5, FS_EmptySet
  <2>8. PICK p \in ps : TRUE
    BY <2>7
  <2>9. \A q \in ps : q = p
    BY <2>2, <2>8 DEF IsCurrent
  <2>10. ps = {p}
    BY <2>8, <2>9
  <2>11. Cardinality(ps) = 1
    BY <2>10, FS_Singleton
  <2>12. p.ready
    BY <2>6, <2>8
  <2> QED BY <2>3, <2>8, <2>11, <2>12
<1> QED BY <1>1, <1>2

\* However pods start, become ready, stop or restart, a Deployment has one of
\* each template.
LEMMA UniqueStep ==
    ASSUME TokenInv, UniquePods, NEW i \in Replica,
           StartRollout(i) \/ PodBecomesReady(i) \/ RetireOldPod(i) \/ RestartPod(i)
    PROVE  UniquePods'
<1> DEFINE Unique(S) == \A p, q \in S : p.hash = q.hash /\ p.tmpl = q.tmpl => p = q
<1>1. pods \in [Replica -> SUBSET Pod] /\ \A j \in Replica : Unique(pods[j])
  BY DEF TokenInv, TypeOK, UniquePods
<1>2. ASSUME NEW S, pods' = [pods EXCEPT ![i] = S], Unique(S)
      PROVE  UniquePods'
  BY <1>1, <1>2 DEF UniquePods
<1>3. ASSUME NEW p \in pods[i], NEW q, q.hash = p.hash, q.tmpl = p.tmpl
      PROVE  Unique((pods[i] \ {p}) \cup {q})
  BY <1>1, <1>3
<1>4. CASE StartRollout(i)
  <2> DEFINE kept == {p \in pods[i] : p.ready \/ IsCurrent(p, dep[i])}
             new  == [hash |-> dep[i].hash, tmpl |-> dep[i].tmpl,
                      tok |-> secret, ready |-> FALSE]
             next == IF \E p \in kept : IsCurrent(p, dep[i]) THEN kept
                     ELSE kept \cup {new}
  <2>1. Unique(kept)
    BY <1>1
  <2>2. CASE \E p \in kept : IsCurrent(p, dep[i])
    BY <1>2, <1>4, <2>1, <2>2 DEF StartRollout
  <2>3. CASE ~\E p \in kept : IsCurrent(p, dep[i])
    <3>1. new.hash = dep[i].hash /\ new.tmpl = dep[i].tmpl
      OBVIOUS
    <3> HIDE DEF new
    <3>2. \A p \in kept : ~(p.hash = new.hash /\ p.tmpl = new.tmpl)
      BY <2>3, <3>1 DEF IsCurrent
    <3>3. Unique(kept \cup {new})
      BY <2>1, <3>2
    <3> QED BY <1>2, <1>4, <2>3, <3>3 DEF StartRollout, new
  <2> QED BY <2>2, <2>3
<1>5. CASE PodBecomesReady(i)
  <2>1. PICK p \in pods[i] : SetPods(i, (pods[i] \ {p}) \cup {[p EXCEPT !.ready = TRUE]})
    BY <1>5 DEF PodBecomesReady
  <2> DEFINE q == [p EXCEPT !.ready = TRUE]
  <2>2. q.hash = p.hash /\ q.tmpl = p.tmpl
    BY <1>1 DEF Pod
  <2>3. pods' = [pods EXCEPT ![i] = (pods[i] \ {p}) \cup {q}]
    BY <2>1 DEF SetPods
  <2> HIDE DEF q
  <2>4. Unique((pods[i] \ {p}) \cup {q})
    BY <1>3, <2>2
  <2> QED BY <1>2, <2>3, <2>4
<1>6. CASE RetireOldPod(i)
  <2>1. PICK p \in pods[i] : SetPods(i, pods[i] \ {p})
    BY <1>6 DEF RetireOldPod
  <2>2. pods' = [pods EXCEPT ![i] = pods[i] \ {p}]
    BY <2>1 DEF SetPods
  <2>3. Unique(pods[i] \ {p})
    BY <1>1
  <2> QED BY <1>2, <2>2, <2>3
<1>7. CASE RestartPod(i)
  <2>1. PICK p \in pods[i] : SetPods(i, (pods[i] \ {p}) \cup
                                {[p EXCEPT !.tok = secret, !.ready = FALSE]})
    BY <1>7 DEF RestartPod
  <2> DEFINE q == [p EXCEPT !.tok = secret, !.ready = FALSE]
  <2>2. q.hash = p.hash /\ q.tmpl = p.tmpl
    BY <1>1 DEF Pod
  <2>3. pods' = [pods EXCEPT ![i] = (pods[i] \ {p}) \cup {q}]
    BY <2>1 DEF SetPods
  <2> HIDE DEF q
  <2>4. Unique((pods[i] \ {p}) \cup {q})
    BY <1>3, <2>2
  <2> QED BY <1>2, <2>3, <2>4
<1> QED BY <1>4, <1>5, <1>6, <1>7

\* The pods of a Deployment move without undoing a completed rollout.
LEMMA PodUpdate ==
    ASSUME TokenInv, UpdateInv, NEW i \in Replica,
           StartRollout(i) \/ PodBecomesReady(i) \/ RetireOldPod(i) \/ RestartPod(i)
    PROVE  UpdateInv'
<1>1. PICK ps \in SUBSET Pod :
        /\ IsFiniteSet(ps)
        /\ pods' = [pods EXCEPT ![i] = ps]
        /\ dep' = dep \/ dep' = [dep EXCEPT ![i] = Observed(dep[i], ps)]
  BY PodStep DEF TokenInv
<1>2. UNCHANGED rec
  BY PodStep DEF TokenInv
<1>3. UniquePods'
  BY UniqueStep DEF UpdateInv
<1>4. \A p, q \in ps : p.hash = q.hash /\ p.tmpl = q.tmpl => p = q
  BY <1>1, <1>3 DEF UniquePods, TokenInv, TypeOK
<1>5. dep \in [Replica -> Deployment] /\ dep[i] \in Deployment /\ rec.want \subseteq Replica
  BY DEF TokenInv, TypeOK
<1>6. /\ Observed(dep[i], ps).gen = dep[i].gen /\ Observed(dep[i], ps).obs = dep[i].gen
      /\ Observed(dep[i], ps).prog # "failed"
      /\ isDeploymentRolledOut(Observed(dep[i], ps)) => Observed(dep[i], ps).prog = "available"
      /\ dep[i].obs = dep[i].gen /\ dep[i].prog = "available"
           => Observed(dep[i], ps).prog = "available"
  BY <1>1, <1>4, <1>5, ObservedAvailable, ObservedType DEF UpdateInv
<1>7. CASE dep' = dep
  BY <1>2, <1>3, <1>7 DEF UpdateInv, isDeploymentRolledOut
<1>8. CASE dep' = [dep EXCEPT ![i] = Observed(dep[i], ps)]
  <2>1. \A j \in Replica : dep'[j] = IF j = i THEN Observed(dep[i], ps) ELSE dep[j]
    BY <1>5, <1>8
  <2> QED BY <1>2, <1>3, <1>5, <1>6, <2>1 DEF UpdateInv, isDeploymentRolledOut
<1> QED BY <1>1, <1>7, <1>8

\* The loop passes a replica only when it has just been created or runs the
\* desired template completely.
LEMMA ApplyUpdate ==
    ASSUME ~CacheLag, TokenInv, UpdateInv, NEW i \in Replica, applyTunnelDeployment(i)
    PROVE  UpdateInv'
<1> DEFINE A == Applied(dep[i])
           d == dep[i]
<1>1. /\ dep \in [Replica -> Deployment] /\ d \in Deployment /\ d.obs <= d.gen
      /\ rec.pc = "apply" /\ rec.todo \subseteq Replica /\ rec.want \subseteq Replica
  BY DEF TokenInv, TypeOK, ObservedInOrder, applyTunnelDeployment
<1>2. Get(i) = d
  BY DEF applyTunnelDeployment, Fresh, Get
<1>3. /\ A \in Deployment /\ A.prog = d.prog
      /\ A = d \/ ~isDeploymentRolledOut(A)
      /\ ~Exists(d) => A.gen = 1
  <2>1. A \in Deployment /\ (A = d \/ ~isDeploymentRolledOut(A))
    BY <1>1, AppliedType DEF TokenInv
  <2> QED BY <1>1, <2>1 DEF Applied, Exists, Deployment
<1>4. /\ \A j \in Replica : dep'[j] = dep[j] \/ (j = i /\ dep'[j] = A)
      /\ pods' = pods
  BY <1>1 DEF applyTunnelDeployment
<1> HIDE DEF A
<1>5. UniquePods' /\ \A j \in Replica :
        /\ dep'[j].prog # "failed"
        /\ isDeploymentRolledOut(dep'[j]) => dep'[j].prog = "available"
  <2>1. A.prog # "failed" /\ (isDeploymentRolledOut(A) => A.prog = "available")
    BY <1>3 DEF UpdateInv
  <2> QED BY <1>4, <2>1 DEF UpdateInv, UniquePods
<1>6. ASSUME rec'.pc = "apply"
      PROVE  /\ rec'.todo = rec.todo \ {i} /\ rec'.want = rec.want
             /\ dep' = [dep EXCEPT ![i] = A]
             /\ ~MustWait(d) /\ (A = d \/ ~Exists(d))
  BY <1>1, <1>2, <1>6 DEF applyTunnelDeployment, A, TokenInv, TypeOK
<1>7. ASSUME rec'.pc = "apply"
      PROVE  dep'[i].gen = 1 \/ (dep'[i].obs = dep'[i].gen /\ dep'[i].prog = "available")
  <2>1. dep'[i] = A
    BY <1>1, <1>6, <1>7
  <2>2. CASE ~Exists(d)
    BY <1>3, <2>1, <2>2
  <2>3. CASE Exists(d)
    <3>1. A = d /\ isDeploymentRolledOut(d)
      BY <1>6, <1>7, <2>3 DEF MustWait, isProgressDeadlineExceeded, UpdateInv
    <3>2. d.prog = "available" /\ d.obs = d.gen
      BY <1>1, <3>1 DEF UpdateInv, isDeploymentRolledOut, Deployment
    <3> QED BY <2>1, <3>1, <3>2
  <2> QED BY <2>2, <2>3
<1>8. ASSUME rec'.pc = "apply", NEW j \in rec'.want \ rec'.todo
      PROVE  dep'[j].gen = 1 \/ (dep'[j].obs = dep'[j].gen /\ dep'[j].prog = "available")
  <2>1. j = i \/ (j \in rec.want \ rec.todo /\ dep'[j] = dep[j])
    BY <1>1, <1>6, <1>8
  <2> QED BY <1>1, <1>7, <1>8, <2>1 DEF UpdateInv
<1> QED BY <1>5, <1>8 DEF UpdateInv

\* Every step preserves the invariant.
LEMMA UpdateStep ==
    ASSUME ~CacheLag, ~Deadlines, TokenInv, UpdateInv, [Next]_vars
    PROVE  UpdateInv'
<1>1. ASSUME NEW i \in Replica, applyTunnelDeployment(i) PROVE UpdateInv'
  BY <1>1, ApplyUpdate
<1>2. ASSUME NEW i \in Replica,
             StartRollout(i) \/ PodBecomesReady(i) \/ RetireOldPod(i) \/ RestartPod(i)
      PROVE  UpdateInv'
  BY <1>2, PodUpdate
<1>3. CASE \E failed \in SUBSET Replica : cleanupStaleTunnelResources(failed)
  <2>1. /\ \A j \in Replica : dep'[j] = dep[j] \/ dep'[j] = Absent
        /\ \A j \in Replica : pods'[j] \subseteq pods[j]
        /\ rec'.pc = "readiness"
    BY <1>3 DEF cleanupStaleTunnelResources, TokenInv, TypeOK
  <2>2. Absent.prog = "progressing" /\ ~isDeploymentRolledOut(Absent)
    BY DEF Absent, isDeploymentRolledOut, desiredReplicas
  <2> QED BY <2>1, <2>2 DEF UpdateInv, UniquePods
<1>4. ASSUME UNCHANGED <<dep, pods>>, rec'.pc # "apply" \/ UNCHANGED rec
      PROVE  UpdateInv'
  BY <1>4 DEF UpdateInv, UniquePods, isDeploymentRolledOut
<1>5. CASE patchCGSTokenHash
  <2>1. rec'.want = rec.want /\ rec'.todo = rec.todo /\ rec.todo = rec.want
    BY <1>5 DEF patchCGSTokenHash, TokenInv, TypeOK, DoneReplicas
  <2> QED BY <1>5, <2>1
          DEF patchCGSTokenHash, cluster, UpdateInv, UniquePods, isDeploymentRolledOut
<1>6. CASE User \/ UNCHANGED vars
  BY <1>4, <1>6 DEF User, PublishTemplate, EditReplicas, RequestRotation, CronTrigger,
                    Requeue, cluster, vars
<1>7. CASE StartReconcile \/ maybeRotateToken \/ WriteTokenSecret \/ ApplyNothing
           \/ checkAllDeploymentsReadiness \/ reconcileCGS \/ patchGatewayStatus
           \/ NonFatalError \/ Abort
  <2>1. UNCHANGED <<dep, pods>>
    BY <1>7 DEF StartReconcile, maybeRotateToken, WriteTokenSecret, ApplyNothing,
                checkAllDeploymentsReadiness, reconcileCGS, patchGatewayStatus,
                NonFatalError, Abort, cluster
  <2>2. rec'.pc # "apply"
    <3>1. CASE StartReconcile
      BY <3>1 DEF StartReconcile, Idle
    <3>2. CASE patchGatewayStatus \/ Abort
      <4>1. rec' = Idle
        BY <3>2 DEF patchGatewayStatus, Abort
      <4> QED BY <4>1 DEF Idle
    <3>3. CASE maybeRotateToken \/ WriteTokenSecret \/ ApplyNothing
      BY <3>3 DEF maybeRotateToken, WriteTokenSecret, ApplyNothing, TokenInv, TypeOK
    <3>4. CASE reconcileCGS \/ NonFatalError
      BY <3>4 DEF reconcileCGS, NonFatalError, TokenInv, TypeOK
    <3>5. CASE checkAllDeploymentsReadiness
      BY <3>5 DEF checkAllDeploymentsReadiness, TokenInv, TypeOK
    <3> QED BY <1>7, <3>1, <3>2, <3>3, <3>4, <3>5
  <2> QED BY <1>4, <2>1, <2>2
<1>8. ASSUME NEW i \in Replica, DeadlineExceeded(i) \/ SyncCache(i) PROVE UpdateInv'
  BY <1>4, <1>8 DEF DeadlineExceeded, SyncCache
<1> QED BY <1>1, <1>2, <1>3, <1>5, <1>6, <1>7, <1>8 DEF Next, Reconcile, Kubernetes

\* Only its own iteration of the loop raises the generation of a Deployment.
LEMMA TouchStep ==
    ASSUME ~CacheLag, TokenInv, UpdateInv, Next,
           NEW j \in Replica, Exists(dep[j]), dep'[j].gen > dep[j].gen
    PROVE  \A i \in rec.want : i < j => ~Updating(dep[i])
<1>0. dep \in [Replica -> Deployment] /\ dep[j].gen \in Nat
  BY DEF TokenInv, TypeOK, Deployment
<1>1. CASE \E i \in Replica : applyTunnelDeployment(i)
  <2>1. PICK k \in Replica : applyTunnelDeployment(k)
    BY <1>1
  <2>2. /\ rec.pc = "apply" /\ \A m \in rec.todo : k <= m
        /\ \A m \in Replica \ {k} : dep'[m] = dep[m]
    BY <2>1 DEF applyTunnelDeployment, NextReplica, TokenInv, TypeOK
  <2>3. k = j
    BY <1>0, <2>2
  <2>4. \A i \in rec.want : i < j => i \in rec.want \ rec.todo /\ i \in Replica
    BY <2>2, <2>3 DEF TokenInv, TypeOK, Replica
  <2> QED BY <1>0, <2>2, <2>4 DEF UpdateInv, Updating, Deployment
<1>2. CASE \E failed \in SUBSET Replica : cleanupStaleTunnelResources(failed)
  <2>1. dep'[j] = Absent \/ dep'[j] = dep[j]
    BY <1>2 DEF cleanupStaleTunnelResources
  <2> QED BY <1>0, <2>1 DEF Absent
<1>3. ASSUME NEW i \in Replica,
             StartRollout(i) \/ PodBecomesReady(i) \/ RetireOldPod(i) \/ RestartPod(i)
      PROVE  FALSE
  <2>1. PICK ps \in SUBSET Pod :
          /\ IsFiniteSet(ps)
          /\ \/ dep' = dep
             \/ dep' = [dep EXCEPT ![i] = Observed(dep[i], ps)]
    BY <1>3, PodStep DEF TokenInv
  <2>2. Observed(dep[i], ps).gen = dep[i].gen
    BY <2>1, ObservedType DEF TokenInv, TypeOK
  <2> QED BY <1>0, <2>1, <2>2
<1>4. ASSUME NEW i \in Replica, DeadlineExceeded(i)
      PROVE  FALSE
  <2>1. dep' = [dep EXCEPT ![i] = [dep[i] EXCEPT !.prog = "failed"]]
    BY <1>4 DEF DeadlineExceeded
  <2>2. [dep[i] EXCEPT !.prog = "failed"].gen = dep[i].gen
    BY <1>0 DEF Deployment
  <2> QED BY <1>0, <2>1, <2>2
<1>5. ~UNCHANGED dep
  BY <1>0
<1> QED
  BY <1>1, <1>2, <1>3, <1>4, <1>5
  DEF Next, User, Reconcile, Kubernetes, PublishTemplate, EditReplicas,
         RequestRotation, CronTrigger, Requeue, StartReconcile, maybeRotateToken,
         WriteTokenSecret, patchCGSTokenHash, ApplyNothing, reconcileCGS,
         checkAllDeploymentsReadiness, patchGatewayStatus, NonFatalError,
         Abort, SyncCache, cluster

\* Where the cache is up to date and no deadline is missed, "the rollout
\* completes before the next Deployment is touched", for any number of replicas
\* and however the replica list, the template and the token change meanwhile.
\* Both premises are needed: a stale cache shows a Deployment as it was before
\* its update, and the condition of a missed deadline outlives the update that
\* follows it.
THEOREM CompletesBeforeNext ==
    ASSUME ~CacheLag, ~Deadlines
    PROVE  Spec => RolloutCompletesBeforeNext
<1>1. Init => UpdateInv
  BY DEF Init, UpdateInv, UniquePods, Idle, Absent, isDeploymentRolledOut, desiredReplicas
<1>2. TokenInv /\ UpdateInv /\ [Next]_vars => UpdateInv'
  BY UpdateStep
<1>3. TokenInv /\ UpdateInv /\ [Next]_vars =>
        [\A j \in Replica : Exists(dep[j]) /\ dep'[j].gen > dep[j].gen =>
            \A i \in rec.want : i < j => ~Updating(dep[i])]_vars
  BY TouchStep
<1> QED BY <1>1, <1>2, <1>3, TokenInvariant, PTL DEF Spec, RolloutCompletesBeforeNext
=============================================================================
