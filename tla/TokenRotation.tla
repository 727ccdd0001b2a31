---------------------------- MODULE TokenRotation ----------------------------
(***************************************************************************)
(* When a Gateway's tunnel token is rotated: the clocks, timestamps and    *)
(* requeue timers around maybeRotateToken, reconcileCGS and                *)
(* computeRequeueAfter.  TunnelRollout models what happens to the token    *)
(* afterwards; here the rollout is one step.                               *)
(*                                                                         *)
(* Time is a number of ticks, PerSecond of which make a second.  A request *)
(* is stamped with the full clock (RFC3339Nano), a rotation with whole     *)
(* seconds (RFC3339).  0 stands for "not set".                             *)
(***************************************************************************)
EXTENDS Integers, Sequences, FiniteSets

CONSTANTS
    PerSecond,      \* ticks per second
    Triggers,       \* the times at which the cron schedule fires
    Interval,       \* the reconcile interval
    InitEnabled,    \* scheduled rotation is enabled from the start
    CacheLag,       \* TRUE: the CGS is read from a possibly stale cache
    Slow,           \* the steps of a reconcile during which time may pass
    MaxTime,        \* bound: the last tick
    MaxRequests,    \* bound: on-demand rotation requests
    MaxEdits,       \* bound: edits of rotation.enabled
    MaxRotations,   \* bound: rotations
    MaxFaults       \* bound: failed API calls, crashes and deletions of the CGS

ASSUME ClockAssumption ==
    /\ PerSecond \in Nat \ {0} /\ Interval \in Nat \ {0}
    /\ MaxTime \in Nat /\ PerSecond <= MaxTime
    /\ Triggers \subseteq {PerSecond * n : n \in 1..MaxTime}

Steps == {"idle", "decide", "rotate", "stamp", "announce", "apply", "cgs", "requeue"}

ASSUME SwitchAssumption ==
    /\ InitEnabled \in BOOLEAN /\ CacheLag \in BOOLEAN
    /\ Slow \subseteq Steps /\ "idle" \in Slow
ASSUME LimitAssumption ==
    /\ MaxRequests \in Nat /\ MaxEdits \in Nat /\ MaxRotations \in Nat
    /\ MaxFaults \in Nat

VARIABLES
    now,         \* the clock
    enabled,     \* spec.tunnel.token.rotation.enabled
    requestedAt, \* the rotateTokenRequestedAt annotation
    token,       \* number of the newest token
    applied,     \* token in the templates of the Deployments
    rolledOut,   \* token that every pod runs
    cgs,         \* the CloudflareGatewayStatus in the API server
    seen,        \* the CloudflareGatewayStatus in the cache
    due,         \* when the queued reconcile request is ready, 0 if none
    rec,         \* the reconcile in progress
    hist,        \* history: why and when each rotation was done, and whether
                 \* the decision rested on an outdated copy of the CGS
    used         \* how much of each bound was used

vars == <<now, enabled, requestedAt, token, applied, rolledOut, cgs, seen, due,
          rec, hist, used>>

rollout == <<token, applied, rolledOut>>
inputs  == <<enabled, requestedAt>>

\* fin is the finalizer of the controller; a CGS being deleted lives as long.
NoCGS == [exists |-> FALSE, dying |-> FALSE, fin |-> FALSE,
          hash |-> 0, handled |-> 0, rotatedAt |-> 0]
NoCause == [kind |-> "none", at |-> 0]
Idle == [pc |-> "idle", req |-> 0, enabled |-> FALSE, cgs |-> NoCGS,
         cause |-> NoCause, lastRotatedAt |-> 0, nextTrigger |-> 0]

-----------------------------------------------------------------------------
(* Clock and queue.                                                        *)

\* time.Now().Format(time.RFC3339): the fraction of the second is lost.
RFC3339(t) == (t \div PerSecond) * PerSecond

\* The last trigger at or before t, and the first one after it.
PrevTrigger(t) ==
    LET past == {x \in Triggers : x <= t} IN
    IF past = {} THEN 0 ELSE CHOOSE x \in past : \A y \in past : y <= x

NextTrigger(t) ==
    LET future == {x \in Triggers : x > t} IN
    IF future = {} THEN 0 ELSE CHOOSE x \in future : \A y \in future : x <= y

\* The queue holds one entry per Gateway: adding keeps the earlier time.
AddAfter(d) == IF due = 0 \/ now + d < due THEN now + d ELSE due

Init ==
    /\ now = PerSecond /\ enabled = InitEnabled /\ requestedAt = 0
    /\ token = 1 /\ applied = 0 /\ rolledOut = 0
    /\ cgs = NoCGS /\ seen = NoCGS
    /\ due = now /\ rec = Idle /\ hist = <<>>
    /\ used = [requests |-> 0, edits |-> 0, deletes |-> 0, faults |-> 0]

Tick ==
    /\ now < MaxTime /\ rec.pc \in Slow
    /\ now' = now + 1
    /\ UNCHANGED <<inputs, rollout, cgs, seen, due, rec, hist, used>>

-----------------------------------------------------------------------------
(* Users.                                                                  *)

\* `cfgwctl rotate gateway token`, which needs a CGS that lists Deployments.  The
\* clock of a request is later than every timestamp taken so far.
RequestRotation ==
    /\ used.requests < MaxRequests
    /\ now < MaxTime /\ rec.pc \in Slow
    /\ cgs.hash # 0
    /\ now' = now + 1
    /\ requestedAt' = now'
    /\ due' = IF due = 0 \/ now' < due THEN now' ELSE due
    /\ used' = [used EXCEPT !.requests = @ + 1]
    /\ UNCHANGED <<enabled, rollout, cgs, seen, rec, hist>>

\* An edit of spec.tunnel.token.rotation.enabled.
EnableRotation ==
    /\ used.edits < MaxEdits
    /\ enabled' = ~enabled
    /\ due' = AddAfter(0)
    /\ used' = [used EXCEPT !.edits = @ + 1]
    /\ UNCHANGED <<now, requestedAt, rollout, cgs, seen, rec, hist>>

Undisturbed == used.faults + used.deletes < MaxFaults

\* `kubectl delete cloudflaregatewaystatus`.  The CGS is not watched.
DeleteCGS ==
    /\ Undisturbed
    /\ cgs.exists /\ ~cgs.dying
    /\ cgs' = IF cgs.fin THEN [cgs EXCEPT !.dying = TRUE] ELSE NoCGS
    /\ used' = [used EXCEPT !.deletes = @ + 1]
    /\ UNCHANGED <<now, inputs, rollout, seen, due, rec, hist>>

-----------------------------------------------------------------------------
(* One reconcile.                                                          *)

\* The Gateway, its parameters and its CGS are read.
StartReconcile ==
    /\ rec.pc = "idle" /\ due # 0 /\ due <= now
    /\ rec' = [Idle EXCEPT !.pc = "decide", !.req = requestedAt,
                           !.enabled = enabled,
                           !.cgs = IF CacheLag THEN seen ELSE cgs]
    /\ due' = 0
    /\ UNCHANGED <<now, inputs, rollout, cgs, seen, hist, used>>

\* Mutant: a request counts as served only when it was recorded as handled.
OnDemand_HandledOnly == rec.req # 0 /\ rec.req # rec.cgs.handled

\* The annotation differs from the last handled value, and the last rotation
\* is older than the request.
OnDemand ==
    /\ rec.req # 0 /\ rec.req # rec.cgs.handled
    /\ rec.cgs.rotatedAt = 0 \/ rec.cgs.rotatedAt < rec.req

\* The last rotation is older than the most recent trigger.
Scheduled ==
    rec.enabled /\ rec.cgs.rotatedAt # 0 /\ rec.cgs.rotatedAt < PrevTrigger(now)

\* maybeRotateToken up to the decision.  Without a lastRotatedAt a baseline is
\* seeded, so that the schedule counts from now.
maybeRotateToken ==
    /\ rec.pc = "decide"
    /\ rec' = [rec EXCEPT
         !.pc    = IF OnDemand \/ Scheduled THEN "rotate" ELSE "announce",
         !.cause = IF OnDemand THEN [kind |-> "request", at |-> rec.req]
                   ELSE IF Scheduled THEN [kind |-> "cron", at |-> PrevTrigger(now)]
                   ELSE NoCause,
         !.nextTrigger = IF rec.enabled THEN NextTrigger(now) ELSE 0,
         !.lastRotatedAt = IF rec.enabled /\ rec.cgs.rotatedAt = 0
                           THEN RFC3339(now) ELSE 0]
    /\ UNCHANGED <<now, inputs, rollout, cgs, seen, due, hist, used>>

\* Cloudflare replaces the tunnel secret.
RotateTunnelSecret ==
    /\ rec.pc = "rotate" /\ Len(hist) < MaxRotations
    /\ token' = token + 1
    /\ hist' = Append(hist, [cause |-> rec.cause, at |-> now,
                             stale |-> rec.cgs # cgs])
    /\ rec' = [rec EXCEPT !.pc = "stamp"]
    /\ UNCHANGED <<now, inputs, applied, rolledOut, cgs, seen, due, used>>

\* The answer arrives and the rotation is stamped.
StampRotation ==
    /\ rec.pc = "stamp"
    /\ rec' = [rec EXCEPT !.pc = "announce", !.lastRotatedAt = RFC3339(now)]
    /\ UNCHANGED <<now, inputs, rollout, cgs, seen, due, hist, used>>

\* The reconcile ends with an error: what was done stays done, the Gateway is
\* queued again.
Failed == rec' = Idle /\ due' = AddAfter(0)

\* The patch returns the live CGS, which replaces the one read at the start; it
\* fails for a CGS that is gone.
patchCGSTokenHash ==
    /\ rec.pc = "announce"
    /\ LET patch == /\ rec.lastRotatedAt # 0
                    /\ rec.cgs.exists /\ ~rec.cgs.dying
                    /\ rec.cgs.hash # token
       IN IF patch /\ ~cgs.exists THEN Failed /\ cgs' = cgs
          ELSE /\ cgs' = IF patch THEN [cgs EXCEPT !.hash = token] ELSE cgs
               /\ rec' = [rec EXCEPT !.pc = "apply", !.cgs = IF patch THEN cgs' ELSE @]
               /\ due' = due
    /\ UNCHANGED <<now, inputs, rollout, seen, hist, used>>

\* The Deployments get the hash of the token (TunnelRollout has the details);
\* the changes of Secret and Deployments enqueue the Gateway.
ApplyDeployments ==
    /\ rec.pc = "apply"
    /\ applied' = token
    /\ due' = IF applied # token THEN AddAfter(0) ELSE due
    /\ rec' = [rec EXCEPT !.pc = "cgs"]
    /\ UNCHANGED <<now, inputs, token, rolledOut, cgs, seen, hist, used>>

\* Mutant: the annotation is read again when the status is written.
DesiredCGS_LiveAnnotation ==
    [NoCGS EXCEPT !.exists = TRUE, !.fin = TRUE, !.hash = token,
        !.handled = IF rolledOut = token THEN requestedAt ELSE rec.cgs.handled,
        !.rotatedAt = IF rec.lastRotatedAt # 0 THEN rec.lastRotatedAt
                      ELSE rec.cgs.rotatedAt]

\* The CGS reconcileCGS wants: the request is handled when all pods run the
\* current token; an unknown rotation time is kept.
DesiredCGS ==
    [NoCGS EXCEPT !.exists = TRUE, !.fin = TRUE, !.hash = token,
        !.handled = IF rolledOut = token THEN rec.req ELSE rec.cgs.handled,
        !.rotatedAt = IF rec.lastRotatedAt # 0 THEN rec.lastRotatedAt
                      ELSE rec.cgs.rotatedAt]

\* Mutant: the status is replaced by one computed from the copy that was read.
MergePatch_Replace(old, new) == [new EXCEPT !.dying = cgs.dying, !.fin = cgs.fin]

\* A merge patch of the status carries only the fields that differ from the
\* copy that was read; the others keep their live value.
MergePatch(old, new) ==
    [f \in DOMAIN cgs |-> IF f \in {"hash", "handled", "rotatedAt"} /\ new[f] # old[f]
                          THEN new[f] ELSE cgs[f]]

\* A CGS that is absent, or being deleted, in the copy that was read is replaced.
Replaces == ~rec.cgs.exists \/ rec.cgs.dying

\* First the finalizer goes, by a patch without a lock: if the copy was old, a
\* CGS that is not being deleted loses it.
Released ==
    IF ~rec.cgs.fin THEN cgs ELSE IF cgs.dying THEN NoCGS ELSE [cgs EXCEPT !.fin = FALSE]

\* Then a new CGS is created, unless there is one (AlreadyExists), and its status
\* is patched.  Patches fail for a CGS that is gone.
reconcileCGS ==
    /\ rec.pc = "cgs"
    /\ IF ~cgs.exists /\ rec.cgs.exists /\ (rec.cgs.fin \/ ~rec.cgs.dying)
       THEN Failed /\ cgs' = cgs
       ELSE /\ cgs' = IF ~Replaces THEN MergePatch(rec.cgs, DesiredCGS)
                      ELSE IF Released.exists THEN Released ELSE DesiredCGS
            /\ rec' = [rec EXCEPT !.pc = "requeue"]
            /\ due' = due
    /\ UNCHANGED <<now, inputs, rollout, seen, hist, used>>

\* Creating the CGS, or the first patch of its status, fails.
ReplacementFails ==
    /\ rec.pc = "cgs" /\ Replaces /\ ~Released.exists
    /\ Undisturbed
    /\ used' = [used EXCEPT !.faults = @ + 1]
    /\ cgs' \in {NoCGS, [NoCGS EXCEPT !.exists = TRUE, !.fin = TRUE]}
    /\ Failed
    /\ UNCHANGED <<now, inputs, rollout, seen, hist>>

\* Mutant: the next trigger is not taken into account.
computeRequeueAfter_IntervalOnly == Interval

\* The earlier of the reconcile interval and the next trigger.
computeRequeueAfter ==
    LET until == IF rec.nextTrigger > now THEN rec.nextTrigger - now ELSE 0 IN
    IF rec.nextTrigger # 0 /\ until < Interval THEN until ELSE Interval

\* The result is handed to controller-runtime, which does not requeue at all
\* when RequeueAfter is zero.
FinishReconcile ==
    /\ rec.pc = "requeue"
    /\ due' = IF computeRequeueAfter > 0 THEN AddAfter(computeRequeueAfter) ELSE due
    /\ rec' = Idle
    /\ UNCHANGED <<now, inputs, rollout, cgs, seen, hist, used>>

\* An error or a crash.
Abort ==
    /\ rec.pc # "idle"
    /\ Undisturbed
    /\ used' = [used EXCEPT !.faults = @ + 1]
    /\ Failed
    /\ UNCHANGED <<now, inputs, rollout, cgs, seen, hist>>

-----------------------------------------------------------------------------
(* The cluster.                                                            *)

\* Every pod has been replaced; the Owns watch enqueues the Gateway.
FinishRollout ==
    /\ rolledOut # applied
    /\ rolledOut' = applied
    /\ due' = AddAfter(0)
    /\ UNCHANGED <<now, inputs, token, applied, cgs, seen, rec, hist, used>>

\* The cache learns of the CGS.  Nothing is enqueued: the CGS is not watched.
SyncCGS ==
    /\ CacheLag /\ seen # cgs
    /\ seen' = cgs
    /\ UNCHANGED <<now, inputs, rollout, cgs, due, rec, hist, used>>

Reconcile ==
    \/ StartReconcile \/ maybeRotateToken \/ RotateTunnelSecret
    \/ StampRotation \/ patchCGSTokenHash \/ ApplyDeployments
    \/ reconcileCGS \/ FinishReconcile

Next == Tick \/ RequestRotation \/ EnableRotation \/ DeleteCGS \/ Reconcile
        \/ ReplacementFails \/ Abort \/ FinishRollout \/ SyncCGS

Spec == Init /\ [][Next]_vars

\* Time passes, the worker works, pods are replaced, the cache catches up.
Fairness ==
    WF_vars(Tick) /\ WF_vars(Reconcile) /\ WF_vars(FinishRollout) /\ WF_vars(SyncCGS)

FairSpec == Spec /\ Fairness

-----------------------------------------------------------------------------
(* Properties.                                                             *)

Time == 0..(MaxTime + Interval)
CGS == [exists : BOOLEAN, dying : BOOLEAN, fin : BOOLEAN, hash : Nat, handled : Time, rotatedAt : Time]
Cause == [kind : {"none", "request", "cron"}, at : Time]
Rotation == [cause : Cause, at : Time, stale : BOOLEAN]
Record == [pc : Steps, req : Time, enabled : BOOLEAN, cgs : CGS, cause : Cause,
           lastRotatedAt : Time, nextTrigger : Triggers \cup {0}]

TypeOK ==
    /\ now \in 0..MaxTime /\ requestedAt \in Time /\ due \in Time
    /\ enabled \in BOOLEAN
    /\ token \in Nat /\ applied \in Nat /\ rolledOut \in Nat
    /\ cgs \in CGS /\ seen \in CGS
    /\ rec \in Record
    /\ hist \in Seq(Rotation)
    /\ used \in [requests : Nat, edits : Nat, deletes : Nat, faults : Nat]

\* The rotations decided on the current CGS whose time, cut to whole seconds, is
\* not older than what they were done for, and what that was.
Fresh == {i \in DOMAIN hist : ~hist[i].stale /\ hist[i].cause.at <= RFC3339(hist[i].at)}
Causes == {hist[i].cause : i \in Fresh}

\* However many reconciles see a request or a trigger before the rollout
\* completes, only one of those that know the current CGS rotates for it, unless
\* a fault came between rotating and recording (maybeRotateToken: "verify the
\* rotation hasn't already been performed").  As lastRotatedAt has whole seconds
\* only, this begins with the second after the request: until then it looks
\* older than the request, and each reconcile rotates again.
RotatedOncePerCause == Cardinality(Fresh) <= Cardinality(Causes) + used.faults

\* An acknowledged request was followed by a rotation: lastHandledRotateAt is
\* written "once the rotation is fully complete" (docs/api/v1/Gateway.md).
HandledMeansRotated ==
    cgs.handled # 0 => \E i \in DOMAIN hist : hist[i].at >= cgs.handled

\* The recorded rotation time never moves back, although reconciles compute it
\* from a stale copy (reconcileCGS), so a trigger is not served twice; only a CGS
\* that is deleted may take it along.
RotatedAtMonotone == [][cgs.dying \/ ~cgs.fin \/ cgs'.rotatedAt >= cgs.rotatedAt]_vars

\* Every trigger that passes after the baseline was set is served, if the
\* schedule stays enabled, with no help from other events (computeRequeueAfter).
TriggersServed ==
    \A x \in Triggers :
        (now = x /\ cgs.rotatedAt # 0 /\ used.edits = MaxEdits /\ enabled)
            ~> (cgs.rotatedAt >= x)

-----------------------------------------------------------------------------
(* The inductive invariants behind the safety properties.                  *)

\* A rotation was done at or after the request r.
Rotated(r) == r # 0 => \E i \in DOMAIN hist : hist[i].at >= r

\* The rotation times that a reconcile, now or later, compares requests with.
Stamps ==
    {cgs.rotatedAt, seen.rotatedAt, rec.cgs.rotatedAt} \cup
        (IF rec.pc \in {"announce", "apply", "cgs"} THEN {rec.lastRotatedAt} ELSE {})

\* A recorded time that is not older than a pending request vouches for a
\* rotation that is not older either.
RequestInv ==
    /\ \A c \in {cgs, seen, rec.cgs} : Rotated(c.handled)
    /\ rec.req <= requestedAt /\ requestedAt <= now
    /\ \A r \in {requestedAt, rec.req}, v \in Stamps : r <= v => Rotated(r)
    /\ rec.pc = "decide" => rec.req = requestedAt
    /\ rec.pc = "stamp" => Rotated(requestedAt)
    /\ rec.pc \in {"stamp", "announce", "apply", "cgs"} => Rotated(rec.req)

\* The reconcile in progress records a time that no earlier one exceeds.
RecordInv ==
    /\ cgs.fin => cgs.exists
    /\ \A v \in Stamps : v <= RFC3339(now)
    /\ rec.pc \in {"announce", "apply", "cgs"} /\ rec.lastRotatedAt # 0 =>
        cgs.rotatedAt <= rec.lastRotatedAt

\* Nobody has deleted the CGS, or no reconcile works with an old copy of it.
Reliable == ~CacheLag \/ used.deletes = 0

\* Then a copy of the CGS is only behind: what is recorded in it is recorded.
CopyInv ==
    /\ \A c \in {cgs, seen, rec.cgs} :
        /\ (c.fin <=> c.exists) /\ (~c.exists => c.rotatedAt = 0)
        /\ (c.exists => cgs.exists) /\ c.rotatedAt <= cgs.rotatedAt
        /\ c.dying => used.deletes # 0
    /\ cgs.hash # 0 => cgs.exists
    /\ ~CacheLag =>
        /\ seen = NoCGS
        /\ rec.pc \notin {"idle", "requeue"} =>
            /\ (rec.cgs.exists <=> cgs.exists) /\ rec.cgs.rotatedAt = cgs.rotatedAt
            /\ rec.cgs.dying => cgs.dying
    /\ used.deletes = 0 /\ (requestedAt # 0 \/ rec.req # 0) => cgs.exists

\* The reconcile in progress has rotated and is going to record it, which serves
\* every request and trigger up to time t.
Serves(t) ==
    /\ ~CacheLag \/ rec.cgs.exists
    /\ \/ rec.pc = "stamp"
       \/ rec.pc \in {"announce", "apply", "cgs"} /\ t <= rec.lastRotatedAt

\* A fault has happened for which no rotation was repeated.
Excused == Cardinality(Fresh) < Cardinality(Causes) + used.faults

\* A rotation that was done is recorded, or about to be, or a fault came between.
Accounted ==
    \/ Excused
    \/ \A i \in Fresh : hist[i].cause.at <= cgs.rotatedAt \/ Serves(hist[i].cause.at)

\* A reconcile rotates for what its copy shows no rotation for.
CauseInv ==
    /\ IsFiniteSet(Fresh) /\ IsFiniteSet(Causes)
    /\ requestedAt <= now /\ rec.req <= now
    /\ \A i \in DOMAIN hist : hist[i].cause.at <= hist[i].at /\ hist[i].at <= now
    /\ rec.pc = "rotate" =>
        /\ rec.cgs.rotatedAt < rec.cause.at /\ rec.cause.at <= now
        /\ rec.req # 0 \/ rec.cgs.rotatedAt # 0
    /\ Reliable => CopyInv
    /\ Reliable => RotatedOncePerCause /\ Accounted
=============================================================================
