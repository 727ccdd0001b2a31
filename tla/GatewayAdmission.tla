-------------------------- MODULE GatewayAdmission --------------------------
(***************************************************************************)
(* Whether a Gateway is accepted: what reconcile reads before it touches   *)
(* the cluster (the Gateway, its CloudflareGatewayParameters, the grant    *)
(* for the credentials of the GatewayClass, the credentials), the tunnel   *)
(* it ensures at Cloudflare through the retrying client, and the           *)
(* conditions it writes on the Gateway and mirrors on the                  *)
(* CloudflareGatewayStatus (CGS).                                          *)
(*                                                                         *)
(* The inputs change between any two steps.  Some changes make a request   *)
(* (the watches of gateway_manager.go), others are found by a retry, by    *)
(* the periodic reconcile, or not at all.  The Gateway and the CGS are     *)
(* read when their informers are up to date; parameters and grants may be  *)
(* stale; Secrets are not cached.  The class is Ready (GatewayClassStatus).*)
(***************************************************************************)
EXTENDS Naturals

CONSTANTS
    MaxRetries,  \* retries of a call to Cloudflare (3 in the code)
    MaxEdits,    \* bound: changes of inputs
    MaxFaults    \* bound: failed calls and crashes

ASSUME BoundAssumption == MaxRetries \in Nat /\ MaxEdits \in Nat /\ MaxFaults \in Nat

VARIABLES
    gw,      \* the Gateway: its spec and its conditions
    valid,   \* the generations of its spec that validateGateway accepts
    inputs,  \* the parameters, the ReferenceGrant, the Secret, the Deployments
    seen,    \* the parameters and the grant as the informers have them
    cgs,     \* the conditions of the CGS
    tunnel,  \* the tunnel of that name at Cloudflare (0: none), and how many there were
    event,   \* the informer has an event of the Gateway for the queue
    queued,  \* a request is in the work queue
    timer,   \* the request of the periodic reconcile is in the work queue
    lost,    \* whose conditions a lost write that was not repeated may have left behind
    rec,     \* the reconcile in progress
    used     \* how much of MaxEdits and MaxFaults was used

vars == <<gw, valid, inputs, seen, cgs, tunnel, event, queued, timer, lost, rec, used>>

\* A condition: its status, what it says, and observedGeneration.
NoCond == [status |-> "none", why |-> "none", gen |-> 0]
Conds(o) == <<o.accepted, o.ready>>

\* wrongKind: a parametersRef to something else.  Parameters are absent, rejected
\* by validateParameters, valid, or valid with a secretRef.
Refs == {"none", "wrongKind", "params"}
Parameters == {"absent", "invalid", "plain", "secretRef"}

Idle == [pc |-> "idle", gw |-> [gen |-> 0, ref |-> "none", accepted |-> NoCond, ready |-> NoCond],
         secretRef |-> FALSE, id |-> 0, attempt |-> 0, faults |-> 0, hard |-> FALSE,
         problem |-> "none", ready |-> NoCond]

Init ==
    /\ gw = [gen |-> 1, ref |-> "params", accepted |-> NoCond, ready |-> NoCond]
    /\ valid = {1}
    /\ inputs = [params |-> "absent", grant |-> TRUE, secret |-> TRUE, up |-> FALSE]
    /\ seen = [params |-> "absent", grant |-> TRUE]
    /\ cgs = [exists |-> FALSE, accepted |-> NoCond, ready |-> NoCond]
    /\ tunnel = [id |-> 0, made |-> 0]
    /\ event = FALSE /\ queued = TRUE /\ timer = FALSE /\ lost = {}
    /\ rec = Idle
    /\ used = [edits |-> 0, faults |-> 0]

At(pc) == rec.pc = pc
Edit == used.edits < MaxEdits /\ used' = [used EXCEPT !.edits = @ + 1]
Fault == used.faults < MaxFaults /\ used' = [used EXCEPT !.faults = @ + 1]

-----------------------------------------------------------------------------
(* Users, other controllers, and the informers.                            *)

EditGateway ==
    /\ Edit
    /\ \E ref \in Refs : gw' = [gw EXCEPT !.ref = ref, !.gen = @ + 1]
    /\ valid' \in {valid, valid \cup {gw'.gen}}
    /\ event' = TRUE
    /\ UNCHANGED <<inputs, seen, cgs, tunnel, queued, timer, lost, rec>>

EditInput ==
    /\ Edit
    /\ \/ \E p \in Parameters \ {inputs.params} : inputs' = [inputs EXCEPT !.params = p]
       \/ inputs' = [inputs EXCEPT !.grant = ~@]
       \/ inputs' = [inputs EXCEPT !.secret = ~@]
    /\ UNCHANGED <<gw, valid, seen, cgs, tunnel, event, queued, timer, lost, rec>>

\* The Deployments become ready, or no longer are: owned objects make a request.
Rollout ==
    /\ Edit
    /\ inputs' = [inputs EXCEPT !.up = ~@]
    /\ queued' = TRUE
    /\ UNCHANGED <<gw, valid, seen, cgs, tunnel, event, timer, lost, rec>>

\* Somebody else deletes the tunnel.
DeleteTunnel ==
    /\ Edit
    /\ tunnel.id # 0
    /\ tunnel' = [tunnel EXCEPT !.id = 0]
    /\ rec' = IF At("idle") THEN rec ELSE [rec EXCEPT !.hard = TRUE]
    /\ UNCHANGED <<gw, valid, inputs, seen, cgs, event, queued, timer, lost>>

SeeGateway ==
    /\ event
    /\ event' = FALSE /\ queued' = TRUE
    /\ UNCHANGED <<gw, valid, inputs, seen, cgs, tunnel, timer, lost, rec, used>>

\* Mutant: the parameters are not watched.
mapParametersToGateway_None == FALSE

\* The index of Gateways by parametersRef.
mapParametersToGateway == gw.ref = "params"

SeeParameters ==
    /\ seen.params # inputs.params
    /\ seen' = [seen EXCEPT !.params = inputs.params]
    /\ queued' = (queued \/ mapParametersToGateway)
    /\ UNCHANGED <<gw, valid, inputs, cgs, tunnel, event, timer, lost, rec, used>>

\* mapReferenceGrantToGateway knows grants for Services only.
SeeGrant ==
    /\ seen.grant # inputs.grant
    /\ seen' = [seen EXCEPT !.grant = inputs.grant]
    /\ UNCHANGED <<gw, valid, inputs, cgs, tunnel, event, queued, timer, lost, rec, used>>

Requeue ==
    /\ timer
    /\ timer' = FALSE /\ queued' = TRUE
    /\ UNCHANGED <<gw, valid, inputs, seen, cgs, tunnel, event, lost, rec, used>>

-----------------------------------------------------------------------------
(* Reading the inputs.                                                     *)

Fail(problem) == [rec EXCEPT !.pc = "error", !.problem = problem, !.attempt = 0]

\* The request leaves the queue, also as the one of the timer.
Reconcile ==
    /\ At("idle") /\ queued /\ ~event
    /\ queued' = FALSE /\ timer' = FALSE
    /\ rec' = IF gw.gen \in valid THEN [Idle EXCEPT !.pc = "params", !.gw = gw]
              ELSE [Idle EXCEPT !.pc = "error", !.problem = "spec", !.gw = gw]
    /\ UNCHANGED <<gw, valid, inputs, seen, cgs, tunnel, event, lost, used>>

\* readParameters and validateParameters.
readParameters ==
    /\ At("params")
    /\ rec' = IF rec.gw.ref = "wrongKind"
                 \/ (rec.gw.ref = "params" /\ seen.params \in {"absent", "invalid"})
              THEN Fail("params")
              ELSE [rec EXCEPT !.pc = "credentials",
                               !.secretRef = rec.gw.ref = "params" /\ seen.params = "secretRef"]
    /\ UNCHANGED <<gw, valid, inputs, seen, cgs, tunnel, event, queued, timer, lost, used>>

\* The Secret of the parameters, or else that of the class, which needs a grant
\* (and which the GatewayClass controller keeps an eye on).
readCredentials ==
    /\ At("credentials")
    /\ rec' = IF rec.secretRef /\ ~inputs.secret THEN Fail("credentials")
              ELSE IF ~rec.secretRef /\ ~seen.grant THEN Fail("grant")
              ELSE [rec EXCEPT !.pc = "lookup"]
    /\ UNCHANGED <<gw, valid, inputs, seen, cgs, tunnel, event, queued, timer, lost, used>>

-----------------------------------------------------------------------------
(* Calls to Cloudflare.                                                    *)

MayRetry == rec.attempt < MaxRetries

\* A transient network error: the call is tried again, or fails the reconcile.
TransientError ==
    /\ Fault
    /\ rec' = IF MayRetry THEN [rec EXCEPT !.attempt = @ + 1, !.faults = @ + 1]
              ELSE [Fail("cloudflare") EXCEPT !.faults = @ + 1]

\* An error answer is not retried here.
APIError ==
    /\ Fault
    /\ rec' = [Fail("cloudflare") EXCEPT !.hard = TRUE]

Answered(pc, id) == rec' = [rec EXCEPT !.pc = pc, !.id = id, !.attempt = 0] /\ used' = used

\* Lookup by name: first, and again after a conflict.
GetTunnelIDByName ==
    /\ At("lookup") \/ At("lookupAgain")
    /\ \/ Answered(IF At("lookup") /\ tunnel.id = 0 THEN "create" ELSE "token", tunnel.id)
       \/ TransientError
       \/ APIError
    /\ UNCHANGED <<gw, valid, inputs, seen, cgs, tunnel, event, queued, timer, lost>>

Created == IF tunnel.id # 0 THEN tunnel
           ELSE [id |-> tunnel.made + 1, made |-> tunnel.made + 1]

\* Mutant: a conflict is an error like any other.
AfterConflict_Fail == Fail("cloudflare")

AfterConflict == [rec EXCEPT !.pc = "lookupAgain", !.attempt = 0]

\* A transient error may hide that the tunnel was created: the next attempt is
\* answered with a conflict.
CreateTunnel ==
    /\ At("create")
    /\ \/ /\ tunnel.id = 0 /\ Answered("token", Created.id)
          /\ tunnel' = Created
       \/ /\ tunnel.id # 0 /\ rec' = AfterConflict
          /\ UNCHANGED <<tunnel, used>>
       \/ TransientError /\ tunnel' \in {tunnel, Created}
       \/ APIError /\ tunnel' = tunnel
    /\ UNCHANGED <<gw, valid, inputs, seen, cgs, event, queued, timer, lost>>

\* The first call that uses the ID; it fails for an ID that is not, or no
\* longer, that of a tunnel.
GetTunnelToken ==
    /\ At("token")
    /\ \/ rec.id # 0 /\ rec.id = tunnel.id /\ Answered("status", rec.id)
       \/ (rec.id = 0 \/ rec.id # tunnel.id) /\ rec' = Fail("cloudflare") /\ used' = used
       \/ TransientError
       \/ APIError
    /\ UNCHANGED <<gw, valid, inputs, seen, cgs, tunnel, event, queued, timer, lost>>

-----------------------------------------------------------------------------
(* The conditions.                                                         *)

\* Mutant: the generation is that of the Gateway now.
ObservedGeneration_Live == gw.gen

ObservedGeneration == rec.gw.gen

Condition(status, why) == [status |-> status, why |-> why, gen |-> ObservedGeneration]
Accepted == Condition("True", "none")
Progressing == Condition("Unknown", "progressing")

\* The end of a reconcile without errors: readiness is computed and the CGS
\* exists from now on, with the conditions it had.
reconcileCGS ==
    /\ At("status")
    /\ rec' = [rec EXCEPT !.pc = "patch",
                          !.ready = IF inputs.up THEN Condition("True", "none") ELSE Progressing]
    /\ cgs' = [cgs EXCEPT !.exists = TRUE]
    /\ UNCHANGED <<gw, valid, inputs, seen, tunnel, event, queued, timer, lost, used>>

\* conditions.Changed, of the Gateway as it was read.
StatusChanged == Conds(rec.gw) # <<Accepted, rec.ready>>

\* Mutant: only progress is written to the CGS.
Mirrors_Progress == rec.ready.status = "Unknown"

\* Nothing is written when nothing changed and nothing is in progress.
Mirrors == StatusChanged \/ rec.ready.status = "Unknown"

\* patchGatewayStatus, first part.  An error is returned and retried.
patchGatewayStatus ==
    /\ At("patch")
    /\ \/ /\ gw' = [gw EXCEPT !.accepted = Accepted, !.ready = rec.ready]
          /\ lost' = lost \ {"gateway"}
          /\ IF Mirrors THEN rec' = [rec EXCEPT !.pc = "mirror"] /\ timer' = timer
             ELSE rec' = Idle /\ timer' = TRUE
          /\ UNCHANGED <<queued, used>>
       \/ Fault /\ rec' = Idle /\ queued' = TRUE /\ UNCHANGED <<gw, timer, lost>>
    /\ UNCHANGED <<valid, inputs, seen, cgs, tunnel, event>>

\* Second part: the CGS; an error is only logged.
mirrorConditions ==
    /\ At("mirror")
    /\ \/ /\ cgs' = [cgs EXCEPT !.accepted = Accepted, !.ready = rec.ready]
          /\ lost' = lost \ {"status"} /\ used' = used
       \/ Fault /\ cgs' = cgs /\ lost' = lost \cup {"status"}
    /\ rec' = Idle /\ timer' = TRUE
    /\ UNCHANGED <<gw, valid, inputs, seen, tunnel, event, queued>>

Terminal == rec.problem \in {"spec", "params", "grant"}

\* Ready=False or Unknown, and Accepted=False unless Cloudflare is to blame; other
\* conditions are kept (conditions.Upsert).
ErrorConds(o) ==
    [o EXCEPT !.ready = Condition(IF Terminal THEN "False" ELSE "Unknown", rec.problem),
              !.accepted = IF rec.problem = "cloudflare" THEN @ ELSE Condition("False", rec.problem)]

\* reconcileError: the Gateway ...
reconcileError ==
    /\ At("error")
    /\ \/ gw' = ErrorConds(gw) /\ lost' = lost \ {"gateway"} /\ used' = used
       \/ Fault /\ gw' = gw /\ lost' = lost \cup {"gateway", "status"}
    /\ rec' = [rec EXCEPT !.pc = "errorCGS"]
    /\ UNCHANGED <<valid, inputs, seen, cgs, tunnel, event, queued, timer>>

\* ... and the CGS, if there is one; errors are only logged.  controller-runtime
\* retries what is not a terminal error.
reconcileErrorCGS ==
    /\ At("errorCGS")
    /\ \/ /\ cgs' = IF cgs.exists THEN ErrorConds(cgs) ELSE cgs
          /\ lost' = IF "gateway" \in lost \/ rec.problem = "cloudflare" THEN lost ELSE {}
          /\ used' = used
       \/ Fault /\ cgs' = cgs /\ lost' = lost \cup {"status"}
    /\ rec' = Idle
    /\ queued' = (queued \/ ~Terminal)
    /\ UNCHANGED <<gw, valid, inputs, seen, tunnel, event, timer>>

\* A new process lists everything.
Restart ==
    /\ Fault
    /\ rec' = Idle
    /\ seen' = [params |-> inputs.params, grant |-> inputs.grant]
    /\ event' = FALSE /\ queued' = TRUE /\ timer' = FALSE
    /\ lost' = IF At("mirror") THEN lost \cup {"status"} ELSE lost
    /\ UNCHANGED <<gw, valid, inputs, cgs, tunnel>>

-----------------------------------------------------------------------------
Step ==
    \/ Reconcile \/ readParameters \/ readCredentials
    \/ GetTunnelIDByName \/ CreateTunnel \/ GetTunnelToken
    \/ reconcileCGS \/ patchGatewayStatus \/ mirrorConditions
    \/ reconcileError \/ reconcileErrorCGS

Next ==
    \/ EditGateway \/ EditInput \/ Rollout \/ DeleteTunnel
    \/ SeeGateway \/ SeeParameters \/ SeeGrant
    \/ Step \/ Requeue \/ Restart

Spec == Init /\ [][Next]_vars

\* The controller and its informers run, and the interval of the periodic
\* reconcile, which a reconcile without errors asks for, ends.
Fairness ==
    /\ WF_vars(Step) /\ WF_vars(Requeue)
    /\ WF_vars(SeeGateway) /\ WF_vars(SeeParameters) /\ WF_vars(SeeGrant)

FairSpec == Spec /\ Fairness

-----------------------------------------------------------------------------
(* Properties.                                                             *)

\* What is wrong with the inputs, in the order in which reconcile looks at them.
Problem ==
    LET secretRef == gw.ref = "params" /\ inputs.params = "secretRef"
    IN  IF gw.gen \notin valid THEN "spec"
        ELSE IF gw.ref = "wrongKind" \/ (gw.ref = "params" /\ inputs.params \in {"absent", "invalid"})
        THEN "params"
        ELSE IF secretRef /\ ~inputs.secret THEN "credentials"
        ELSE IF ~secretRef /\ ~inputs.grant THEN "grant"
        ELSE "none"

Settled ==
    /\ gw.accepted.gen = gw.gen /\ gw.ready.gen = gw.gen
    /\ IF Problem = "none"
       THEN /\ gw.accepted.status = "True"
            /\ gw.ready.status = IF inputs.up THEN "True" ELSE "Unknown"
       ELSE gw.accepted.status = "False" /\ gw.ready.why = Problem

\* The conditions of the Gateway come to tell what its inputs amount to now, in
\* whatever order they changed, with two exceptions: a grant given to a Gateway
\* that was rejected for want of it is not noticed (mapReferenceGrantToGateway),
\* and reconcileError does not repeat a write that failed.
GrantMissed == Problem = "none" /\ gw.ready.why = "grant"
StatusSettles == <>[](Settled \/ GrantMissed \/ "gateway" \in lost)

\* The conditions of the CGS, which cfgwctl waits for, come to be those of the
\* Gateway, unless a write was lost: patchGatewayStatus does not write them again
\* while those of the Gateway stay the same.
StatusMirrored == <>[](cgs.exists => Conds(cgs) = Conds(gw) \/ lost # {})

\* A condition speaks of the spec of its observedGeneration: that generation was
\* valid if it says so, and was not if that is what it complains about
\* (validateGateway, patchGatewayStatus, reconcileError).
StatusOfGeneration ==
    \A c \in {gw.accepted, gw.ready, cgs.accepted, cgs.ready} :
        /\ c.status = "True" => c.gen \in valid
        /\ c.why = "spec" => c.gen \notin valid

\* Transient network errors do not fail a reconcile as long as no more of them
\* occur than a call is retried, also when the answer of CreateTunnel is lost
\* after the tunnel was created; no error answer is provoked by the retries
\* (retry1, ensureTunnel).  hard: an error answer, or the tunnel was deleted by
\* somebody else during this reconcile.
FaultsAbsorbed == rec.problem = "cloudflare" => rec.hard \/ rec.faults > MaxRetries

-----------------------------------------------------------------------------
(* The inductive invariants behind the safety properties.                  *)

Problems == {"none", "spec", "params", "credentials", "grant", "cloudflare"}
Cond == [status : {"none", "True", "False", "Unknown"},
         why : Problems \cup {"progressing"}, gen : Nat]
Gateway == [gen : Nat, ref : Refs, accepted : Cond, ready : Cond]
Steps == {"idle", "params", "credentials", "lookup", "create", "lookupAgain", "token",
          "status", "patch", "mirror", "error", "errorCGS"}

Status == [exists : BOOLEAN, accepted : Cond, ready : Cond]
Inputs == [params : Parameters, grant : BOOLEAN, secret : BOOLEAN, up : BOOLEAN]
Record == [pc : Steps, gw : Gateway, secretRef : BOOLEAN, id : Nat, attempt : Nat,
           faults : Nat, hard : BOOLEAN, problem : Problems, ready : Cond]

TypeOK ==
    /\ gw \in Gateway /\ valid \subseteq Nat
    /\ inputs \in Inputs
    /\ seen \in [params : Parameters, grant : BOOLEAN]
    /\ cgs \in Status
    /\ tunnel \in [id : Nat, made : Nat]
    /\ event \in BOOLEAN /\ queued \in BOOLEAN /\ timer \in BOOLEAN
    /\ lost \subseteq {"gateway", "status"}
    /\ rec \in Record
    /\ used \in [edits : Nat, faults : Nat]

\* A condition speaks of a generation there was, and says what is true of it.
Honest(c) ==
    /\ c.gen <= gw.gen
    /\ c.status = "True" => c.gen \in valid
    /\ c.why = "spec" => c.gen \notin valid

\* The spec a reconcile has accepted or rejected is the one it reports on: the
\* verdict on a generation never changes, newer ones come without a verdict.
StatusInv ==
    /\ \A g \in valid : g <= gw.gen
    /\ \A c \in {gw.accepted, gw.ready, cgs.accepted, cgs.ready, rec.ready} : Honest(c)
    /\ rec.gw.gen <= gw.gen
    /\ rec.pc \notin {"idle", "error", "errorCGS"} => rec.gw.gen \in valid
    /\ rec.problem = "spec" => rec.gw.gen \notin valid

\* Unless something else went wrong, the ID a call uses is that of the tunnel, and
\* a lookup after a conflict finds one.
FaultInv ==
    /\ rec.attempt <= rec.faults
    /\ At("lookupAgain") /\ ~rec.hard => tunnel.id # 0
    /\ At("token") /\ ~rec.hard => rec.id # 0 /\ rec.id = tunnel.id
    /\ FaultsAbsorbed
=============================================================================
