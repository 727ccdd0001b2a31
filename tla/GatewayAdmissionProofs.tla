------------------------ MODULE GatewayAdmissionProofs ------------------------
(***************************************************************************)
(* The safety properties of GatewayAdmission, for any number of retries,   *)
(* edits and faults.                                                       *)
(***************************************************************************)
EXTENDS GatewayAdmission, TLAPS

USE BoundAssumption

-----------------------------------------------------------------------------
(* Types.                                                                  *)

LEMMA IdleType == Idle \in Record
<1>1. NoCond \in Cond
  BY DEF NoCond, Cond, Problems
<1> QED BY <1>1 DEF Idle, Record, Steps, Gateway, Refs, Problems

LEMMA Counted ==
    ASSUME TypeOK, Edit \/ Fault \/ UNCHANGED used
    PROVE  used' \in [edits : Nat, faults : Nat]
BY DEF Edit, Fault, TypeOK

\* The conditions a reconcile writes.
LEMMA ConditionType ==
    ASSUME TypeOK, NEW st \in {"True", "False", "Unknown"},
           NEW why \in Problems \cup {"progressing"}
    PROVE  /\ Condition(st, why) \in Cond
           /\ Condition(st, why).status = st
           /\ Condition(st, why).why = why
           /\ Condition(st, why).gen = rec.gw.gen
BY DEF Condition, ObservedGeneration, Cond, TypeOK, Record, Gateway

LEMMA FailType ==
    ASSUME TypeOK, NEW p \in Problems
    PROVE  /\ Fail(p) \in Record
           /\ Fail(p).pc = "error" /\ Fail(p).problem = p /\ Fail(p).attempt = 0
           /\ Fail(p).gw = rec.gw /\ Fail(p).ready = rec.ready
           /\ Fail(p).faults = rec.faults /\ Fail(p).hard = rec.hard
BY DEF Fail, TypeOK, Record, Steps

\* What a call to Cloudflare leaves of a reconcile when it fails: a retry, or the
\* end of it.
LEMMA CallFails ==
    ASSUME TypeOK, TransientError \/ APIError
    PROVE  /\ rec' \in Record /\ used' \in [edits : Nat, faults : Nat]
           /\ rec'.gw = rec.gw /\ rec'.ready = rec.ready
           /\ \/ /\ rec'.pc = rec.pc /\ rec'.problem = rec.problem
                 /\ rec'.id = rec.id /\ rec'.hard = rec.hard
                 /\ rec'.attempt = rec.attempt + 1 /\ rec'.faults = rec.faults + 1
              \/ /\ rec'.pc = "error" /\ rec'.problem = "cloudflare" /\ rec'.attempt = 0
                 /\ rec'.faults \in Nat
                 /\ rec'.hard \/ (rec'.faults = rec.faults + 1 /\ rec.attempt >= MaxRetries)
<1>1. used' \in [edits : Nat, faults : Nat]
  BY DEF TransientError, APIError, Fault, TypeOK
<1>2. /\ Fail("cloudflare") \in Record
      /\ Fail("cloudflare").pc = "error" /\ Fail("cloudflare").problem = "cloudflare"
      /\ Fail("cloudflare").attempt = 0
      /\ Fail("cloudflare").gw = rec.gw /\ Fail("cloudflare").ready = rec.ready
      /\ Fail("cloudflare").faults = rec.faults /\ Fail("cloudflare").hard = rec.hard
  BY FailType DEF Problems
<1>3. rec \in Record /\ rec.attempt \in Nat /\ rec.faults \in Nat
  BY DEF TypeOK, Record
<1>4. CASE APIError
  <2>1. rec' = [Fail("cloudflare") EXCEPT !.hard = TRUE]
    BY <1>4 DEF APIError
  <2> QED BY <1>1, <1>2, <2>1 DEF Record
<1>5. CASE TransientError /\ MayRetry
  <2>1. rec' = [rec EXCEPT !.attempt = rec.attempt + 1, !.faults = rec.faults + 1]
    BY <1>5 DEF TransientError
  <2>2. /\ rec'.pc = rec.pc /\ rec'.problem = rec.problem
        /\ rec'.id = rec.id /\ rec'.hard = rec.hard
        /\ rec'.gw = rec.gw /\ rec'.ready = rec.ready
        /\ rec'.attempt = rec.attempt + 1 /\ rec'.faults = rec.faults + 1
    BY <1>3, <2>1 DEF Record
  <2>3. rec' \in Record
    <3>1. \A a, f \in Nat : [rec EXCEPT !.attempt = a, !.faults = f] \in Record
      BY <1>3 DEF Record
    <3>2. rec.attempt + 1 \in Nat /\ rec.faults + 1 \in Nat
      BY <1>3
    <3> QED BY <2>1, <3>1, <3>2
  <2> QED BY <1>1, <2>2, <2>3
<1>6. CASE TransientError /\ ~MayRetry
  <2>1. rec' = [Fail("cloudflare") EXCEPT !.faults = rec.faults + 1]
    BY <1>2, <1>6 DEF TransientError
  <2>2. rec.attempt >= MaxRetries
    BY <1>3, <1>6 DEF MayRetry
  <2> QED BY <1>1, <1>2, <1>3, <2>1, <2>2 DEF Record
<1> QED BY <1>4, <1>5, <1>6

\* ... and when it is answered.
LEMMA CallAnswered ==
    ASSUME TypeOK, NEW pc \in Steps, NEW id \in Nat, Answered(pc, id)
    PROVE  /\ rec' \in Record /\ used' = used
           /\ rec'.pc = pc /\ rec'.id = id /\ rec'.attempt = 0
           /\ rec'.gw = rec.gw /\ rec'.ready = rec.ready /\ rec'.problem = rec.problem
           /\ rec'.faults = rec.faults /\ rec'.hard = rec.hard
BY DEF Answered, TypeOK, Record

\* The three steps that call Cloudflare.
Calls == GetTunnelIDByName \/ CreateTunnel \/ GetTunnelToken

\* A call moves to the step its answer leads to, repeats, or ends the reconcile.
LEMMA CallStep ==
    ASSUME TypeOK, Calls
    PROVE  /\ rec' \in Record /\ used' \in [edits : Nat, faults : Nat]
           /\ tunnel' \in [id : Nat, made : Nat]
           /\ UNCHANGED <<gw, valid, inputs, seen, cgs, event, queued, timer, lost>>
           /\ rec'.gw = rec.gw /\ rec'.ready = rec.ready
           /\ rec.pc \in {"lookup", "create", "lookupAgain", "token"}
           /\ rec'.problem \in {rec.problem, "cloudflare"}
<1>1. Created \in [id : Nat, made : Nat] /\ tunnel \in [id : Nat, made : Nat]
  BY DEF Created, TypeOK
<1>2. tunnel.id \in Nat /\ Created.id \in Nat
  BY <1>1
<1>3. /\ Fail("cloudflare") \in Record /\ Fail("cloudflare").gw = rec.gw
      /\ Fail("cloudflare").ready = rec.ready /\ Fail("cloudflare").problem = "cloudflare"
  BY FailType DEF Problems
<1>4. ASSUME TransientError \/ APIError
      PROVE  /\ rec' \in Record /\ used' \in [edits : Nat, faults : Nat]
             /\ rec'.gw = rec.gw /\ rec'.ready = rec.ready
             /\ rec'.problem \in {rec.problem, "cloudflare"}
  BY <1>4, CallFails
<1>5. ASSUME NEW pc \in Steps, NEW id \in Nat, Answered(pc, id)
      PROVE  /\ rec' \in Record /\ used' \in [edits : Nat, faults : Nat]
             /\ rec'.gw = rec.gw /\ rec'.ready = rec.ready
             /\ rec'.problem \in {rec.problem, "cloudflare"}
  BY <1>5, CallAnswered DEF TypeOK
<1>6. CASE GetTunnelIDByName
  <2>1. TransientError \/ APIError \/ \E pc \in Steps : Answered(pc, tunnel.id)
    BY <1>6 DEF GetTunnelIDByName, Steps
  <2> QED BY <1>1, <1>2, <1>4, <1>5, <1>6, <2>1 DEF GetTunnelIDByName, At
<1>7. CASE CreateTunnel
  <2>1. \/ TransientError \/ APIError \/ \E pc \in Steps : Answered(pc, Created.id)
        \/ rec' = AfterConflict /\ used' = used
    BY <1>7 DEF CreateTunnel, Steps
  <2>2. /\ AfterConflict \in Record /\ AfterConflict.gw = rec.gw
        /\ AfterConflict.ready = rec.ready /\ AfterConflict.problem = rec.problem
    BY DEF AfterConflict, TypeOK, Record, Steps
  <2>3. tunnel' = tunnel \/ tunnel' = Created
    BY <1>7 DEF CreateTunnel
  <2> QED BY <1>1, <1>2, <1>4, <1>5, <1>7, <2>1, <2>2, <2>3 DEF CreateTunnel, At, TypeOK
<1>8. CASE GetTunnelToken
  <2>1. \/ TransientError \/ APIError \/ Answered("status", rec.id)
        \/ rec' = Fail("cloudflare") /\ used' = used
    BY <1>8 DEF GetTunnelToken
  <2>2. rec.id \in Nat /\ "status" \in Steps
    BY DEF TypeOK, Steps, Record
  <2> QED BY <1>1, <1>3, <1>4, <1>5, <1>8, <2>1, <2>2 DEF GetTunnelToken, At, TypeOK
<1> QED BY <1>6, <1>7, <1>8 DEF Calls

\* The conditions reconcileError writes: on each object, the generation it read.
LEMMA ErrorType ==
    ASSUME TypeOK, NEW o, o \in Gateway \/ o \in Status
    PROVE  /\ o \in Gateway => ErrorConds(o) \in Gateway
           /\ o \in Status
                => ErrorConds(o) \in Status
           /\ o \in Gateway => ErrorConds(o).gen = o.gen
           /\ \E st \in {"False", "Unknown"} :
                ErrorConds(o).ready = Condition(st, rec.problem)
           /\ \/ ErrorConds(o).accepted = o.accepted
              \/ ErrorConds(o).accepted = Condition("False", rec.problem)
<1> DEFINE st == IF Terminal THEN "False" ELSE "Unknown"
           a == IF rec.problem = "cloudflare" THEN o.accepted ELSE Condition("False", rec.problem)
<1>1. rec.problem \in Problems
  BY DEF TypeOK, Record
<1>2. /\ Condition("False", rec.problem) \in Cond /\ Condition("Unknown", rec.problem) \in Cond
  BY <1>1, ConditionType
<1>3. Condition(st, rec.problem) \in Cond
  BY <1>2
<1>4. a \in Cond
  BY <1>2 DEF Gateway, Status
<1>5. ErrorConds(o) = [o EXCEPT !.ready = Condition(st, rec.problem), !.accepted = a]
  BY DEF ErrorConds, Gateway, Status
<1> HIDE DEF a
<1>6. /\ ErrorConds(o).ready = Condition(st, rec.problem)
      /\ ErrorConds(o).accepted = a
  BY <1>5 DEF Gateway, Status
<1>7. a = o.accepted \/ a = Condition("False", rec.problem)
  BY DEF a
<1>8. \E x \in {"False", "Unknown"} : ErrorConds(o).ready = Condition(x, rec.problem)
  BY <1>6
<1> QED BY <1>3, <1>4, <1>5, <1>6, <1>7, <1>8 DEF Gateway, Status

LEMMA EditType ==
    ASSUME TypeOK, EditGateway
    PROVE  /\ gw' \in Gateway /\ gw'.gen \in Nat /\ gw'.gen = gw.gen + 1
           /\ gw'.accepted = gw.accepted /\ gw'.ready = gw.ready
<1>1. PICK ref \in Refs : gw' = [gw EXCEPT !.ref = ref, !.gen = gw.gen + 1]
  BY DEF EditGateway
<1>2. gw \in Gateway /\ gw.gen + 1 \in Nat
  BY DEF TypeOK, Gateway
<1>3. \A g \in Nat : [gw EXCEPT !.ref = ref, !.gen = g] \in Gateway
  BY <1>2 DEF Gateway
<1>4. /\ gw'.gen = gw.gen + 1
      /\ gw'.accepted = gw.accepted /\ gw'.ready = gw.ready
  BY <1>1, <1>2 DEF Gateway
<1> QED BY <1>1, <1>2, <1>3, <1>4

LEMMA TypeStep == TypeOK /\ [Next]_vars => TypeOK'
<1> SUFFICES ASSUME TypeOK, [Next]_vars PROVE TypeOK'
  OBVIOUS
<1>0. Idle \in Record /\ rec \in Record
  BY IdleType DEF TypeOK
<1>1. CASE EditGateway
  <2>1. PICK ref \in Refs : gw' = [gw EXCEPT !.ref = ref, !.gen = gw.gen + 1]
    BY <1>1 DEF EditGateway
  <2>2. gw' \in Gateway /\ gw'.gen \in Nat
    <3>1. gw \in Gateway /\ gw.gen + 1 \in Nat
      BY DEF TypeOK, Gateway
    <3>2. \A g \in Nat : [gw EXCEPT !.ref = ref, !.gen = g] \in Gateway
      BY <3>1 DEF Gateway
    <3>3. gw'.gen = gw.gen + 1
      BY <2>1, <3>1 DEF Gateway
    <3> QED BY <2>1, <3>1, <3>2, <3>3
  <2> QED BY <1>1, Counted, <2>2 DEF EditGateway, TypeOK
<1>2. CASE EditInput
  <2>1. inputs' \in Inputs
    BY <1>2 DEF EditInput, TypeOK, Inputs
  <2> QED BY <1>2, Counted, <2>1 DEF EditInput, TypeOK
<1>3. CASE Rollout
  <2>1. inputs' \in Inputs
    BY <1>3 DEF Rollout, TypeOK, Inputs
  <2> QED BY <1>3, <2>1, Counted DEF Rollout, TypeOK
<1>4. CASE DeleteTunnel
  <2>1. [rec EXCEPT !.hard = TRUE] \in Record
    BY <1>0 DEF Record
  <2>2. rec' \in Record
    BY <1>0, <1>4, <2>1 DEF DeleteTunnel
  <2> QED BY <1>4, <2>2, Counted DEF DeleteTunnel, TypeOK
<1>5. CASE SeeGateway \/ SeeParameters \/ SeeGrant \/ Requeue
  BY <1>5 DEF SeeGateway, SeeParameters, SeeGrant, Requeue, mapParametersToGateway, TypeOK, Inputs
<1>6. CASE Reconcile
  <2>1. rec' \in Record
    BY <1>0, <1>6 DEF Reconcile, Record, Steps, Problems, TypeOK
  <2> QED BY <1>6, <2>1 DEF Reconcile, TypeOK
<1>7. CASE readParameters
  <2>1. Fail("params") \in Record
    BY FailType DEF Problems
  <2>2. [rec EXCEPT !.pc = "credentials",
                    !.secretRef = rec.gw.ref = "params" /\ seen.params = "secretRef"] \in Record
    BY DEF TypeOK, Record, Steps
  <2> QED BY <1>7, <2>1, <2>2 DEF readParameters, TypeOK
<1>8. CASE readCredentials
  <2>1. Fail("credentials") \in Record /\ Fail("grant") \in Record
    BY FailType DEF Problems
  <2>2. [rec EXCEPT !.pc = "lookup"] \in Record
    BY DEF TypeOK, Record, Steps
  <2> QED BY <1>8, <2>1, <2>2 DEF readCredentials, TypeOK
<1>9. CASE Calls
  BY <1>9, CallStep DEF TypeOK
<1>10. CASE reconcileCGS
  <2>1. Condition("True", "none") \in Cond /\ Progressing \in Cond
    BY ConditionType DEF Problems, Progressing
  <2>2. rec' \in Record
    BY <1>10, <2>1 DEF reconcileCGS, TypeOK, Record, Steps
  <2>3. cgs' \in Status
    BY <1>10 DEF reconcileCGS, TypeOK, Status
  <2> QED BY <1>10, <2>2, <2>3 DEF reconcileCGS, TypeOK
<1>11. CASE patchGatewayStatus
  <2>1. Accepted \in Cond /\ rec.ready \in Cond
    BY ConditionType DEF Problems, Accepted, TypeOK, Record
  <2>2. [gw EXCEPT !.accepted = Accepted, !.ready = rec.ready] \in Gateway
    BY <2>1 DEF TypeOK, Gateway
  <2>3. [rec EXCEPT !.pc = "mirror"] \in Record
    BY DEF TypeOK, Record, Steps
  <2> QED BY <1>0, <1>11, Counted, <2>2, <2>3 DEF patchGatewayStatus, TypeOK
<1>12. CASE mirrorConditions
  <2>1. Accepted \in Cond /\ rec.ready \in Cond
    BY ConditionType DEF Problems, Accepted, TypeOK, Record
  <2>2. [cgs EXCEPT !.accepted = Accepted, !.ready = rec.ready] \in Status
    BY <2>1 DEF TypeOK, Status
  <2> QED BY <1>0, <2>2, <1>12, Counted, <2>1 DEF mirrorConditions, TypeOK
<1>13. CASE reconcileError
  <2>1. ErrorConds(gw) \in Gateway
    BY ErrorType DEF TypeOK
  <2>2. [rec EXCEPT !.pc = "errorCGS"] \in Record
    BY DEF TypeOK, Record, Steps
  <2> QED BY <1>13, Counted, <2>1, <2>2 DEF reconcileError, TypeOK
<1>14. CASE reconcileErrorCGS
  <2>1. ErrorConds(cgs) \in Status
    BY ErrorType DEF TypeOK
  <2> QED BY <1>0, <1>14, Counted, <2>1 DEF reconcileErrorCGS, Fault, Terminal, TypeOK
<1>15. CASE Restart
  <2>1. [params |-> inputs.params, grant |-> inputs.grant]
          \in [params : Parameters, grant : BOOLEAN]
    BY DEF TypeOK, Inputs
  <2> QED BY <1>0, <1>15, <2>1, Counted DEF Restart, TypeOK
<1>16. CASE UNCHANGED vars
  BY <1>16 DEF vars, TypeOK
<1> QED BY <1>1, <1>2, <1>3, <1>4, <1>5, <1>6, <1>7, <1>8, <1>9, <1>10, <1>11, <1>12,
           <1>13, <1>14, <1>15, <1>16 DEF Next, Step, Calls

LEMMA InitType == Init => TypeOK
<1>1. NoCond \in Cond
  BY DEF NoCond, Cond, Problems
<1>2. ASSUME Init PROVE gw \in Gateway /\ cgs \in Status
  BY <1>1, <1>2 DEF Init, Gateway, Refs, Status
<1>3. ASSUME Init PROVE inputs \in Inputs /\ seen \in [params : Parameters, grant : BOOLEAN]
  BY <1>3 DEF Init, Inputs, Parameters
<1>4. ASSUME Init PROVE tunnel \in [id : Nat, made : Nat] /\ used \in [edits : Nat, faults : Nat]
  BY <1>4 DEF Init
<1>5. ASSUME Init PROVE valid \subseteq Nat /\ lost \subseteq {"gateway", "status"}
  BY <1>5 DEF Init
<1>6. ASSUME Init
      PROVE  rec = Idle /\ event \in BOOLEAN /\ queued \in BOOLEAN /\ timer \in BOOLEAN
  BY <1>6 DEF Init
<1> QED BY <1>2, <1>3, <1>4, <1>5, <1>6, IdleType DEF TypeOK

\* Every reachable state is well typed.
THEOREM TypeCorrect == Spec => []TypeOK
BY InitType, TypeStep, PTL DEF Spec

-----------------------------------------------------------------------------
(* Conditions tell the truth about the generation they name.               *)

Conditions == {gw.accepted, gw.ready, cgs.accepted, cgs.ready, rec.ready}

\* What a reconcile writes: the verdict on the spec it read.
Verdict(c) ==
    /\ c.gen = rec.gw.gen
    /\ c.status = "True" => rec.gw.gen \in valid
    /\ c.why = "spec" => rec.gw.gen \notin valid

\* The verdict on a generation is never changed.
VerdictsLast ==
    /\ gw'.gen \in Nat /\ gw.gen <= gw'.gen
    /\ \A g \in Nat : g <= gw.gen => (g \in valid' <=> g \in valid)
    /\ \A g \in valid' : g <= gw'.gen

\* A step that keeps conditions or writes the verdict of a reconcile, and keeps
\* the spec it has read, keeps every condition honest.
LEMMA HonestStep ==
    ASSUME TypeOK, StatusInv, VerdictsLast,
           \A c \in Conditions' : c \in Conditions \/ c = NoCond \/ Verdict(c),
           \/ rec'.gw.gen = 0 /\ rec'.pc = "idle" /\ rec'.problem = "none"
           \/ /\ rec'.gw = rec.gw
              /\ rec.pc \in {"idle", "error", "errorCGS"}
                   => rec'.pc \in {"idle", "error", "errorCGS"}
              /\ rec'.problem = "spec" => rec.problem = "spec"
    PROVE  StatusInv'
<1>1. rec.gw.gen \in Nat /\ gw.gen \in Nat /\ rec.gw.gen <= gw.gen
  BY DEF TypeOK, Record, Gateway, StatusInv
<1>2. \A c \in Conditions : c.gen \in Nat /\ c.gen <= gw.gen
                            /\ (c.status = "True" => c.gen \in valid)
                            /\ (c.why = "spec" => c.gen \notin valid)
  BY DEF Conditions, StatusInv, Honest, TypeOK, Gateway, Status, Record, Cond
<1>3. \A c \in Conditions' : c.gen \in Nat /\ c.gen <= gw.gen
                             /\ (c.status = "True" => c.gen \in valid)
                             /\ (c.why = "spec" => c.gen \notin valid)
  BY <1>1, <1>2 DEF Verdict, NoCond
<1>4. \A c \in Conditions' : c.gen <= gw'.gen
                             /\ (c.status = "True" => c.gen \in valid')
                             /\ (c.why = "spec" => c.gen \notin valid')
  BY <1>1, <1>3 DEF VerdictsLast
<1>5. rec'.gw.gen <= gw'.gen
  BY <1>1 DEF VerdictsLast
<1>6. rec'.pc \notin {"idle", "error", "errorCGS"} => rec'.gw.gen \in valid'
  BY <1>1 DEF VerdictsLast, StatusInv
<1>7. rec'.problem = "spec" => rec'.gw.gen \notin valid'
  BY <1>1 DEF VerdictsLast, StatusInv
<1>8. \A g \in valid' : g <= gw'.gen
  BY DEF VerdictsLast
<1> QED BY <1>4, <1>5, <1>6, <1>7, <1>8 DEF StatusInv, Honest, Conditions

LEMMA StatusStep == TypeOK /\ StatusInv /\ [Next]_vars => StatusInv'
<1> SUFFICES ASSUME TypeOK, StatusInv, [Next]_vars PROVE StatusInv'
  OBVIOUS
<1>0. /\ gw \in Gateway /\ cgs \in Status /\ rec \in Record /\ valid \subseteq Nat
      /\ gw.gen \in Nat /\ rec.gw.gen \in Nat /\ rec.problem \in Problems
  BY DEF TypeOK, Gateway, Record
<1> DEFINE Goes ==
      \/ rec'.gw.gen = 0 /\ rec'.pc = "idle" /\ rec'.problem = "none"
      \/ /\ rec'.gw = rec.gw
         /\ rec.pc \in {"idle", "error", "errorCGS"}
              => rec'.pc \in {"idle", "error", "errorCGS"}
         /\ rec'.problem = "spec" => rec.problem = "spec"
<1>1. ASSUME gw'.gen = gw.gen, valid' = valid PROVE VerdictsLast
  BY <1>0, <1>1 DEF VerdictsLast, StatusInv
<1>2. ASSUME rec' = Idle PROVE Goes /\ rec'.ready = NoCond
  BY <1>2 DEF Idle
<1>3. /\ Conditions = {gw.accepted, gw.ready, cgs.accepted, cgs.ready, rec.ready}
      /\ Conditions' = {gw'.accepted, gw'.ready, cgs'.accepted, cgs'.ready, rec'.ready}
  BY DEF Conditions
<1>4. ASSUME UNCHANGED <<gw, cgs, valid>>, rec'.ready = rec.ready \/ rec'.ready = NoCond, Goes
      PROVE  StatusInv'
  BY <1>1, <1>3, <1>4, HonestStep
<1>5. CASE EditGateway
  <2>1. /\ gw' \in Gateway /\ gw'.gen = gw.gen + 1
        /\ gw'.accepted = gw.accepted /\ gw'.ready = gw.ready
    BY <1>5, EditType
  <2>2. valid' = valid \/ valid' = valid \cup {gw.gen + 1}
    BY <1>5, <2>1 DEF EditGateway
  <2>3. VerdictsLast
    <3>1. gw'.gen \in Nat /\ gw.gen < gw'.gen
      BY <1>0, <2>1
    <3>2. \A g \in valid' : g \in valid \/ g = gw'.gen
      BY <2>1, <2>2
    <3>3. ASSUME NEW g \in valid' PROVE g <= gw'.gen
      <4>1. CASE g \in valid
        <5>1. g \in Nat /\ g <= gw.gen
          BY <1>0, <4>1 DEF StatusInv
        <5> QED BY <1>0, <3>1, <5>1
      <4>2. CASE g = gw'.gen
        BY <3>1, <4>2
      <4> QED BY <3>2, <4>1, <4>2
    <3> QED BY <1>0, <2>2, <3>1, <3>2, <3>3 DEF VerdictsLast
  <2>4. UNCHANGED <<cgs, rec>>
    BY <1>5 DEF EditGateway
  <2> QED BY <1>3, <2>1, <2>3, <2>4, HonestStep
<1>6. CASE EditInput \/ Rollout \/ SeeGateway \/ SeeParameters \/ SeeGrant \/ Requeue
           \/ UNCHANGED vars
  <2>1. UNCHANGED <<gw, cgs, valid, rec>>
    BY <1>6 DEF EditInput, Rollout, SeeGateway, SeeParameters, SeeGrant, Requeue, vars
  <2> QED BY <1>4, <2>1
<1>7. CASE DeleteTunnel
  <2>1. UNCHANGED <<gw, cgs, valid>>
    BY <1>7 DEF DeleteTunnel
  <2>2. /\ rec'.ready = rec.ready /\ rec'.gw = rec.gw /\ rec'.pc = rec.pc
        /\ rec'.problem = rec.problem
    BY <1>0, <1>7 DEF DeleteTunnel, Record
  <2> QED BY <1>4, <2>1, <2>2
<1>8. CASE Reconcile
  <2>1. UNCHANGED <<gw, cgs, valid>>
    BY <1>8 DEF Reconcile
  <2>2. /\ rec'.gw = gw /\ rec'.ready = NoCond
        /\ \/ gw.gen \in valid /\ rec'.problem = "none"
           \/ gw.gen \notin valid /\ rec'.pc = "error"
    BY <1>8 DEF Reconcile, Idle
  <2>3. Honest(NoCond)
    BY <1>0 DEF NoCond, Honest
  <2>4. \A c \in Conditions' : Honest(c)
    BY <1>3, <2>1, <2>2, <2>3 DEF StatusInv
  <2> QED BY <1>0, <1>3, <2>1, <2>2, <2>4 DEF StatusInv, Honest
<1>9. CASE readParameters
  <2>1. UNCHANGED <<gw, cgs, valid>> /\ rec.pc = "params"
    BY <1>9 DEF readParameters, At
  <2>2. rec'.ready = rec.ready /\ rec'.gw = rec.gw /\ rec'.problem \in {"params", rec.problem}
    BY <1>0, <1>9 DEF readParameters, Fail, Record
  <2> QED BY <1>4, <2>1, <2>2
<1>10. CASE readCredentials
  <2>1. UNCHANGED <<gw, cgs, valid>> /\ rec.pc = "credentials"
    BY <1>10 DEF readCredentials, At
  <2>2. /\ rec'.ready = rec.ready /\ rec'.gw = rec.gw
        /\ rec'.problem \in {"credentials", "grant", rec.problem}
    BY <1>0, <1>10 DEF readCredentials, Fail, Record
  <2> QED BY <1>4, <2>1, <2>2
<1>11. CASE Calls
  BY <1>4, <1>11, CallStep
<1>12. CASE reconcileCGS
  <2>1. gw' = gw /\ valid' = valid /\ rec.pc = "status"
    BY <1>12 DEF reconcileCGS, At
  <2>2. cgs'.accepted = cgs.accepted /\ cgs'.ready = cgs.ready
    BY <1>0, <1>12 DEF reconcileCGS, Status
  <2>3. /\ rec'.gw = rec.gw /\ rec'.problem = rec.problem
        /\ rec'.ready = Condition("True", "none") \/ rec'.ready = Progressing
    BY <1>0, <1>12 DEF reconcileCGS, Record
  <2>4. Verdict(rec'.ready)
    BY <2>1, <2>3, ConditionType DEF Progressing, Problems, Verdict, StatusInv
  <2> QED BY <1>1, <1>3, <2>1, <2>2, <2>3, <2>4, HonestStep
<1>13. Verdict(Accepted) \/ rec.pc \notin {"patch", "mirror"}
  BY ConditionType DEF Accepted, Problems, Verdict, StatusInv
<1>14. CASE patchGatewayStatus
  <2>1. cgs' = cgs /\ valid' = valid /\ rec.pc = "patch"
    BY <1>14 DEF patchGatewayStatus, At
  <2>2. \/ gw'.accepted = gw.accepted /\ gw'.ready = gw.ready /\ gw'.gen = gw.gen
        \/ gw'.accepted = Accepted /\ gw'.ready = rec.ready /\ gw'.gen = gw.gen
    BY <1>0, <1>14 DEF patchGatewayStatus, Gateway
  <2>3. rec' = Idle \/ rec' = [rec EXCEPT !.pc = "mirror"]
    BY <1>14 DEF patchGatewayStatus
  <2>4. Goes /\ (rec'.ready = rec.ready \/ rec'.ready = NoCond)
    BY <1>0, <1>2, <2>1, <2>3 DEF Record
  <2> QED BY <1>1, <1>3, <1>13, <2>1, <2>2, <2>4, HonestStep
<1>15. CASE mirrorConditions
  <2>1. gw' = gw /\ valid' = valid /\ rec.pc = "mirror" /\ rec' = Idle
    BY <1>15 DEF mirrorConditions, At
  <2>2. \/ cgs'.accepted = cgs.accepted /\ cgs'.ready = cgs.ready
        \/ cgs'.accepted = Accepted /\ cgs'.ready = rec.ready
    BY <1>0, <1>15 DEF mirrorConditions, Status
  <2> QED BY <1>1, <1>2, <1>3, <1>13, <2>1, <2>2, HonestStep
<1>16. \A st \in {"False", "Unknown"} : Verdict(Condition(st, rec.problem))
  BY <1>0, ConditionType DEF Verdict, StatusInv
<1>17. CASE reconcileError
  <2>1. cgs' = cgs /\ valid' = valid /\ rec.pc = "error" /\ rec' = [rec EXCEPT !.pc = "errorCGS"]
    BY <1>17 DEF reconcileError, At
  <2>2. gw' = gw \/ gw' = ErrorConds(gw)
    BY <1>17 DEF reconcileError
  <2>3. /\ gw'.gen = gw.gen
        /\ gw'.ready = gw.ready \/ Verdict(gw'.ready)
        /\ gw'.accepted = gw.accepted \/ Verdict(gw'.accepted)
    BY <1>0, <1>16, <2>2, ErrorType
  <2>4. Goes /\ rec'.ready = rec.ready
    BY <1>0, <2>1 DEF Record
  <2> QED BY <1>1, <1>3, <2>1, <2>3, <2>4, HonestStep
<1>18. CASE reconcileErrorCGS
  <2>1. gw' = gw /\ valid' = valid /\ rec' = Idle
    BY <1>18 DEF reconcileErrorCGS
  <2>2. cgs' = cgs \/ cgs' = ErrorConds(cgs)
    BY <1>18 DEF reconcileErrorCGS
  <2>3. /\ cgs'.ready = cgs.ready \/ Verdict(cgs'.ready)
        /\ cgs'.accepted = cgs.accepted \/ Verdict(cgs'.accepted)
    BY <1>0, <1>16, <2>2, ErrorType
  <2> QED BY <1>1, <1>2, <1>3, <2>1, <2>3, HonestStep
<1>19. CASE Restart
  BY <1>2, <1>4, <1>19 DEF Restart
<1> QED BY <1>5, <1>6, <1>7, <1>8, <1>9, <1>10, <1>11, <1>12, <1>14, <1>15, <1>17, <1>18,
           <1>19 DEF Next, Step, Calls

\* A condition of the Gateway or of its CGS tells the truth about the generation
\* in its observedGeneration, however the spec changed while the reconcile that
\* wrote it was under way and however the writes failed.
THEOREM StatusTruthful == Spec => []StatusOfGeneration
<1>1. Init => StatusInv
  BY DEF Init, StatusInv, Honest, NoCond, Idle
<1>2. StatusInv => StatusOfGeneration
  BY DEF StatusInv, StatusOfGeneration, Honest
<1> QED BY <1>1, <1>2, StatusStep, TypeCorrect, PTL DEF Spec

-----------------------------------------------------------------------------
(* Transient network errors are absorbed.                                  *)

\* The calls keep track of the tunnel: an ID is that of the tunnel when the call
\* that returns it ends, and only somebody else takes the tunnel away.
LEMMA CallFaults ==
    ASSUME TypeOK, FaultInv, Calls
    PROVE  FaultInv'
<1>1. /\ rec \in Record /\ rec.attempt \in Nat /\ rec.faults \in Nat /\ rec.id \in Nat
      /\ tunnel.id \in Nat /\ tunnel.made \in Nat
      /\ rec.attempt <= rec.faults /\ FaultsAbsorbed
  BY DEF TypeOK, Record, FaultInv
<1>2. ASSUME TransientError \/ APIError,
             tunnel' = tunnel \/ rec.pc = "create"
      PROVE  FaultInv'
  <2>1. \/ /\ rec'.pc = rec.pc /\ rec'.problem = rec.problem
           /\ rec'.id = rec.id /\ rec'.hard = rec.hard
           /\ rec'.attempt = rec.attempt + 1 /\ rec'.faults = rec.faults + 1
        \/ /\ rec'.pc = "error" /\ rec'.problem = "cloudflare" /\ rec'.attempt = 0
           /\ rec'.faults \in Nat
           /\ rec'.hard \/ (rec'.faults = rec.faults + 1 /\ rec.attempt >= MaxRetries)
    BY <1>2, CallFails
  <2> QED BY <1>1, <1>2, <2>1 DEF FaultInv, FaultsAbsorbed, At
<1>3. ASSUME NEW pc \in Steps, NEW id \in Nat, Answered(pc, id),
             pc \notin {"lookupAgain", "token"} \/ (id # 0 /\ id = tunnel'.id) \/ rec.hard
      PROVE  FaultInv'
  <2>1. /\ rec'.pc = pc /\ rec'.id = id /\ rec'.attempt = 0 /\ rec'.problem = rec.problem
        /\ rec'.faults = rec.faults /\ rec'.hard = rec.hard
    BY <1>3, CallAnswered
  <2> QED BY <1>1, <1>3, <2>1 DEF FaultInv, FaultsAbsorbed, At
<1>4. CASE GetTunnelIDByName
  <2>1. tunnel' = tunnel /\ rec.pc \in {"lookup", "lookupAgain"}
    BY <1>4 DEF GetTunnelIDByName, At
  <2>2. \/ TransientError \/ APIError \/ Answered("create", tunnel.id)
        \/ (rec.pc = "lookupAgain" \/ tunnel.id # 0) /\ Answered("token", tunnel.id)
    BY <1>4 DEF GetTunnelIDByName, At
  <2>3. rec.pc = "lookupAgain" => tunnel.id # 0 \/ rec.hard
    BY DEF FaultInv, At
  <2> QED BY <1>1, <1>2, <1>3, <2>1, <2>2, <2>3 DEF Steps
<1>5. CASE CreateTunnel
  <2>1. rec.pc = "create"
    BY <1>5 DEF CreateTunnel, At
  <2>2. CASE tunnel.id = 0 /\ Answered("token", Created.id) /\ tunnel' = Created
    <3>1. Created.id \in Nat /\ Created.id # 0
      BY <1>1, <2>2 DEF Created
    <3> QED BY <1>3, <2>2, <3>1 DEF Steps
  <2>3. CASE tunnel.id # 0 /\ rec' = AfterConflict /\ UNCHANGED <<tunnel, used>>
    <3>1. /\ rec'.pc = "lookupAgain" /\ rec'.attempt = 0 /\ rec'.problem = rec.problem
          /\ rec'.faults = rec.faults /\ rec'.hard = rec.hard
      BY <1>1, <2>3 DEF AfterConflict, Record
    <3> QED BY <1>1, <2>3, <3>1 DEF FaultInv, FaultsAbsorbed, At
  <2>4. CASE TransientError \/ APIError
    BY <1>2, <2>1, <2>4
  <2> QED BY <1>5, <2>2, <2>3, <2>4 DEF CreateTunnel
<1>6. CASE GetTunnelToken
  <2>1. rec.pc = "token" /\ tunnel' = tunnel
    BY <1>6 DEF GetTunnelToken, At
  <2>2. CASE Answered("status", rec.id)
    BY <1>1, <1>3, <2>2 DEF Steps
  <2>3. CASE (rec.id = 0 \/ rec.id # tunnel.id) /\ rec' = Fail("cloudflare") /\ used' = used
    <3>1. /\ rec'.pc = "error" /\ rec'.attempt = 0 /\ rec'.faults = rec.faults
          /\ rec'.hard = rec.hard
      BY <2>3, FailType DEF Problems
    <3>2. rec.hard
      BY <2>1, <2>3 DEF FaultInv, At, TypeOK, Record
    <3> QED BY <1>1, <3>1, <3>2 DEF FaultInv, FaultsAbsorbed, At
  <2>4. CASE TransientError \/ APIError
    BY <1>2, <2>1, <2>4
  <2> QED BY <1>6, <2>2, <2>3, <2>4 DEF GetTunnelToken
<1> QED BY <1>4, <1>5, <1>6 DEF Calls

LEMMA FaultStep == TypeOK /\ FaultInv /\ [Next]_vars => FaultInv'
<1> SUFFICES ASSUME TypeOK, FaultInv, [Next]_vars PROVE FaultInv'
  OBVIOUS
<1>0. rec \in Record /\ rec.faults \in Nat
  BY DEF TypeOK, Record
<1>1. CASE Calls
  BY <1>1, CallFaults
<1>2. ASSUME rec'.pc \notin {"lookupAgain", "token"}, rec'.problem # "cloudflare",
             rec'.attempt = 0 /\ rec'.faults \in Nat
      PROVE  FaultInv'
  BY <1>2 DEF FaultInv, FaultsAbsorbed, At
<1>3. ASSUME rec' = Idle PROVE FaultInv'
  BY <1>2, <1>3 DEF Idle
<1>4. ASSUME rec'.pc \notin {"lookupAgain", "token"}, rec'.problem = rec.problem,
             rec'.attempt = rec.attempt, rec'.faults = rec.faults, rec'.hard = rec.hard
      PROVE  FaultInv'
  BY <1>4 DEF FaultInv, FaultsAbsorbed, At
<1>5. CASE EditGateway \/ EditInput \/ Rollout \/ SeeGateway \/ SeeParameters \/ SeeGrant
           \/ Requeue \/ UNCHANGED vars
  <2>1. UNCHANGED <<rec, tunnel>>
    BY <1>5 DEF EditGateway, EditInput, Rollout, SeeGateway, SeeParameters, SeeGrant, Requeue, vars
  <2> QED BY <2>1 DEF FaultInv, FaultsAbsorbed, At
<1>6. CASE DeleteTunnel
  <2>1. CASE At("idle")
    BY <1>6, <2>1 DEF DeleteTunnel, FaultInv, FaultsAbsorbed, At
  <2>2. CASE ~At("idle")
    <3>1. rec' = [rec EXCEPT !.hard = TRUE]
      BY <1>6, <2>2 DEF DeleteTunnel
    <3>2. rec'.hard /\ rec'.attempt = rec.attempt /\ rec'.faults = rec.faults
      BY <1>0, <3>1 DEF Record
    <3> QED BY <3>2 DEF FaultInv, FaultsAbsorbed
  <2> QED BY <2>1, <2>2
<1>7. CASE Reconcile
  <2>1. rec'.pc \in {"params", "error"} /\ rec'.problem \in {"none", "spec"}
        /\ rec'.attempt = 0 /\ rec'.faults = 0
    BY <1>7 DEF Reconcile, Idle
  <2> QED BY <1>2, <2>1
<1>8. CASE readParameters
  <2>1. \/ rec' = Fail("params")
        \/ /\ rec'.pc = "credentials" /\ rec'.problem = rec.problem
           /\ rec'.attempt = rec.attempt /\ rec'.faults = rec.faults /\ rec'.hard = rec.hard
    BY <1>0, <1>8 DEF readParameters, Record
  <2> QED BY <1>0, <1>2, <1>4, <2>1, FailType DEF Problems
<1>9. CASE readCredentials
  <2>1. \/ rec' = Fail("credentials") \/ rec' = Fail("grant")
        \/ /\ rec'.pc = "lookup" /\ rec'.problem = rec.problem
           /\ rec'.attempt = rec.attempt /\ rec'.faults = rec.faults /\ rec'.hard = rec.hard
    BY <1>0, <1>9 DEF readCredentials, Record
  <2> QED BY <1>0, <1>2, <1>4, <2>1, FailType DEF Problems
<1>10. CASE reconcileCGS
  BY <1>0, <1>4, <1>10 DEF reconcileCGS, Record
<1>11. CASE patchGatewayStatus
  <2>1. rec' = Idle \/ rec' = [rec EXCEPT !.pc = "mirror"]
    BY <1>11 DEF patchGatewayStatus
  <2> QED BY <1>0, <1>3, <1>4, <2>1 DEF Record
<1>12. CASE mirrorConditions \/ reconcileErrorCGS \/ Restart
  BY <1>3, <1>12 DEF mirrorConditions, reconcileErrorCGS, Restart
<1>13. CASE reconcileError
  BY <1>0, <1>4, <1>13 DEF reconcileError, Record
<1> QED BY <1>1, <1>5, <1>6, <1>7, <1>8, <1>9, <1>10, <1>11, <1>12, <1>13
        DEF Next, Step, Calls

\* However many retries a call has: as long as no more transient errors occur in
\* a reconcile than that, they do not fail it, also when the answer of
\* CreateTunnel is lost after the tunnel was created.
THEOREM RetriesSuffice == Spec => []FaultsAbsorbed
<1>1. Init => FaultInv
  BY DEF Init, FaultInv, FaultsAbsorbed, At, Idle
<1>2. FaultInv => FaultsAbsorbed
  BY DEF FaultInv
<1> QED BY <1>1, <1>2, FaultStep, TypeCorrect, PTL DEF Spec
=============================================================================
