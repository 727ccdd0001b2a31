------------------------- MODULE TokenRotationProofs -------------------------
(***************************************************************************)
(* The safety properties of TokenRotation, for any clock, schedule and     *)
(* reconcile interval, and any number of requests, edits, rotations,       *)
(* deletions and faults.                                                   *)
(***************************************************************************)
EXTENDS TokenRotation, SequenceTheorems, FiniteSetTheorems, WellFoundedInduction, TLAPS

\* A set of natural numbers that is not empty has a least element.
LEMMA LeastNatural ==
    ASSUME NEW S \in SUBSET Nat, S # {}
    PROVE  \E x \in S : \A y \in S : x <= y
<1> DEFINE lt == OpToRel(<, Nat)
<1>1. IsWellFoundedOn(lt, Nat)
  BY NatLessThanWellFounded
<1>2. PICK x \in S : \A y \in S : <<y, x>> \notin lt
  <2> HIDE DEF lt
  <2> QED BY <1>1, WFMin
<1>3. \A y \in S : ~(y < x)
  BY <1>2 DEF OpToRel
<1> QED BY <1>3

\* A bounded one has a greatest element.
LEMMA GreatestNatural ==
    ASSUME NEW S \in SUBSET Nat, S # {}, NEW t \in Nat, \A x \in S : x <= t
    PROVE  \E x \in S : \A y \in S : y <= x
<1> DEFINE ago == {t - x : x \in S}
<1>0. \A x \in S : x \in Nat /\ t - x \in Nat
  OBVIOUS
<1>1. ago \in SUBSET Nat /\ ago # {}
  BY <1>0
<1>2. PICK d \in ago : \A e \in ago : d <= e
  BY <1>1, LeastNatural
<1>3. PICK x \in S : d = t - x
  OBVIOUS
<1>4. ASSUME NEW y \in S PROVE y <= x
  <2>1. t - y \in ago
    OBVIOUS
  <2>2. t - x <= t - y
    BY <1>2, <1>3, <2>1
  <2> QED BY <1>0, <2>2
<1> QED BY <1>4

\* What the assumptions say of the constants the proofs need.
LEMMA Constants ==
    /\ PerSecond \in Nat \ {0} /\ Interval \in Nat \ {0} /\ MaxTime \in Nat
    /\ PerSecond <= MaxTime /\ InitEnabled \in BOOLEAN
    /\ Triggers \subseteq Nat
<1>1. \A n \in 1..MaxTime : PerSecond * n \in Nat
  BY ClockAssumption
<1> QED BY <1>1, ClockAssumption, SwitchAssumption

USE Constants

-----------------------------------------------------------------------------
(* The clock.                                                              *)

\* A number of ticks is so many whole seconds and a rest.
LEMMA WholeSeconds ==
    ASSUME NEW t \in Nat
    PROVE  /\ t \div PerSecond \in Nat
           /\ (t \div PerSecond) * PerSecond \in Nat
           /\ (t \div PerSecond) * PerSecond <= t
           /\ t < (t \div PerSecond) * PerSecond + PerSecond
<1> DEFINE q == t \div PerSecond
<1>1. q \in Int /\ t = PerSecond * q + (t % PerSecond) /\ t % PerSecond \in 0..(PerSecond - 1)
  OBVIOUS
<1> HIDE DEF q
<1>2. q >= 0
  <2> SUFFICES ASSUME q < 0 PROVE FALSE
    BY <1>1
  <2>1. q + 1 <= 0 /\ PerSecond > 0
    BY <1>1
  <2>2. PerSecond * (q + 1) <= 0
    BY <1>1, <2>1
  <2>3. PerSecond * (q + 1) = PerSecond * q + PerSecond
    BY <1>1
  <2> QED BY <1>1, <2>2, <2>3
<1>3. PerSecond * q = q * PerSecond /\ q * PerSecond \in Int
  BY <1>1
<1>4. q * PerSecond >= 0
  BY <1>1, <1>2
<1> QED BY <1>1, <1>2, <1>3, <1>4 DEF q

\* A stamp is not later than the clock, and later stamps are not smaller.
LEMMA StampMonotone ==
    ASSUME NEW t \in Nat, NEW u \in Nat, t <= u
    PROVE  RFC3339(t) \in Nat /\ RFC3339(t) <= t /\ RFC3339(t) <= RFC3339(u)
<1> DEFINE q == t \div PerSecond
           r == u \div PerSecond
<1>1. /\ q \in Nat /\ q * PerSecond \in Nat /\ q * PerSecond <= t
      /\ r \in Nat /\ u < r * PerSecond + PerSecond
  BY WholeSeconds
<1> HIDE DEF q, r
<1>2. q <= r
  <2> SUFFICES ASSUME r + 1 <= q PROVE FALSE
    BY <1>1
  <2>1. (r + 1) * PerSecond <= q * PerSecond
    BY <1>1
  <2>2. (r + 1) * PerSecond = r * PerSecond + PerSecond
    BY <1>1
  <2> QED BY <1>1, <2>1, <2>2
<1>3. q * PerSecond <= r * PerSecond
  BY <1>1, <1>2
<1> QED BY <1>1, <1>3 DEF RFC3339, q, r

\* The triggers around a moment.
LEMMA TriggerType ==
    ASSUME NEW t \in Nat
    PROVE  PrevTrigger(t) \in 0..t /\ NextTrigger(t) \in Triggers \cup {0}
<1>1. PrevTrigger(t) \in 0..t
  <2> DEFINE past == {x \in Triggers : x <= t}
  <2>0. past \in SUBSET Nat
    OBVIOUS
  <2>1. CASE past = {}
    BY <2>1 DEF PrevTrigger
  <2>2. CASE past # {}
    <3>1. \E x \in past : \A y \in past : y <= x
      <4> HIDE DEF past
      <4>1. \A x \in past : x <= t
        BY DEF past
      <4> QED BY <2>0, <2>2, <4>1, GreatestNatural
    <3>2. PrevTrigger(t) \in past
      BY <2>2, <3>1 DEF PrevTrigger
    <3> QED BY <2>0, <3>2
  <2> QED BY <2>1, <2>2
<1>2. NextTrigger(t) \in Triggers \cup {0}
  <2> DEFINE future == {x \in Triggers : x > t}
  <2>1. CASE future = {}
    BY <2>1 DEF NextTrigger
  <2>2. CASE future # {}
    <3>1. PICK x \in future : \A y \in future : x <= y
      BY <2>2, LeastNatural
    <3> QED BY <2>2, <3>1 DEF NextTrigger
  <2> QED BY <2>1, <2>2
<1> QED BY <1>1, <1>2

\* Adding to the queue keeps its time within the horizon.
LEMMA AddAfterType ==
    ASSUME now \in 0..MaxTime, due \in Time, NEW d \in 0..Interval
    PROVE  AddAfter(d) \in Time
BY DEF AddAfter, Time

LEMMA RequeueType ==
    ASSUME now \in 0..MaxTime, rec.nextTrigger \in Nat
    PROVE  computeRequeueAfter \in 0..Interval
BY DEF computeRequeueAfter

-----------------------------------------------------------------------------
(* Types.                                                                  *)

LEMMA IdleType ==
    /\ Idle \in Record /\ NoCGS \in CGS
    /\ Idle.pc = "idle" /\ Idle.req = 0 /\ Idle.cgs = NoCGS /\ Idle.lastRotatedAt = 0
    /\ NoCGS.handled = 0 /\ NoCGS.rotatedAt = 0 /\ NoCGS.exists = FALSE /\ NoCGS.fin = FALSE
    /\ NoCGS.dying = FALSE
BY DEF Idle, Record, NoCGS, NoCause, CGS, Cause, Steps, Time

LEMMA FailedType ==
    ASSUME TypeOK, Failed
    PROVE  rec' = Idle /\ rec' \in Record /\ due' \in Time
<1>1. due' \in Time
  BY AddAfterType DEF TypeOK, Failed
<1> QED BY <1>1, IdleType DEF Failed

LEMMA StartType ==
    ASSUME TypeOK, StartReconcile
    PROVE  /\ rec' \in Record /\ due' \in Time
           /\ UNCHANGED <<now, enabled, requestedAt, token, applied, rolledOut, cgs, seen, hist, used>>
           /\ rec'.pc = "decide" /\ rec'.req = requestedAt /\ rec'.lastRotatedAt = 0
           /\ rec'.cgs = cgs \/ rec'.cgs = seen
<1> DEFINE copy == IF CacheLag THEN seen ELSE cgs
<1>1. /\ copy \in CGS /\ requestedAt \in Time /\ enabled \in BOOLEAN /\ 0 \in Time
      /\ copy = cgs \/ copy = seen
  BY DEF TypeOK, Time
<1> HIDE DEF copy
<1>2. rec' = [Idle EXCEPT !.pc = "decide", !.req = requestedAt, !.enabled = enabled,
                          !.cgs = copy]
  BY DEF StartReconcile, copy
<1>3. /\ rec' \in Record /\ rec'.pc = "decide" /\ rec'.req = requestedAt
      /\ rec'.lastRotatedAt = 0 /\ rec'.cgs = copy
  BY <1>1, <1>2, IdleType DEF Record, Steps
<1> QED BY <1>1, <1>3 DEF StartReconcile, inputs, rollout

LEMMA DecideType ==
    ASSUME TypeOK, maybeRotateToken
    PROVE  /\ rec.pc = "decide" /\ rec' \in Record
           /\ UNCHANGED <<now, enabled, requestedAt, token, applied, rolledOut, cgs, seen, due,
                          hist, used>>
           /\ rec'.req = rec.req /\ rec'.cgs = rec.cgs
           /\ rec'.pc = IF OnDemand \/ Scheduled THEN "rotate" ELSE "announce"
           /\ rec'.lastRotatedAt \in {0, RFC3339(now)}
<1> DEFINE step == IF OnDemand \/ Scheduled THEN "rotate" ELSE "announce"
           cause == IF OnDemand THEN [kind |-> "request", at |-> rec.req]
                    ELSE IF Scheduled THEN [kind |-> "cron", at |-> PrevTrigger(now)]
                    ELSE NoCause
           next == IF rec.enabled THEN NextTrigger(now) ELSE 0
           last == IF rec.enabled /\ rec.cgs.rotatedAt = 0 THEN RFC3339(now) ELSE 0
<1>1. rec \in Record /\ now \in 0..MaxTime /\ rec.req \in Time
  BY DEF TypeOK, Record
<1>2. PrevTrigger(now) \in Time /\ RFC3339(now) \in Time /\ 0 \in Time
  BY <1>1, TriggerType, StampMonotone DEF Time
<1>3. cause \in Cause
  BY <1>1, <1>2 DEF Cause, NoCause
<1>4. next \in Triggers \cup {0}
  BY <1>1, TriggerType
<1>5. last \in Time /\ last \in {0, RFC3339(now)}
  BY <1>2
<1>6. step \in Steps
  BY DEF Steps
<1>7. rec' = [rec EXCEPT !.pc = step, !.cause = cause, !.nextTrigger = next,
                         !.lastRotatedAt = last]
  BY DEF maybeRotateToken
<1> HIDE DEF step, cause, next, last
<1>8. /\ rec' \in Record /\ rec'.req = rec.req /\ rec'.cgs = rec.cgs
      /\ rec'.pc = step /\ rec'.lastRotatedAt = last
  BY <1>1, <1>3, <1>4, <1>5, <1>6, <1>7 DEF Record
<1> QED BY <1>5, <1>8 DEF maybeRotateToken, step, inputs, rollout

LEMMA RotateType ==
    ASSUME TypeOK, RotateTunnelSecret
    PROVE  /\ rec.pc = "rotate" /\ rec' \in Record /\ token' \in Nat
           /\ UNCHANGED <<now, enabled, requestedAt, applied, rolledOut, cgs, seen, due, used>>
           /\ rec'.req = rec.req /\ rec'.cgs = rec.cgs /\ rec'.pc = "stamp"
           /\ hist' \in Seq(Rotation) /\ Len(hist') = Len(hist) + 1
           /\ \A i \in DOMAIN hist : hist'[i] = hist[i]
           /\ hist'[Len(hist')].at = now
<1> DEFINE new == [cause |-> rec.cause, at |-> now, stale |-> rec.cgs # cgs]
<1>1. rec \in Record /\ token \in Nat /\ hist \in Seq(Rotation)
  BY DEF TypeOK
<1>2. new \in Rotation
  BY DEF TypeOK, Record, Rotation, Time
<1>3. rec' = [rec EXCEPT !.pc = "stamp"] /\ hist' = Append(hist, new) /\ token' = token + 1
  BY DEF RotateTunnelSecret
<1>4. /\ rec' \in Record /\ rec'.req = rec.req /\ rec'.cgs = rec.cgs
      /\ rec'.pc = "stamp"
  BY <1>1, <1>3 DEF Record, Steps
<1>5. new.at = now
  OBVIOUS
<1> HIDE DEF new
<1>6. /\ hist' \in Seq(Rotation) /\ Len(hist') = Len(hist) + 1
      /\ \A i \in 1..Len(hist) : hist'[i] = hist[i]
      /\ hist'[Len(hist')] = new
  BY <1>1, <1>2, <1>3
<1>7. DOMAIN hist = 1..Len(hist)
  BY <1>1
<1> QED BY <1>1, <1>3, <1>4, <1>5, <1>6, <1>7 DEF RotateTunnelSecret, inputs

LEMMA StampType ==
    ASSUME TypeOK, StampRotation
    PROVE  /\ rec.pc = "stamp" /\ rec' \in Record
           /\ UNCHANGED <<now, enabled, requestedAt, token, applied, rolledOut, cgs, seen, due,
                          hist, used>>
           /\ rec'.req = rec.req /\ rec'.cgs = rec.cgs /\ rec'.pc = "announce"
           /\ rec'.lastRotatedAt = RFC3339(now)
<1>1. rec \in Record /\ RFC3339(now) \in Time
  <2>1. rec \in Record /\ now \in 0..MaxTime
    BY DEF TypeOK
  <2>2. now \in Nat /\ now <= now
    BY <2>1
  <2>3. RFC3339(now) \in Nat /\ RFC3339(now) <= now
    BY <2>2, StampMonotone
  <2>4. now <= MaxTime + Interval
    BY <2>1
  <2> QED BY <2>1, <2>3, <2>4 DEF Time
<1>2. rec' = [rec EXCEPT !.pc = "announce", !.lastRotatedAt = RFC3339(now)]
  BY DEF StampRotation
<1> QED BY <1>1, <1>2 DEF StampRotation, Record, Steps, inputs, rollout

LEMMA AnnounceType ==
    ASSUME TypeOK, patchCGSTokenHash
    PROVE  /\ rec.pc = "announce" /\ rec' \in Record /\ due' \in Time /\ cgs' \in CGS
           /\ UNCHANGED <<now, enabled, requestedAt, token, applied, rolledOut, seen, hist, used>>
           /\ cgs'.exists = cgs.exists /\ cgs'.fin = cgs.fin /\ cgs'.dying = cgs.dying
           /\ cgs'.handled = cgs.handled /\ cgs'.rotatedAt = cgs.rotatedAt
           /\ \/ rec' = Idle
              \/ /\ rec'.pc = "apply" /\ rec'.req = rec.req
                 /\ rec'.lastRotatedAt = rec.lastRotatedAt
                 /\ rec'.cgs = rec.cgs \/ rec'.cgs = cgs'
<1> DEFINE patch == rec.lastRotatedAt # 0 /\ rec.cgs.exists /\ ~rec.cgs.dying
                        /\ rec.cgs.hash # token
<1>1. rec \in Record /\ cgs \in CGS /\ token \in Nat /\ due \in Time
  BY DEF TypeOK
<1>2. CASE patch /\ ~cgs.exists
  <2>1. Failed /\ cgs' = cgs
    BY <1>2 DEF patchCGSTokenHash
  <2> QED BY <1>1, <2>1, FailedType DEF patchCGSTokenHash, inputs, rollout
<1>3. CASE ~(patch /\ ~cgs.exists)
  <2>1. /\ cgs' = IF patch THEN [cgs EXCEPT !.hash = token] ELSE cgs
        /\ rec' = [rec EXCEPT !.pc = "apply", !.cgs = IF patch THEN cgs' ELSE rec.cgs]
        /\ due' = due
    BY <1>3 DEF patchCGSTokenHash
  <2>2. /\ cgs' \in CGS
        /\ cgs'.exists = cgs.exists /\ cgs'.fin = cgs.fin /\ cgs'.dying = cgs.dying
        /\ cgs'.handled = cgs.handled /\ cgs'.rotatedAt = cgs.rotatedAt
    <3> HIDE DEF patch
    <3> QED BY <1>1, <2>1 DEF CGS
  <2>3. PICK copy \in CGS : /\ copy = rec.cgs \/ copy = cgs'
                            /\ rec' = [rec EXCEPT !.pc = "apply", !.cgs = copy]
    <3>1. rec.cgs \in CGS
      BY <1>1 DEF Record
    <3> QED BY <2>1, <2>2, <3>1
  <2>4. /\ rec' \in Record /\ rec'.pc = "apply" /\ rec'.req = rec.req
        /\ rec'.lastRotatedAt = rec.lastRotatedAt /\ rec'.cgs = copy
    BY <1>1, <2>3 DEF Record, Steps
  <2> QED BY <1>1, <2>1, <2>2, <2>3, <2>4 DEF patchCGSTokenHash, inputs, rollout
<1> QED BY <1>2, <1>3

LEMMA ApplyType ==
    ASSUME TypeOK, ApplyDeployments
    PROVE  /\ rec.pc = "apply" /\ rec' \in Record /\ due' \in Time /\ applied' \in Nat
           /\ UNCHANGED <<now, enabled, requestedAt, token, rolledOut, cgs, seen, hist, used>>
           /\ rec'.pc = "cgs" /\ rec'.req = rec.req /\ rec'.cgs = rec.cgs
           /\ rec'.lastRotatedAt = rec.lastRotatedAt
<1>1. rec \in Record /\ token \in Nat /\ due \in Time /\ AddAfter(0) \in Time
  BY AddAfterType DEF TypeOK
<1>2. rec' = [rec EXCEPT !.pc = "cgs"]
  BY DEF ApplyDeployments
<1> QED BY <1>1, <1>2 DEF ApplyDeployments, Record, Steps, inputs

\* What reconcileCGS writes comes from the reconcile, from the copy it read or
\* from the live CGS; a reconcile that has not rotated records no new time.
LEMMA RecordType ==
    ASSUME TypeOK, reconcileCGS, cgs.fin => cgs.exists
    PROVE  /\ rec.pc = "cgs" /\ rec' \in Record /\ due' \in Time /\ cgs' \in CGS
           /\ UNCHANGED <<now, enabled, requestedAt, token, applied, rolledOut, seen, hist, used>>
           /\ rec' = Idle \/ (rec'.pc = "requeue" /\ rec'.req = rec.req /\ rec'.cgs = rec.cgs)
           /\ cgs'.fin => cgs'.exists
           /\ cgs'.handled \in {cgs.handled, rec.cgs.handled, rec.req, 0}
           /\ \/ cgs'.rotatedAt = cgs.rotatedAt
              \/ cgs'.rotatedAt = rec.lastRotatedAt /\ rec.lastRotatedAt # 0
              \/ cgs'.rotatedAt \in {rec.cgs.rotatedAt, 0} /\ (cgs.dying \/ ~cgs.fin)
<1>1. /\ rec \in Record /\ cgs \in CGS /\ token \in Nat /\ due \in Time /\ rec.cgs \in CGS
      /\ rec.req \in Time /\ rec.lastRotatedAt \in Time
  BY DEF TypeOK, Record
<1>2. /\ DesiredCGS \in CGS /\ DesiredCGS.exists /\ DesiredCGS.fin
      /\ DesiredCGS.handled \in {rec.req, rec.cgs.handled}
      /\ DesiredCGS.rotatedAt = IF rec.lastRotatedAt # 0 THEN rec.lastRotatedAt
                                ELSE rec.cgs.rotatedAt
  BY <1>1 DEF DesiredCGS, NoCGS, CGS
<1>3. CASE Failed /\ cgs' = cgs
  BY <1>1, <1>3, FailedType DEF reconcileCGS, inputs, rollout
<1>4. CASE /\ cgs' = IF ~Replaces THEN MergePatch(rec.cgs, DesiredCGS)
                     ELSE IF Released.exists THEN Released ELSE DesiredCGS
           /\ rec' = [rec EXCEPT !.pc = "requeue"]
           /\ due' = due
  <2>1. rec' \in Record /\ rec'.pc = "requeue" /\ rec'.req = rec.req /\ rec'.cgs = rec.cgs
    BY <1>1, <1>4 DEF Record, Steps
  <2>2. CASE cgs' = MergePatch(rec.cgs, DesiredCGS)
    <3>1. DOMAIN cgs = {"exists", "dying", "fin", "hash", "handled", "rotatedAt"}
      BY <1>1 DEF CGS
    <3>2. /\ cgs'.exists = cgs.exists /\ cgs'.dying = cgs.dying /\ cgs'.fin = cgs.fin
          /\ cgs'.hash = IF DesiredCGS.hash # rec.cgs.hash THEN DesiredCGS.hash ELSE cgs.hash
          /\ cgs'.handled = IF DesiredCGS.handled # rec.cgs.handled
                            THEN DesiredCGS.handled ELSE cgs.handled
          /\ cgs'.rotatedAt = IF DesiredCGS.rotatedAt # rec.cgs.rotatedAt
                              THEN DesiredCGS.rotatedAt ELSE cgs.rotatedAt
      BY <2>2, <3>1 DEF MergePatch
    <3>3. cgs' = [exists |-> cgs'.exists, dying |-> cgs'.dying, fin |-> cgs'.fin,
                  hash |-> cgs'.hash, handled |-> cgs'.handled, rotatedAt |-> cgs'.rotatedAt]
      BY <2>2, <3>1 DEF MergePatch
    <3>4. cgs' \in CGS
      <4>1. /\ cgs'.exists \in BOOLEAN /\ cgs'.dying \in BOOLEAN /\ cgs'.fin \in BOOLEAN
            /\ cgs'.hash \in Nat /\ cgs'.handled \in Time /\ cgs'.rotatedAt \in Time
        BY <1>1, <1>2, <3>2 DEF CGS
      <4> QED BY <3>3, <4>1 DEF CGS
    <3> QED BY <1>1, <1>2, <1>4, <2>1, <3>2, <3>4 DEF reconcileCGS, inputs, rollout
  <2>3. CASE cgs' = Released /\ Released.exists
    <3>1. \/ Released = cgs
          \/ Released = [cgs EXCEPT !.fin = FALSE]
          \/ Released = NoCGS
      BY DEF Released
    <3>2. Released # NoCGS
      BY <2>3, IdleType
    <3>3. /\ cgs' \in CGS /\ cgs'.exists /\ cgs'.handled = cgs.handled
          /\ cgs'.rotatedAt = cgs.rotatedAt
      BY <1>1, <2>3, <3>1, <3>2 DEF CGS
    <3> QED BY <1>1, <1>4, <2>1, <3>3 DEF reconcileCGS, inputs, rollout
  <2>4. CASE cgs' = DesiredCGS /\ ~Released.exists
    <3>1. cgs.dying \/ ~cgs.fin
      <4> SUFFICES ASSUME cgs.fin, ~cgs.dying PROVE Released.exists
        BY <2>4
      <4>1. cgs.exists /\ Released \in {cgs, [cgs EXCEPT !.fin = FALSE]}
        BY DEF Released
      <4> QED BY <1>1, <4>1 DEF CGS
    <3> QED BY <1>1, <1>2, <1>4, <2>1, <2>4, <3>1 DEF reconcileCGS, inputs, rollout
  <2> QED BY <1>4, <2>2, <2>3, <2>4
<1> QED BY <1>3, <1>4 DEF reconcileCGS

LEMMA ReplaceType ==
    ASSUME TypeOK, ReplacementFails, cgs.fin => cgs.exists
    PROVE  /\ rec' = Idle /\ rec' \in Record /\ due' \in Time /\ cgs' \in CGS
           /\ used' \in [requests : Nat, edits : Nat, deletes : Nat, faults : Nat]
           /\ UNCHANGED <<now, enabled, requestedAt, token, applied, rolledOut, seen, hist>>
           /\ cgs'.handled = 0 /\ cgs'.rotatedAt = 0 /\ (cgs'.fin => cgs'.exists)
           /\ cgs.dying \/ ~cgs.fin
<1>1. cgs \in CGS /\ used \in [requests : Nat, edits : Nat, deletes : Nat, faults : Nat]
  BY DEF TypeOK
<1>2. rec' = Idle /\ rec' \in Record /\ due' \in Time
  BY FailedType DEF ReplacementFails
<1>3. cgs' = NoCGS \/ cgs' = [NoCGS EXCEPT !.exists = TRUE, !.fin = TRUE]
  BY DEF ReplacementFails
<1>4. cgs' \in CGS /\ cgs'.handled = 0 /\ cgs'.rotatedAt = 0 /\ (cgs'.fin => cgs'.exists)
  <2>1. CASE cgs' = NoCGS
    BY <2>1, IdleType
  <2>2. CASE cgs' = [NoCGS EXCEPT !.exists = TRUE, !.fin = TRUE]
    BY <2>2, IdleType DEF CGS
  <2> QED BY <1>3, <2>1, <2>2
<1>5. used' \in [requests : Nat, edits : Nat, deletes : Nat, faults : Nat]
  BY <1>1 DEF ReplacementFails
<1>6. cgs.dying \/ ~cgs.fin
  <2> SUFFICES ASSUME cgs.fin, ~cgs.dying PROVE Released.exists
    BY DEF ReplacementFails
  <2>1. cgs.exists /\ Released \in {cgs, [cgs EXCEPT !.fin = FALSE]}
    BY DEF Released
  <2> QED BY <1>1, <2>1 DEF CGS
<1> QED BY <1>2, <1>4, <1>5, <1>6 DEF ReplacementFails, inputs, rollout

LEMMA FinishType ==
    ASSUME TypeOK, FinishReconcile
    PROVE  /\ rec.pc = "requeue" /\ rec' = Idle /\ rec' \in Record /\ due' \in Time
           /\ UNCHANGED <<now, enabled, requestedAt, token, applied, rolledOut, cgs, seen,
                          hist, used>>
<1>1. rec.nextTrigger \in Nat /\ now \in 0..MaxTime /\ due \in Time
  <2>1. rec.nextTrigger \in Triggers \cup {0} /\ now \in 0..MaxTime /\ due \in Time
    BY DEF TypeOK, Record
  <2>2. Triggers \cup {0} \subseteq Nat
    OBVIOUS
  <2> QED BY <2>1, <2>2
<1>2. AddAfter(computeRequeueAfter) \in Time
  BY <1>1, RequeueType, AddAfterType
<1> QED BY <1>1, <1>2, IdleType DEF FinishReconcile, inputs, rollout

\* A user deletes the CGS.
LEMMA DeleteType ==
    ASSUME TypeOK, DeleteCGS, cgs.fin => cgs.exists
    PROVE  /\ cgs' \in CGS /\ (cgs'.fin => cgs'.exists)
           /\ used' \in [requests : Nat, edits : Nat, deletes : Nat, faults : Nat]
           /\ UNCHANGED <<now, enabled, requestedAt, token, applied, rolledOut, seen, due, rec,
                          hist>>
           /\ \/ cgs'.handled = cgs.handled /\ cgs'.rotatedAt = cgs.rotatedAt
              \/ cgs'.handled = 0 /\ cgs'.rotatedAt = 0 /\ ~cgs.fin
<1>1. cgs \in CGS /\ used \in [requests : Nat, edits : Nat, deletes : Nat, faults : Nat]
  BY DEF TypeOK
<1>0. used' \in [requests : Nat, edits : Nat, deletes : Nat, faults : Nat]
  BY <1>1 DEF DeleteCGS
<1>2. CASE cgs.fin /\ cgs' = [cgs EXCEPT !.dying = TRUE]
  <2>1. /\ cgs' \in CGS /\ cgs'.exists = cgs.exists
        /\ cgs'.handled = cgs.handled /\ cgs'.rotatedAt = cgs.rotatedAt
    BY <1>1, <1>2 DEF CGS
  <2> QED BY <1>0, <1>2, <2>1 DEF DeleteCGS, inputs, rollout
<1>3. CASE ~cgs.fin /\ cgs' = NoCGS
  BY <1>0, <1>3, IdleType DEF DeleteCGS, inputs, rollout
<1> QED BY <1>2, <1>3 DEF DeleteCGS

LEMMA TypeStep == TypeOK /\ (cgs.fin => cgs.exists) /\ [Next]_vars => TypeOK'
<1> SUFFICES ASSUME TypeOK, cgs.fin => cgs.exists, [Next]_vars PROVE TypeOK'
  OBVIOUS
<1>0. /\ now \in 0..MaxTime /\ requestedAt \in Time /\ due \in Time /\ enabled \in BOOLEAN
      /\ token \in Nat /\ applied \in Nat /\ rolledOut \in Nat
      /\ cgs \in CGS /\ seen \in CGS /\ rec \in Record /\ hist \in Seq(Rotation)
      /\ used \in [requests : Nat, edits : Nat, deletes : Nat, faults : Nat]
      /\ AddAfter(0) \in Time
  BY AddAfterType DEF TypeOK
<1>1. CASE Tick
  BY <1>0, <1>1 DEF Tick, TypeOK, inputs, rollout
<1>2. CASE RequestRotation
  <2>0. now < MaxTime /\ now' = now + 1 /\ requestedAt' = now'
    BY <1>2 DEF RequestRotation
  <2>1. now' \in 0..MaxTime /\ now' = now + 1 /\ requestedAt' = now' /\ now' \in Time
    <3>1. now \in 0..MaxTime
      BY <1>0
    <3>2. now' \in 0..MaxTime
      BY <2>0, <3>1
    <3> QED BY <2>0, <3>2 DEF Time
  <2>2. due' \in Time
    BY <1>0, <1>2, <2>1 DEF RequestRotation
  <2> QED BY <1>0, <1>2, <2>1, <2>2 DEF RequestRotation, TypeOK, rollout
<1>3. CASE EnableRotation
  BY <1>0, <1>3 DEF EnableRotation, TypeOK, rollout
<1>4. CASE DeleteCGS
  BY <1>0, <1>4, DeleteType DEF TypeOK
<1>5. CASE StartReconcile
  BY <1>0, <1>5, StartType DEF TypeOK
<1>6. CASE maybeRotateToken
  BY <1>0, <1>6, DecideType DEF TypeOK
<1>7. CASE RotateTunnelSecret
  BY <1>0, <1>7, RotateType DEF TypeOK
<1>8. CASE StampRotation
  BY <1>0, <1>8, StampType DEF TypeOK
<1>9. CASE patchCGSTokenHash
  BY <1>0, <1>9, AnnounceType DEF TypeOK
<1>10. CASE ApplyDeployments
  BY <1>0, <1>10, ApplyType DEF TypeOK
<1>11. CASE reconcileCGS
  BY <1>0, <1>11, RecordType DEF TypeOK
<1>12. CASE FinishReconcile
  BY <1>0, <1>12, FinishType DEF TypeOK
<1>13. CASE ReplacementFails
  BY <1>0, <1>13, ReplaceType DEF TypeOK
<1>14. CASE Abort
  <2>1. rec' \in Record /\ due' \in Time
    BY <1>14, FailedType DEF Abort
  <2> QED BY <1>0, <1>14, <2>1 DEF Abort, TypeOK, inputs, rollout
<1>15. CASE FinishRollout
  BY <1>0, <1>15 DEF FinishRollout, TypeOK, inputs
<1>16. CASE SyncCGS
  BY <1>0, <1>16 DEF SyncCGS, TypeOK, inputs, rollout
<1>17. CASE UNCHANGED vars
  BY <1>0, <1>17 DEF vars, TypeOK
<1> QED BY <1>1, <1>2, <1>3, <1>4, <1>5, <1>6, <1>7, <1>8, <1>9, <1>10, <1>11, <1>12, <1>13,
           <1>14, <1>15, <1>16, <1>17 DEF Next, Reconcile

-----------------------------------------------------------------------------
(* Times.                                                                  *)

\* No step makes a new rotation time but the one that stamps a rotation, or
\* the decision that seeds a baseline instead of rotating.
LEMMA StampsNext ==
    ASSUME TypeOK, cgs.fin => cgs.exists, [Next]_vars
    PROVE  /\ cgs'.fin => cgs'.exists
           /\ \A v \in Stamps' :
                \/ v \in Stamps \/ v = 0
                \/ /\ v = RFC3339(now) /\ now' = now
                   /\ StampRotation \/ (maybeRotateToken /\ rec'.pc = "announce")
<1> DEFINE New(v) == /\ v = RFC3339(now) /\ now' = now
                     /\ StampRotation \/ (maybeRotateToken /\ rec'.pc = "announce")
           Goal == (cgs'.fin => cgs'.exists) /\ \A v \in Stamps' : v \in Stamps \/ v = 0 \/ New(v)
<1>0. SUFFICES Goal
  OBVIOUS
<1>1. ASSUME UNCHANGED rec, UNCHANGED cgs \/ (cgs'.rotatedAt \in Stamps \cup {0} /\ (cgs'.fin => cgs'.exists)),
             seen' \in {seen, cgs}
      PROVE  Goal
  BY <1>1 DEF Stamps
<1>2. ASSUME rec' = Idle, cgs'.rotatedAt \in Stamps \cup {0}, cgs'.fin => cgs'.exists,
             UNCHANGED seen
      PROVE  Goal
  BY <1>2, IdleType DEF Stamps
<1>3. CASE Tick \/ RequestRotation \/ EnableRotation \/ FinishRollout \/ SyncCGS \/ UNCHANGED vars
  BY <1>1, <1>3 DEF Tick, RequestRotation, EnableRotation, FinishRollout, SyncCGS, vars
<1>4. CASE DeleteCGS
  BY <1>1, <1>4, DeleteType DEF Stamps
<1>5. CASE StartReconcile
  BY <1>5, StartType DEF Stamps
<1>6. CASE maybeRotateToken
  BY <1>6, DecideType DEF Stamps
<1>7. CASE RotateTunnelSecret
  BY <1>7, RotateType DEF Stamps
<1>8. CASE StampRotation
  BY <1>8, StampType DEF Stamps
<1>9. CASE patchCGSTokenHash
  BY <1>2, <1>9, AnnounceType, IdleType DEF Stamps
<1>10. CASE ApplyDeployments
  BY <1>10, ApplyType DEF Stamps
<1>11. CASE reconcileCGS
  <2>1. cgs'.rotatedAt \in Stamps \cup {0} /\ (cgs'.fin => cgs'.exists) /\ UNCHANGED seen
    BY <1>11, RecordType DEF Stamps
  <2>2. CASE rec' = Idle
    BY <1>2, <2>1, <2>2
  <2>3. CASE rec'.pc = "requeue" /\ rec'.cgs = rec.cgs
    BY <2>1, <2>3 DEF Stamps
  <2> QED BY <1>11, <2>2, <2>3, RecordType
<1>12. CASE FinishReconcile
  BY <1>2, <1>12, FinishType DEF Stamps
<1>13. CASE ReplacementFails
  BY <1>2, <1>13, ReplaceType
<1>14. CASE Abort
  BY <1>2, <1>14 DEF Abort, Failed, Stamps
<1> QED BY <1>3, <1>4, <1>5, <1>6, <1>7, <1>8, <1>9, <1>10, <1>11, <1>12, <1>13, <1>14
        DEF Next, Reconcile

LEMMA ClockStep == TypeOK /\ [Next]_vars => now' = now \/ (now' = now + 1 /\ UNCHANGED <<rec, cgs, seen, hist>>)
BY StartType, DecideType, RotateType, StampType, AnnounceType, ApplyType, FinishType
   DEF Next, Reconcile, Tick, RequestRotation, EnableRotation, DeleteCGS, reconcileCGS,
       ReplacementFails, Abort, FinishRollout, SyncCGS, vars

LEMMA RecordStep == TypeOK /\ RecordInv /\ [Next]_vars => RecordInv'
<1> SUFFICES ASSUME TypeOK, RecordInv, [Next]_vars PROVE RecordInv'
  OBVIOUS
<1>0. /\ cgs.fin => cgs.exists
      /\ \A v \in Stamps : v <= RFC3339(now)
      /\ rec.pc \in {"announce", "apply", "cgs"} /\ rec.lastRotatedAt # 0 =>
            cgs.rotatedAt <= rec.lastRotatedAt
  BY DEF RecordInv
<1>1. now \in Nat /\ now' \in Nat /\ now <= now' /\ rec \in Record /\ cgs \in CGS /\ seen \in CGS
  BY ClockStep DEF TypeOK
<1>2. RFC3339(now) \in Nat /\ RFC3339(now') \in Nat /\ RFC3339(now) <= RFC3339(now')
  BY <1>1, StampMonotone
<1>3. Stamps \subseteq Nat
  BY <1>1 DEF Stamps, Record, CGS, Time
<1>4. (cgs'.fin => cgs'.exists) /\ \A v \in Stamps' : v <= RFC3339(now')
  <2>1. (cgs'.fin => cgs'.exists) /\ \A v \in Stamps' : v \in Stamps \/ v = 0 \/ v = RFC3339(now)
    BY <1>0, StampsNext
  <2>2. ASSUME NEW v \in Stamps' PROVE v <= RFC3339(now')
    <3>1. CASE v \in Stamps
      <4>1. v \in Nat /\ v <= RFC3339(now)
        BY <1>0, <1>3, <3>1
      <4> QED BY <1>2, <4>1
    <3> QED BY <1>2, <2>1, <2>2, <3>1
  <2> QED BY <2>1, <2>2
<1>5. RFC3339(now)' = RFC3339(now')
  BY DEF RFC3339
<1>6. ASSUME rec'.pc \in {"announce", "apply", "cgs"}, rec'.lastRotatedAt # 0
      PROVE  cgs'.rotatedAt <= rec'.lastRotatedAt
  <2>0. cgs.rotatedAt <= RFC3339(now) /\ 0 <= rec.lastRotatedAt
    BY <1>0, <1>1 DEF Stamps, Record, Time
  <2>1. CASE maybeRotateToken
    BY <1>6, <2>0, <2>1, DecideType
  <2>2. CASE StampRotation
    BY <2>0, <2>2, StampType
  <2>3. CASE patchCGSTokenHash
    BY <1>0, <1>6, <2>3, AnnounceType, IdleType
  <2>4. CASE ApplyDeployments
    BY <1>0, <1>6, <2>4, ApplyType
  <2>5. CASE DeleteCGS
    BY <1>0, <1>6, <2>0, <2>5, DeleteType
  <2>6. CASE UNCHANGED <<rec, cgs>>
    BY <1>0, <1>6, <2>6
  <2>7. CASE StartReconcile \/ RotateTunnelSecret \/ FinishReconcile \/ reconcileCGS
             \/ ReplacementFails \/ Abort
    BY <1>0, <1>6, <2>7, StartType, RotateType, FinishType, RecordType, ReplaceType, IdleType
       DEF Abort, Failed
  <2> QED BY <2>1, <2>2, <2>3, <2>4, <2>5, <2>6, <2>7
          DEF Next, Reconcile, Tick, RequestRotation, EnableRotation, FinishRollout, SyncCGS, vars
<1> QED BY <1>4, <1>5, <1>6 DEF RecordInv

LEMMA InitRotation == Init => TypeOK /\ RecordInv /\ RequestInv
<1> SUFFICES ASSUME Init PROVE TypeOK /\ RecordInv /\ RequestInv
  OBVIOUS
<1>1. TypeOK
  BY IdleType DEF Init, TypeOK, Time
<1>2. RFC3339(now) \in Nat /\ now \in Nat
  BY StampMonotone DEF Init
<1>3. Stamps = {0} /\ cgs = NoCGS /\ seen = NoCGS /\ rec = Idle /\ requestedAt = 0
  BY IdleType DEF Init, Stamps
<1>4. RecordInv
  BY <1>2, <1>3, IdleType DEF RecordInv
<1>5. RequestInv
  BY <1>2, <1>3, IdleType DEF RequestInv, Rotated
<1> QED BY <1>1, <1>4, <1>5

\* Every reachable state is well typed, and no rotation time is in the future
\* or later than the one being recorded.
THEOREM TimesInvariant == Spec => [](TypeOK /\ RecordInv)
<1>1. RecordInv => (cgs.fin => cgs.exists)
  BY DEF RecordInv
<1> QED BY <1>1, InitRotation, TypeStep, RecordStep, PTL DEF Spec

\* The recorded rotation time never moves back while the controller holds the
\* CGS, however old the copy a reconcile works with.
THEOREM RotationTimeMonotone == Spec => RotatedAtMonotone
<1>1. TypeOK /\ RecordInv /\ [Next]_vars =>
        [cgs.dying \/ ~cgs.fin \/ cgs'.rotatedAt >= cgs.rotatedAt]_vars
  <2> SUFFICES ASSUME TypeOK, RecordInv, Next, ~cgs.dying, cgs.fin
               PROVE  cgs'.rotatedAt >= cgs.rotatedAt
    OBVIOUS
  <2>0. cgs.rotatedAt \in Nat /\ rec.lastRotatedAt \in Nat /\ (cgs.fin => cgs.exists)
    BY DEF TypeOK, RecordInv, CGS, Record, Time
  <2>1. CASE DeleteCGS
    BY <2>0, <2>1, DeleteType
  <2>2. CASE patchCGSTokenHash
    BY <2>0, <2>2, AnnounceType
  <2>3. CASE reconcileCGS
    BY <2>0, <2>3, RecordType DEF RecordInv
  <2>4. CASE ReplacementFails
    BY <2>0, <2>4, ReplaceType
  <2>5. CASE UNCHANGED cgs
    BY <2>0, <2>5
  <2> QED BY <2>1, <2>2, <2>3, <2>4, <2>5, StartType, DecideType, RotateType, StampType,
             ApplyType, FinishType
          DEF Next, Reconcile, Tick, RequestRotation, EnableRotation, Abort, FinishRollout, SyncCGS
<1> QED BY <1>1, TimesInvariant, PTL DEF Spec, RotatedAtMonotone

-----------------------------------------------------------------------------
(* Requests.  The Gateway is read and the decision made at one moment, and *)
(* Cloudflare answers a rotation within the clock's resolution: a request  *)
(* that falls into one of these steps may be taken for served.             *)

\* Rotations stay in the history.
LEMMA HistoryGrows ==
    ASSUME TypeOK, [Next]_vars
    PROVE  \A r : Rotated(r) => (r # 0 => \E i \in DOMAIN hist' : hist'[i].at >= r)
<1>1. CASE UNCHANGED hist
  BY <1>1 DEF Rotated
<1>2. CASE RotateTunnelSecret
  <2>1. /\ hist \in Seq(Rotation) /\ hist' \in Seq(Rotation) /\ Len(hist') = Len(hist) + 1
        /\ \A i \in DOMAIN hist : hist'[i] = hist[i]
    BY <1>2, RotateType DEF TypeOK
  <2>2. DOMAIN hist \subseteq DOMAIN hist'
    BY <2>1
  <2> QED BY <2>1, <2>2 DEF Rotated
<1> QED BY <1>1, <1>2, StartType, DecideType, StampType, AnnounceType, ApplyType, FinishType,
           RecordType, ReplaceType
        DEF Next, Reconcile, Tick, RequestRotation, EnableRotation, DeleteCGS, reconcileCGS,
            ReplacementFails, Abort, FinishRollout, SyncCGS, vars

\* A rotation serves every request made so far.
LEMMA RotationServes ==
    ASSUME TypeOK, RotateTunnelSecret
    PROVE  \A r \in Nat : r <= now => (r # 0 => \E i \in DOMAIN hist' : hist'[i].at >= r)
<1>1. /\ hist' \in Seq(Rotation) /\ Len(hist') = Len(hist) + 1 /\ hist \in Seq(Rotation)
      /\ hist'[Len(hist')].at = now
  BY RotateType DEF TypeOK
<1>2. Len(hist') \in DOMAIN hist'
  BY <1>1
<1> QED BY <1>1, <1>2 DEF TypeOK

\* A request that is not rotated for has been served.
LEMMA DecisionSound ==
    ASSUME TypeOK, RequestInv, rec.pc = "decide", ~OnDemand
    PROVE  Rotated(rec.req)
<1>1. CASE rec.req = 0
  BY <1>1 DEF Rotated
<1>2. CASE rec.req = rec.cgs.handled
  BY <1>2 DEF RequestInv
<1>3. CASE rec.req # 0 /\ rec.req # rec.cgs.handled
  <2>1. rec.cgs.rotatedAt \in Nat /\ rec.req \in Nat
    BY DEF TypeOK, Record, CGS, Time
  <2>2. rec.req <= rec.cgs.rotatedAt
    BY <1>3, <2>1 DEF OnDemand
  <2>3. rec.cgs.rotatedAt \in Stamps
    BY DEF Stamps
  <2> QED BY <2>2, <2>3 DEF RequestInv
<1> QED BY <1>1, <1>2, <1>3

\* Where the request of the reconcile in progress comes from.
LEMMA ReconcileNext ==
    ASSUME TypeOK, cgs.fin => cgs.exists, [Next]_vars
    PROVE  \/ UNCHANGED rec
           \/ rec' = Idle
           \/ StartReconcile /\ rec'.pc = "decide" /\ rec'.req = requestedAt
           \/ maybeRotateToken /\ rec.pc = "decide" /\ rec'.req = rec.req
                /\ (rec'.pc = "rotate" \/ (rec'.pc = "announce" /\ ~OnDemand))
           \/ RotateTunnelSecret /\ rec'.req = rec.req /\ rec'.pc = "stamp"
           \/ /\ rec'.req = rec.req
              /\ \/ rec.pc = "stamp" /\ rec'.pc = "announce"
                 \/ rec.pc = "announce" /\ rec'.pc = "apply"
                 \/ rec.pc = "apply" /\ rec'.pc = "cgs"
                 \/ rec.pc = "cgs" /\ rec'.pc = "requeue"
<1>1. CASE maybeRotateToken
  BY <1>1, DecideType
<1>2. CASE Abort
  BY <1>2 DEF Abort, Failed
<1> QED BY <1>1, <1>2, StartType, RotateType, StampType, AnnounceType, ApplyType, RecordType,
           ReplaceType, FinishType, DeleteType
        DEF Next, Reconcile, Tick, RequestRotation, EnableRotation, FinishRollout, SyncCGS, vars

\* A copy of the CGS never shows a request as handled that nobody handled.
LEMMA HandledNext ==
    ASSUME TypeOK, cgs.fin => cgs.exists, [Next]_vars
    PROVE  \A c \in {cgs', seen', rec'.cgs} :
               c.handled \in {0, cgs.handled, seen.handled, rec.cgs.handled}
                                \cup (IF rec.pc = "cgs" THEN {rec.req} ELSE {})
<1>1. CASE rec' = Idle /\ UNCHANGED <<cgs, seen>>
  BY <1>1, IdleType
<1>2. CASE UNCHANGED <<rec, cgs>> /\ seen' \in {seen, cgs}
  BY <1>2
<1>3. CASE StartReconcile
  BY <1>3, StartType
<1>4. CASE maybeRotateToken \/ RotateTunnelSecret \/ StampRotation \/ ApplyDeployments
  BY <1>4, DecideType, RotateType, StampType, ApplyType
<1>5. CASE patchCGSTokenHash
  BY <1>5, AnnounceType, IdleType
<1>6. CASE reconcileCGS
  BY <1>6, RecordType, IdleType
<1>7. CASE ReplacementFails
  BY <1>7, ReplaceType, IdleType
<1>8. CASE DeleteCGS
  BY <1>8, DeleteType
<1> QED BY <1>1, <1>2, <1>3, <1>4, <1>5, <1>6, <1>7, <1>8, FinishType
        DEF Next, Reconcile, Tick, RequestRotation, EnableRotation, Abort, Failed,
            FinishRollout, SyncCGS, vars

\* The newest request, after a step.
LEMMA RequestNext ==
    ASSUME TypeOK, [Next]_vars
    PROVE  \/ UNCHANGED requestedAt
           \/ /\ requestedAt' = now' /\ now' = now + 1 /\ rec.pc \in Slow
              /\ UNCHANGED <<rec, cgs, seen, hist>>
BY StartType, DecideType, RotateType, StampType, AnnounceType, ApplyType, FinishType
   DEF Next, Reconcile, Tick, RequestRotation, EnableRotation, DeleteCGS, reconcileCGS,
       ReplacementFails, Abort, FinishRollout, SyncCGS, vars, inputs

LEMMA RequestStep ==
    ASSUME "decide" \notin Slow, "stamp" \notin Slow
    PROVE  TypeOK /\ RecordInv /\ RequestInv /\ [Next]_vars => RequestInv'
<1> SUFFICES ASSUME TypeOK, RecordInv, RequestInv, [Next]_vars PROVE RequestInv'
  OBVIOUS
<1> DEFINE Served(r) == r # 0 => \E i \in DOMAIN hist' : hist'[i].at >= r
<1>0. /\ cgs.fin => cgs.exists
      /\ \A v \in Stamps : v <= RFC3339(now)
      /\ \A c \in {cgs, seen, rec.cgs} : Rotated(c.handled)
      /\ rec.req <= requestedAt /\ requestedAt <= now
      /\ \A r \in {requestedAt, rec.req}, v \in Stamps : r <= v => Rotated(r)
      /\ rec.pc = "decide" => rec.req = requestedAt
      /\ rec.pc = "stamp" => Rotated(requestedAt)
      /\ rec.pc \in {"stamp", "announce", "apply", "cgs"} => Rotated(rec.req)
  BY DEF RecordInv, RequestInv
<1>1. /\ now \in Nat /\ requestedAt \in Nat /\ rec.req \in Nat /\ Stamps \subseteq Nat
      /\ RFC3339(now) \in Nat /\ RFC3339(now) <= now
  <2>1. now \in Nat /\ requestedAt \in Nat /\ rec \in Record /\ cgs \in CGS /\ seen \in CGS
    BY DEF TypeOK, Time
  <2>2. rec.req \in Nat /\ Stamps \subseteq Nat
    BY <2>1 DEF Record, CGS, Time, Stamps
  <2>3. RFC3339(now) \in Nat /\ RFC3339(now) <= now
    BY <2>1, StampMonotone
  <2> QED BY <2>1, <2>2, <2>3
<1>2. \A r : Rotated(r) => Served(r)
  BY HistoryGrows
<1>3. Served(0)
  OBVIOUS
<1>4. RotateTunnelSecret => \A r \in Nat : r <= now => Served(r)
  BY RotationServes
<1>5. maybeRotateToken /\ rec'.pc = "announce" => rec.pc = "decide" /\ Rotated(rec.req)
  BY <1>0, DecideType, DecisionSound
<1> HIDE DEF Served
<1>6. \A c \in {cgs', seen', rec'.cgs} : Served(c.handled)
  BY <1>0, <1>2, <1>3, HandledNext
<1>7. /\ rec'.req \in {rec.req, requestedAt, 0}
      /\ rec'.pc \in {"stamp", "announce", "apply", "cgs"} => Served(rec'.req)
      /\ rec'.pc = "decide" => \/ UNCHANGED rec
                               \/ rec'.req = requestedAt /\ UNCHANGED requestedAt
      /\ rec'.pc = "stamp" => UNCHANGED rec \/ Served(requestedAt)
  BY <1>0, <1>1, <1>2, <1>4, <1>5, IdleType, ReconcileNext, StartType, DecideType, RotateType
<1>8. rec'.req <= requestedAt' /\ requestedAt' <= now'
  BY <1>0, <1>1, <1>7, RequestNext, ClockStep
<1>9. ASSUME NEW v \in Stamps', NEW r \in {requestedAt', rec'.req}, r <= v
      PROVE  Served(r)
  <2>1. \/ v \in Stamps
        \/ v = 0
        \/ /\ v = RFC3339(now)
           /\ StampRotation \/ (maybeRotateToken /\ rec'.pc = "announce")
    BY <1>0, StampsNext
  <2>2. v \in Nat /\ v <= now
    <3>1. v \in Stamps => v <= RFC3339(now) /\ v \in Nat
      BY <1>0, <1>1
    <3> QED BY <1>1, <2>1, <3>1
  <2>3. r \in {requestedAt, rec.req, 0}
    BY <1>1, <1>7, <1>9, <2>2, RequestNext
  <2>4. CASE v \in Stamps
    BY <1>0, <1>2, <1>3, <1>9, <2>3, <2>4
  <2>5. CASE v = 0
    BY <1>1, <1>3, <1>9, <2>3, <2>5
  <2>6. CASE StampRotation
    <3>1. rec.pc = "stamp"
      BY <2>6 DEF StampRotation
    <3> QED BY <1>0, <1>2, <1>3, <2>3, <3>1
  <2>7. CASE maybeRotateToken /\ rec'.pc = "announce"
    BY <1>0, <1>2, <1>3, <1>5, <2>3, <2>7
  <2> QED BY <2>1, <2>4, <2>5, <2>6, <2>7
<1>10. rec'.pc = "decide" => rec'.req = requestedAt'
  BY <1>0, <1>7, RequestNext
<1>11. rec'.pc = "stamp" => Served(requestedAt')
  BY <1>0, <1>2, <1>7, RequestNext
<1> QED BY <1>6, <1>7, <1>8, <1>9, <1>10, <1>11 DEF RequestInv, Rotated, Served

\* An acknowledged request was followed by a rotation, whatever copies of the
\* CGS the reconciles work with and whoever deletes it.
THEOREM RequestRotated ==
    ASSUME "decide" \notin Slow, "stamp" \notin Slow
    PROVE  Spec => []HandledMeansRotated
<1>1. RequestInv => HandledMeansRotated
  BY DEF RequestInv, Rotated, HandledMeansRotated
<1> QED BY <1>1, InitRotation, TimesInvariant, RequestStep, PTL DEF Spec

-----------------------------------------------------------------------------
(* Causes.  Only while every reconcile knows the CGS, or nobody deletes    *)
(* it, does a rotation that was recorded stay recorded.                    *)

\* A CGS that is deleted lives on until a reconcile replaces it.
LEMMA DeleteExact ==
    ASSUME TypeOK, CopyInv, DeleteCGS
    PROVE  /\ cgs'.exists /\ cgs'.fin /\ cgs'.dying /\ cgs'.rotatedAt = cgs.rotatedAt
           /\ used'.deletes = used.deletes + 1 /\ used'.faults = used.faults
           /\ UNCHANGED <<now, requestedAt, seen, rec, hist>>
<1>1. cgs \in CGS /\ used \in [requests : Nat, edits : Nat, deletes : Nat, faults : Nat]
      /\ cgs.exists /\ cgs.fin
  BY DEF TypeOK, CopyInv, DeleteCGS
<1>2. cgs' = [cgs EXCEPT !.dying = TRUE] /\ used' = [used EXCEPT !.deletes = @ + 1]
  BY <1>1 DEF DeleteCGS
<1> QED BY <1>1, <1>2 DEF CGS, DeleteCGS, inputs

\* The copy a reconcile starts with.
LEMMA StartExact ==
    ASSUME TypeOK, StartReconcile
    PROVE  /\ rec'.pc = "decide" /\ rec'.req = requestedAt
           /\ CacheLag => rec'.cgs = seen
           /\ ~CacheLag => rec'.cgs = cgs
           /\ UNCHANGED <<now, requestedAt, cgs, seen, hist, used>>
<1>1. rec' = [Idle EXCEPT !.pc = "decide", !.req = requestedAt, !.enabled = enabled,
                          !.cgs = IF CacheLag THEN seen ELSE cgs]
  BY DEF StartReconcile
<1> QED BY <1>1 DEF Idle, StartReconcile, inputs

\* It rotates for what its copy shows no rotation for.
LEMMA DecideExact ==
    ASSUME TypeOK, rec.req <= now, maybeRotateToken, rec'.pc = "rotate"
    PROVE  /\ rec.cgs.rotatedAt < rec'.cause.at /\ rec'.cause.at <= now
           /\ rec.req # 0 \/ rec.cgs.rotatedAt # 0
<1>1. /\ rec \in Record /\ now \in Nat /\ rec.req \in Nat /\ rec.cgs.rotatedAt \in Nat
      /\ PrevTrigger(now) \in 0..now
  BY TriggerType DEF TypeOK, Record, CGS, Time
<1>2. rec'.cause = IF OnDemand THEN [kind |-> "request", at |-> rec.req]
                   ELSE IF Scheduled THEN [kind |-> "cron", at |-> PrevTrigger(now)]
                   ELSE NoCause
  BY <1>1 DEF maybeRotateToken, Record
<1>3. OnDemand \/ Scheduled
  BY DecideType
<1>4. CASE OnDemand
  <2>1. rec'.cause.at = rec.req
    BY <1>2, <1>4
  <2> QED BY <1>1, <1>4, <2>1 DEF OnDemand
<1>5. CASE ~OnDemand /\ Scheduled
  <2>1. rec'.cause.at = PrevTrigger(now)
    BY <1>2, <1>5
  <2> QED BY <1>1, <1>5, <2>1 DEF Scheduled
<1> QED BY <1>3, <1>4, <1>5

\* The history after a rotation.
LEMMA RotateExact ==
    ASSUME TypeOK, RotateTunnelSecret
    PROVE  /\ hist' = Append(hist, [cause |-> rec.cause, at |-> now, stale |-> rec.cgs # cgs])
           /\ rec'.pc = "stamp" /\ rec'.req = rec.req /\ rec'.cgs = rec.cgs
           /\ UNCHANGED <<now, requestedAt, cgs, seen, used>>
<1>1. rec \in Record
  BY DEF TypeOK
<1> QED BY <1>1 DEF RotateTunnelSecret, Record, inputs

\* The patch of the hash succeeds; the copy is the live CGS then.
LEMMA AnnounceExact ==
    ASSUME TypeOK, CopyInv, patchCGSTokenHash
    PROVE  /\ rec'.pc = "apply" /\ rec'.req = rec.req
           /\ rec'.lastRotatedAt = rec.lastRotatedAt
           /\ cgs'.exists = cgs.exists /\ cgs'.fin = cgs.fin /\ cgs'.dying = cgs.dying
           /\ cgs'.rotatedAt = cgs.rotatedAt
           /\ rec'.cgs = rec.cgs \/ (rec'.cgs = cgs' /\ rec.cgs.exists /\ cgs.exists)
           /\ cgs'.hash # 0 => cgs'.exists
           /\ UNCHANGED <<now, requestedAt, seen, hist, used>>
<1> DEFINE patch == rec.lastRotatedAt # 0 /\ rec.cgs.exists /\ ~rec.cgs.dying
                        /\ rec.cgs.hash # token
<1>1. ~(patch /\ ~cgs.exists)
  BY DEF CopyInv
<1>2. rec' = [rec EXCEPT !.pc = "apply", !.cgs = IF patch THEN cgs' ELSE rec.cgs]
  BY <1>1 DEF patchCGSTokenHash
<1>3. rec'.pc = "apply" /\ rec'.req = rec.req /\ rec'.lastRotatedAt = rec.lastRotatedAt
      /\ rec'.cgs = IF patch THEN cgs' ELSE rec.cgs
  BY <1>2 DEF TypeOK, Record
<1>4. cgs'.hash # 0 => cgs'.exists
  <2>1. cgs.hash # 0 => cgs.exists
    BY DEF CopyInv
  <2>2. cgs' = IF patch THEN [cgs EXCEPT !.hash = token] ELSE cgs
    BY <1>1 DEF patchCGSTokenHash
  <2> QED BY <1>1, <2>1, <2>2, AnnounceType
<1> QED BY <1>1, <1>3, <1>4, AnnounceType

\* What reconcileCGS records.
LEMMA RecordExact ==
    ASSUME TypeOK, RecordInv, CopyInv, Reliable, reconcileCGS
    PROVE  /\ rec.pc = "cgs"
           /\ rec'.pc = "requeue" /\ rec'.req = rec.req /\ rec'.cgs = rec.cgs
           /\ cgs'.exists /\ cgs'.fin /\ cgs.rotatedAt <= cgs'.rotatedAt
           /\ used.deletes = 0 => ~cgs'.dying
           /\ (~CacheLag \/ rec.cgs.exists) /\ rec.lastRotatedAt # 0 =>
                rec.lastRotatedAt <= cgs'.rotatedAt
           /\ UNCHANGED <<now, requestedAt, seen, hist, used>>
<1>1. /\ rec.pc = "cgs" /\ rec \in Record /\ cgs \in CGS /\ rec.cgs \in CGS
      /\ rec.lastRotatedAt \in Nat /\ cgs.rotatedAt \in Nat /\ rec.cgs.rotatedAt \in Nat
      /\ rec.lastRotatedAt # 0 => cgs.rotatedAt <= rec.lastRotatedAt
      /\ UNCHANGED <<now, requestedAt, seen, hist, used>>
  BY DEF reconcileCGS, TypeOK, Record, CGS, Time, RecordInv, inputs
<1>2. /\ (cgs.fin <=> cgs.exists) /\ (rec.cgs.fin <=> rec.cgs.exists)
      /\ rec.cgs.exists => cgs.exists
      /\ ~cgs.exists => cgs.rotatedAt = 0
      /\ rec.cgs.rotatedAt <= cgs.rotatedAt
      /\ rec.cgs.dying => cgs.dying
      /\ ~CacheLag => (rec.cgs.exists <=> cgs.exists) /\ rec.cgs.rotatedAt = cgs.rotatedAt
      /\ used.deletes = 0 => ~cgs.dying /\ ~rec.cgs.dying
  BY <1>1, SwitchAssumption DEF CopyInv, Reliable
<1>3. /\ cgs' = IF ~Replaces THEN MergePatch(rec.cgs, DesiredCGS)
                ELSE IF Released.exists THEN Released ELSE DesiredCGS
      /\ rec' = [rec EXCEPT !.pc = "requeue"]
  BY <1>2 DEF reconcileCGS
<1>4. rec'.pc = "requeue" /\ rec'.req = rec.req /\ rec'.cgs = rec.cgs
  BY <1>1, <1>3 DEF Record
<1>5. /\ DesiredCGS.exists /\ DesiredCGS.fin /\ ~DesiredCGS.dying
      /\ DesiredCGS.rotatedAt = IF rec.lastRotatedAt # 0 THEN rec.lastRotatedAt
                                ELSE rec.cgs.rotatedAt
  BY DEF DesiredCGS, NoCGS
<1>6. CASE ~Replaces
  <2>1. DOMAIN cgs = {"exists", "dying", "fin", "hash", "handled", "rotatedAt"}
    BY <1>1 DEF CGS
  <2>2. /\ cgs'.exists = cgs.exists /\ cgs'.dying = cgs.dying /\ cgs'.fin = cgs.fin
        /\ cgs'.rotatedAt = IF DesiredCGS.rotatedAt # rec.cgs.rotatedAt
                            THEN DesiredCGS.rotatedAt ELSE cgs.rotatedAt
    BY <1>3, <1>6, <2>1 DEF MergePatch
  <2>3. rec.cgs.exists
    BY <1>6 DEF Replaces
  <2> QED BY <1>1, <1>2, <1>4, <1>5, <2>2, <2>3
<1>7. CASE Replaces /\ ~rec.cgs.exists
  <2>1. Released = cgs
    BY <1>2, <1>7 DEF Released
  <2> QED BY <1>1, <1>2, <1>3, <1>4, <1>5, <1>7, <2>1 DEF Reliable
<1>8. CASE Replaces /\ rec.cgs.exists
  <2>1. rec.cgs.dying /\ ~CacheLag
    BY <1>2, <1>8 DEF Replaces, Reliable
  <2>2. Released = NoCGS
    BY <1>2, <1>8, <2>1 DEF Released
  <2> QED BY <1>1, <1>2, <1>3, <1>4, <1>5, <1>8, <2>1, <2>2, IdleType
<1> QED BY <1>6, <1>7, <1>8

\* The replacement of a CGS that is gone, or goes, fails.
LEMMA ReplaceExact ==
    ASSUME TypeOK, CopyInv, ReplacementFails
    PROVE  /\ rec' = Idle
           /\ (cgs'.fin <=> cgs'.exists) /\ ~cgs'.dying /\ cgs'.rotatedAt = 0
           /\ used'.deletes = used.deletes /\ used'.faults = used.faults + 1
           /\ used.deletes = 0 => ~cgs.exists
           /\ UNCHANGED <<now, requestedAt, seen, hist>>
<1>1. cgs \in CGS /\ used \in [requests : Nat, edits : Nat, deletes : Nat, faults : Nat]
  BY DEF TypeOK
<1>2. (cgs'.fin <=> cgs'.exists) /\ ~cgs'.dying /\ cgs'.rotatedAt = 0
  <2>1. CASE cgs' = NoCGS
    BY <2>1, IdleType
  <2>2. CASE cgs' = [NoCGS EXCEPT !.exists = TRUE, !.fin = TRUE]
    BY <2>2 DEF NoCGS
  <2> QED BY <2>1, <2>2 DEF ReplacementFails
<1>3. used.deletes = 0 => ~cgs.exists
  <2> SUFFICES ASSUME used.deletes = 0, cgs.exists PROVE FALSE
    OBVIOUS
  <2>1. ~rec.cgs.dying /\ (rec.cgs.fin <=> rec.cgs.exists)
    BY DEF CopyInv
  <2>2. Released = cgs
    BY <2>1 DEF ReplacementFails, Replaces, Released
  <2> QED BY <2>2 DEF ReplacementFails
<1>4. rec' = Idle /\ used' = [used EXCEPT !.faults = @ + 1]
      /\ UNCHANGED <<now, requestedAt, seen, hist>>
  BY DEF ReplacementFails, Failed, inputs
<1> QED BY <1>1, <1>2, <1>3, <1>4

\* As long as nobody deletes the CGS, or no copy of it is old, a copy is only
\* behind.
LEMMA CopyStep ==
    ASSUME TypeOK, RecordInv, requestedAt <= now, CopyInv, Reliable, Reliable', [Next]_vars
    PROVE  CopyInv'
<1>0. /\ rec \in Record /\ cgs \in CGS /\ seen \in CGS /\ rec.cgs \in CGS
      /\ cgs.rotatedAt \in Nat /\ seen.rotatedAt \in Nat /\ rec.cgs.rotatedAt \in Nat
      /\ (cgs.fin <=> cgs.exists) /\ (seen.fin <=> seen.exists) /\ (rec.cgs.fin <=> rec.cgs.exists)
      /\ used \in [requests : Nat, edits : Nat, deletes : Nat, faults : Nat]
  BY DEF TypeOK, Record, CGS, Time, CopyInv
<1>1. ASSUME UNCHANGED <<requestedAt, rec, cgs, seen>>, used'.deletes = used.deletes
      PROVE  CopyInv'
  BY <1>1 DEF CopyInv
<1>2. CASE Tick \/ EnableRotation \/ FinishRollout \/ UNCHANGED vars
  BY <1>0, <1>1, <1>2 DEF Tick, EnableRotation, FinishRollout, vars, inputs
<1>3. CASE RequestRotation
  <2>1. UNCHANGED <<rec, cgs, seen>> /\ used'.deletes = used.deletes /\ cgs.hash # 0
    BY <1>0, <1>3 DEF RequestRotation
  <2>2. cgs.exists
    BY <2>1 DEF CopyInv
  <2> QED BY <2>1, <2>2 DEF CopyInv
<1>4. CASE DeleteCGS
  <2>1. /\ cgs'.exists /\ cgs'.fin /\ cgs'.dying /\ cgs'.rotatedAt = cgs.rotatedAt
        /\ used'.deletes # 0 /\ UNCHANGED <<requestedAt, seen, rec>>
        /\ cgs.exists
    BY <1>0, <1>4, DeleteExact DEF DeleteCGS
  <2>2. ~CacheLag
    BY <2>1 DEF Reliable
  <2>3. seen = NoCGS /\ ~NoCGS.dying /\ ~NoCGS.exists
    BY <2>2, IdleType DEF CopyInv
  <2> QED BY <1>0, <2>1, <2>2, <2>3 DEF CopyInv
<1>5. CASE StartReconcile
  BY <1>5, StartExact, SwitchAssumption DEF CopyInv
<1>6. CASE maybeRotateToken
  BY <1>6, DecideType DEF CopyInv
<1>7. CASE RotateTunnelSecret
  BY <1>7, RotateType DEF CopyInv
<1>8. CASE StampRotation
  BY <1>8, StampType DEF CopyInv
<1>9. CASE patchCGSTokenHash
  BY <1>0, <1>9, AnnounceExact, AnnounceType DEF CopyInv
<1>10. CASE ApplyDeployments
  BY <1>10, ApplyType DEF CopyInv
<1>11. CASE reconcileCGS
  <2>1. /\ rec'.pc = "requeue" /\ rec'.req = rec.req /\ rec'.cgs = rec.cgs
        /\ cgs'.exists /\ cgs'.fin /\ cgs.rotatedAt <= cgs'.rotatedAt /\ cgs'.rotatedAt \in Nat
        /\ cgs'.dying => used.deletes # 0
        /\ UNCHANGED <<requestedAt, seen, used>>
    BY <1>0, <1>11, RecordExact, RecordType DEF CGS, Time
  <2>2. \A c \in {seen, rec.cgs} : /\ (c.fin <=> c.exists) /\ (~c.exists => c.rotatedAt = 0)
                                   /\ c.rotatedAt \in Nat /\ c.rotatedAt <= cgs.rotatedAt
                                   /\ c.dying => used.deletes # 0
    BY <1>0 DEF CopyInv
  <2>3. \A c \in {cgs', seen', rec'.cgs} : c.rotatedAt <= cgs'.rotatedAt
    BY <1>0, <2>1, <2>2
  <2> QED BY <2>1, <2>2, <2>3 DEF CopyInv
<1>12. ASSUME rec' = Idle, UNCHANGED <<requestedAt, cgs, seen>>, used'.deletes = used.deletes
       PROVE  CopyInv'
  <2>1. rec'.cgs = NoCGS /\ rec'.pc = "idle" /\ rec'.req = 0
    BY <1>12, IdleType
  <2> QED BY <1>0, <1>12, <2>1, IdleType DEF CopyInv
<1>13. CASE FinishReconcile
  BY <1>12, <1>13, FinishType
<1>14. CASE ReplacementFails
  <2>1. /\ rec'.cgs = NoCGS /\ rec'.pc = "idle" /\ rec'.req = 0
        /\ (cgs'.fin <=> cgs'.exists) /\ ~cgs'.dying /\ cgs'.rotatedAt = 0
        /\ used'.deletes = used.deletes /\ UNCHANGED <<requestedAt, seen>>
        /\ used.deletes = 0 => ~cgs.exists
    BY <1>0, <1>14, ReplaceExact, IdleType
  <2>2. CacheLag => used.deletes = 0
    BY DEF Reliable
  <2>4. cgs'.hash # 0 => cgs'.exists
    <3>1. NoCGS.hash = 0
      BY DEF NoCGS
    <3>2. CASE cgs' = [NoCGS EXCEPT !.exists = TRUE, !.fin = TRUE]
      BY <3>2 DEF NoCGS
    <3> QED BY <1>14, <3>1, <3>2 DEF ReplacementFails
  <2>3. seen.rotatedAt = 0 /\ ~seen.exists /\ (seen.dying => used.deletes # 0)
    BY <1>0, <2>1, <2>2, IdleType DEF CopyInv
  <2> QED BY <1>0, <2>1, <2>3, <2>4, IdleType DEF CopyInv
<1>15. CASE Abort
  BY <1>0, <1>12, <1>15 DEF Abort, Failed, inputs
<1>16. CASE SyncCGS
  BY <1>0, <1>16 DEF SyncCGS, CopyInv, Reliable, inputs
<1> QED BY <1>2, <1>3, <1>4, <1>5, <1>6, <1>7, <1>8, <1>9, <1>10, <1>11, <1>13, <1>14, <1>15,
           <1>16 DEF Next, Reconcile

\* What a step does to the history and to the number of faults.
LEMMA HistoryNext ==
    ASSUME TypeOK, cgs.fin => cgs.exists, [Next]_vars
    PROVE  /\ used'.deletes \in Nat /\ used.deletes <= used'.deletes
           /\ \/ RotateTunnelSecret /\ UNCHANGED used
              \/ UNCHANGED hist /\ used'.faults = used.faults
              \/ /\ UNCHANGED hist /\ used'.faults = used.faults + 1
                 /\ Abort \/ ReplacementFails
<1>0. used \in [requests : Nat, edits : Nat, deletes : Nat, faults : Nat]
  BY DEF TypeOK
<1>1. CASE RequestRotation \/ EnableRotation \/ DeleteCGS
  BY <1>0, <1>1 DEF RequestRotation, EnableRotation, DeleteCGS
<1>2. CASE Abort \/ ReplacementFails
  BY <1>0, <1>2 DEF Abort, ReplacementFails
<1>3. CASE RotateTunnelSecret
  BY <1>0, <1>3, RotateType
<1> QED BY <1>0, <1>1, <1>2, <1>3, StartType, DecideType, StampType, AnnounceType, ApplyType,
           RecordType, FinishType
        DEF Next, Reconcile, Tick, FinishRollout, SyncCGS, vars

\* The times in the history, and how many rotations and causes there are.
LEMMA HistoryType ==
    ASSUME TypeOK
    PROVE  /\ DOMAIN hist = 1..Len(hist) /\ Len(hist) \in Nat /\ now \in Nat
           /\ \A i \in DOMAIN hist : hist[i].cause.at \in Nat /\ hist[i].at \in Nat
           /\ IsFiniteSet(Fresh) => Cardinality(Fresh) \in Nat
           /\ IsFiniteSet(Causes) => Cardinality(Causes) \in Nat
           /\ used.faults \in Nat
<1>1. hist \in Seq(Rotation) /\ now \in Nat
      /\ used \in [requests : Nat, edits : Nat, deletes : Nat, faults : Nat]
  BY DEF TypeOK
<1>2. \A i \in DOMAIN hist : hist[i].cause.at \in Nat /\ hist[i].at \in Nat
  <2> SUFFICES ASSUME NEW i \in DOMAIN hist
               PROVE  hist[i].cause.at \in Nat /\ hist[i].at \in Nat
    OBVIOUS
  <2>1. hist[i] \in Rotation
    BY <1>1
  <2> QED BY <2>1 DEF Rotation, Cause, Time
<1>3. used.faults \in Nat
  BY <1>1
<1>4. IsFiniteSet(Fresh) => Cardinality(Fresh) \in Nat
  BY FS_CardinalityType
<1>5. IsFiniteSet(Causes) => Cardinality(Causes) \in Nat
  BY FS_CardinalityType
<1>6. DOMAIN hist = 1..Len(hist) /\ Len(hist) \in Nat
  BY <1>1
<1> QED BY <1>1, <1>2, <1>3, <1>4, <1>5, <1>6

\* A rotation that is recorded, or will be.
Done(t) == t <= cgs.rotatedAt \/ Serves(t)

\* Unless a reconcile fails, what has been rotated for gets recorded.
LEMMA DoneNext ==
    ASSUME TypeOK, RecordInv, CopyInv, Reliable, [Next]_vars, UNCHANGED hist,
           used'.faults = used.faults, NEW t \in Nat, t <= RFC3339(now), Done(t)
    PROVE  Done(t)'
<1>0. /\ rec \in Record /\ rec.lastRotatedAt \in Nat /\ cgs.rotatedAt \in Nat
      /\ cgs.fin => cgs.exists
      /\ used.faults \in Nat /\ hist \in Seq(Rotation)
  BY DEF TypeOK, RecordInv, Record, CGS, Time
<1>1. CASE UNCHANGED <<rec, cgs>>
  BY <1>1 DEF Done, Serves
<1>2. ASSUME ~Serves(t), UNCHANGED cgs PROVE Done(t)'
  BY <1>2 DEF Done
<1>3. CASE DeleteCGS
  BY <1>3, DeleteExact DEF Done, Serves
<1>4. CASE StartReconcile
  BY <1>2, <1>4, StartType DEF Serves, StartReconcile
<1>5. CASE maybeRotateToken
  BY <1>2, <1>5, DecideType DEF Serves
<1>6. CASE StampRotation
  BY <1>6, StampType DEF Done, Serves
<1>7. CASE patchCGSTokenHash
  BY <1>7, AnnounceExact DEF Done, Serves, patchCGSTokenHash
<1>8. CASE ApplyDeployments
  BY <1>8, ApplyType DEF Done, Serves
<1>9. CASE reconcileCGS
  <2>1. /\ rec.pc = "cgs" /\ cgs.rotatedAt <= cgs'.rotatedAt /\ cgs'.rotatedAt \in Nat
        /\ (~CacheLag \/ rec.cgs.exists) /\ rec.lastRotatedAt # 0 =>
                rec.lastRotatedAt <= cgs'.rotatedAt
    BY <1>0, <1>9, RecordExact, RecordType DEF CGS, Time
  <2>2. t <= cgs'.rotatedAt
    BY <1>0, <2>1 DEF Done, Serves
  <2> QED BY <2>2 DEF Done
<1>10. CASE FinishReconcile
  BY <1>2, <1>10, FinishType DEF Serves
<1>11. ~RotateTunnelSecret
  BY <1>0, RotateType
<1>12. ~ReplacementFails /\ ~Abort
  BY <1>0 DEF TypeOK, ReplacementFails, Abort
<1> QED BY <1>1, <1>3, <1>4, <1>5, <1>6, <1>7, <1>8, <1>9, <1>10, <1>11, <1>12
        DEF Next, Reconcile, Tick, RequestRotation, EnableRotation, FinishRollout, SyncCGS, vars

\* The rotation that is decided on counts: it knows the current CGS, and will not
\* look older than its cause.
Counts == rec.cgs = cgs /\ rec.cause.at <= RFC3339(now)

\* What a rotation adds to the history.
LEMMA RotationAdds ==
    ASSUME TypeOK, RotateTunnelSecret
    PROVE  LET n == Len(hist) + 1 IN
           /\ DOMAIN hist' = DOMAIN hist \cup {n} /\ n \notin DOMAIN hist
           /\ \A i \in DOMAIN hist : hist'[i] = hist[i]
           /\ hist'[n].cause = rec.cause /\ hist'[n].at = now
           /\ ~Counts => Fresh' = Fresh /\ Causes' = Causes
           /\ Counts => /\ Fresh' = Fresh \cup {n}
                        /\ Causes' = Causes \cup {rec.cause}
<1> DEFINE n == Len(hist) + 1
           new == [cause |-> rec.cause, at |-> now, stale |-> rec.cgs # cgs]
<1>1. hist \in Seq(Rotation) /\ hist' = Append(hist, new) /\ DOMAIN hist = 1..Len(hist)
      /\ Len(hist) \in Nat
  BY RotateExact DEF TypeOK
<1>2. new \in Rotation
  BY DEF TypeOK, Record, Rotation, Time
<1>3. new.cause = rec.cause /\ new.at = now /\ (new.stale <=> rec.cgs # cgs)
  OBVIOUS
<1> HIDE DEF new
<1>4. /\ Len(hist') = n /\ DOMAIN hist' = 1..n
      /\ \A i \in DOMAIN hist : hist'[i] = hist[i]
      /\ hist'[n] = new
  BY <1>1, <1>2
<1>5. n \in Nat /\ DOMAIN hist' = DOMAIN hist \cup {n} /\ n \notin DOMAIN hist
  BY <1>1, <1>4
<1> HIDE DEF n
<1>6. Fresh \subseteq DOMAIN hist /\ (n \in Fresh' <=> Counts)
      /\ Fresh' \subseteq Fresh \cup {n} /\ Fresh \subseteq Fresh'
  BY <1>3, <1>4, <1>5 DEF Fresh, Counts, RFC3339
<1>7. CASE ~Counts
  <2>1. Fresh' = Fresh
    BY <1>5, <1>6, <1>7
  <2>2. Causes' = Causes
    BY <1>4, <1>6, <2>1 DEF Causes
  <2> QED BY <1>3, <1>4, <1>5, <1>7, <2>1, <2>2 DEF n
<1>8. CASE Counts
  <2>1. Fresh' = Fresh \cup {n}
    BY <1>6, <1>8
  <2>2. Causes' = Causes \cup {rec.cause}
    BY <1>3, <1>4, <1>6, <2>1 DEF Causes
  <2> QED BY <1>3, <1>4, <1>5, <1>8, <2>1, <2>2 DEF n
<1> QED BY <1>7, <1>8

\* A reconcile that knows the CGS rotates again for the same cause only if a
\* fault kept the first time from being recorded.
LEMMA RotationJustified ==
    ASSUME TypeOK, CauseInv, RotateTunnelSecret, Reliable
    PROVE  RotatedOncePerCause' /\ Accounted'
<1> DEFINE n == Len(hist) + 1
<1>1. /\ rec.pc = "rotate" /\ rec'.pc = "stamp" /\ rec'.cgs = rec.cgs
      /\ rec.cgs.rotatedAt < rec.cause.at /\ (rec.req # 0 \/ rec.cgs.rotatedAt # 0)
      /\ UNCHANGED <<cgs, used>>
      /\ rec.cgs.rotatedAt \in Nat /\ rec.cause.at \in Nat
  BY RotateExact, RotateType DEF CauseInv, TypeOK, Record, CGS, Cause, Time
<1>2. /\ IsFiniteSet(Fresh) /\ IsFiniteSet(Causes) /\ CopyInv
      /\ RotatedOncePerCause /\ Accounted
  BY DEF CauseInv
<1>3. /\ Cardinality(Fresh) \in Nat /\ Cardinality(Causes) \in Nat /\ used.faults \in Nat
      /\ Fresh \subseteq DOMAIN hist
  BY <1>2, HistoryType DEF Fresh
<1>4. CASE ~Counts
  <2>1. /\ Fresh' = Fresh /\ Causes' = Causes
        /\ \A i \in DOMAIN hist : hist'[i] = hist[i]
    BY <1>4, RotationAdds
  <2>2. CASE Excused
    BY <1>1, <1>2, <2>1, <2>2 DEF RotatedOncePerCause, Accounted, Excused
  <2>3. CASE \A i \in Fresh : hist[i].cause.at <= cgs.rotatedAt
    BY <1>1, <1>2, <1>3, <2>1, <2>3 DEF RotatedOncePerCause, Accounted
  <2> QED BY <1>1, <1>2, <2>2, <2>3 DEF Accounted, Serves
<1>5. CASE Counts
  <2>1. /\ Fresh' = Fresh \cup {n} /\ n \notin Fresh
        /\ Causes' = Causes \cup {rec.cause}
    BY <1>3, <1>5, RotationAdds
  <2>2. Cardinality(Fresh') = Cardinality(Fresh) + 1
    BY <1>2, <2>1, FS_AddElement
  <2>3. Cardinality(Fresh') <= Cardinality(Causes') + used.faults
    <3>1. CASE rec.cause \notin Causes
      <4>1. Cardinality(Causes') = Cardinality(Causes) + 1
        BY <1>2, <2>1, <3>1, FS_AddElement
      <4> QED BY <1>2, <1>3, <2>2, <4>1 DEF RotatedOncePerCause
    <3>2. CASE rec.cause \in Causes
      <4>1. Causes' = Causes
        BY <2>1, <3>2
      <4>2. PICK j \in Fresh : hist[j].cause = rec.cause
        BY <3>2 DEF Causes
      <4>3. ~(hist[j].cause.at <= cgs.rotatedAt) /\ ~Serves(hist[j].cause.at)
        BY <1>1, <1>5, <4>2 DEF Serves, Counts
      <4>4. Excused
        BY <1>2, <4>3 DEF Accounted
      <4> QED BY <1>3, <2>2, <4>1, <4>4 DEF Excused
    <3> QED BY <3>1, <3>2
  <2>4. ~CacheLag \/ rec.cgs.exists
    BY <1>1, <1>2, <1>5 DEF CopyInv, Reliable, Counts
  <2>5. Accounted'
    BY <1>1, <2>4 DEF Accounted, Serves
  <2> QED BY <1>1, <2>3, <2>5 DEF RotatedOncePerCause
<1> QED BY <1>4, <1>5

LEMMA CauseStep == TypeOK /\ RecordInv /\ CauseInv /\ [Next]_vars => CauseInv'
<1> SUFFICES ASSUME TypeOK, RecordInv, CauseInv, [Next]_vars PROVE CauseInv'
  OBVIOUS
<1>0. /\ cgs.fin => cgs.exists
      /\ IsFiniteSet(Fresh) /\ IsFiniteSet(Causes)
      /\ requestedAt <= now /\ rec.req <= now
      /\ \A i \in DOMAIN hist : hist[i].cause.at <= hist[i].at /\ hist[i].at <= now
      /\ rec.pc = "rotate" =>
            /\ rec.cgs.rotatedAt < rec.cause.at /\ rec.cause.at <= now
            /\ rec.req # 0 \/ rec.cgs.rotatedAt # 0
      /\ Reliable => CopyInv
      /\ Reliable => RotatedOncePerCause /\ Accounted
  BY DEF RecordInv, CauseInv
<1>1. /\ now \in Nat /\ requestedAt \in Nat /\ rec.req \in Nat /\ now' \in Nat
      /\ rec.cause.at \in Nat /\ rec.cgs.rotatedAt \in Nat
      /\ now <= now' /\ (now' = now \/ UNCHANGED rec)
  <2>1. now \in Nat /\ requestedAt \in Nat /\ rec \in Record
    BY DEF TypeOK, Time
  <2>2. rec.req \in Nat /\ rec.cause.at \in Nat /\ rec.cgs.rotatedAt \in Nat
    BY <2>1 DEF Time, Record, CGS, Cause
  <2> QED BY <2>1, <2>2, ClockStep
<1>2. /\ used'.deletes \in Nat /\ used.deletes <= used'.deletes /\ used.deletes \in Nat
      /\ \/ RotateTunnelSecret /\ UNCHANGED used
         \/ UNCHANGED hist /\ used'.faults = used.faults
         \/ UNCHANGED hist /\ used'.faults = used.faults + 1
  BY <1>0, HistoryNext DEF TypeOK
<1>3. UNCHANGED hist => Fresh' = Fresh /\ Causes' = Causes
  BY DEF Fresh, Causes, RFC3339
<1>4. IsFiniteSet(Fresh)' /\ IsFiniteSet(Causes)'
  <2>1. CASE RotateTunnelSecret /\ Counts
    BY <1>0, <2>1, RotationAdds, FS_AddElement
  <2>2. CASE RotateTunnelSecret /\ ~Counts
    BY <1>0, <2>2, RotationAdds
  <2> QED BY <1>0, <1>2, <1>3, <2>1, <2>2
<1>5. requestedAt' <= now' /\ rec'.req <= now'
  <2>1. rec'.req \in {rec.req, requestedAt, 0}
    BY <1>0, ReconcileNext, IdleType
  <2> QED BY <1>0, <1>1, <2>1, RequestNext
<1>6. \A i \in DOMAIN hist' : hist'[i].cause.at <= hist'[i].at /\ hist'[i].at <= now'
  <2>1. CASE UNCHANGED hist
    BY <1>0, <1>1, <2>1, HistoryType
  <2>2. CASE RotateTunnelSecret
    BY <1>0, <1>1, <2>2, RotationAdds, RotateType
  <2> QED BY <1>2, <2>1, <2>2
<1>7. ASSUME rec'.pc = "rotate"
      PROVE  /\ rec'.cgs.rotatedAt < rec'.cause.at /\ rec'.cause.at <= now'
             /\ rec'.req # 0 \/ rec'.cgs.rotatedAt # 0
  <2>1. CASE maybeRotateToken
    BY <1>0, <1>7, <2>1, DecideExact, DecideType
  <2>2. CASE UNCHANGED rec
    BY <1>0, <1>1, <1>7, <2>2
  <2> QED BY <1>0, <1>7, <2>1, <2>2, ReconcileNext, IdleType, StartType
<1>8. Reliable' => Reliable
  BY <1>2 DEF Reliable
<1>9. Reliable' => CopyInv'
  BY <1>0, <1>8, CopyStep
<1>10. ASSUME Reliable' PROVE RotatedOncePerCause' /\ Accounted'
  <2>1. Reliable /\ CopyInv /\ RotatedOncePerCause /\ Accounted
    BY <1>0, <1>8, <1>10
  <2>2. /\ Cardinality(Fresh) \in Nat /\ Cardinality(Causes) \in Nat /\ used.faults \in Nat
    BY <1>0, HistoryType
  <2>3. CASE RotateTunnelSecret
    BY <2>1, <2>3, RotationJustified
  <2>4. CASE UNCHANGED hist /\ used'.faults = used.faults + 1
    BY <1>3, <2>1, <2>2, <2>4 DEF RotatedOncePerCause, Accounted, Excused
  <2>5. CASE UNCHANGED hist /\ used'.faults = used.faults
    <3>1. RotatedOncePerCause'
      BY <1>3, <2>1, <2>5 DEF RotatedOncePerCause
    <3>2. CASE Excused
      BY <1>3, <2>5, <3>1, <3>2 DEF Accounted, Excused
    <3>3. CASE \A i \in Fresh : Done(hist[i].cause.at)
      <4>1. ASSUME NEW i \in Fresh PROVE Done(hist[i].cause.at)'
        <5> DEFINE t == hist[i].cause.at
        <5>1. i \in DOMAIN hist
          BY DEF Fresh
        <5>2. t \in Nat /\ t <= RFC3339(now)
          <6>1. /\ t \in Nat /\ hist[i].at \in Nat /\ hist[i].at <= now
                /\ t <= RFC3339(hist[i].at)
            BY <1>0, <2>1, <5>1, HistoryType DEF Fresh
          <6> HIDE DEF t
          <6> QED BY <1>1, <6>1, StampMonotone
        <5>3. Done(t)
          BY <3>3
        <5>4. PICK u \in Nat : u = t
          BY <5>2
        <5>5. Done(u)'
          BY <2>1, <2>5, <5>2, <5>3, <5>4, DoneNext
        <5>6. t' = u
          BY <2>5, <5>4
        <5> QED BY <5>5, <5>6
      <4> QED BY <1>3, <2>5, <3>1, <4>1 DEF Accounted, Done
    <3> QED BY <2>1, <3>1, <3>2, <3>3 DEF Accounted, Done
  <2> QED BY <1>2, <2>3, <2>4, <2>5
<1> QED BY <1>4, <1>5, <1>6, <1>7, <1>9, <1>10 DEF CauseInv

LEMMA InitCauses == Init => CauseInv
<1> SUFFICES ASSUME Init PROVE CauseInv
  OBVIOUS
<1>1. /\ now = PerSecond /\ requestedAt = 0 /\ hist = <<>> /\ DOMAIN hist = {}
      /\ rec = Idle /\ cgs = NoCGS /\ seen = NoCGS /\ used.faults = 0
  BY DEF Init
<1>2. Fresh = {} /\ Causes = {}
  BY <1>1 DEF Fresh, Causes
<1>3. IsFiniteSet(Fresh) /\ IsFiniteSet(Causes) /\ Cardinality(Fresh) = 0 /\ Cardinality(Causes) = 0
  BY <1>2, FS_EmptySet
<1>4. NoCGS.hash = 0
  BY DEF NoCGS
<1>5. CopyInv
  BY <1>1, <1>4, IdleType DEF CopyInv
<1>6. RotatedOncePerCause /\ Accounted
  BY <1>1, <1>2, <1>3 DEF RotatedOncePerCause, Accounted
<1> QED BY <1>1, <1>3, <1>5, <1>6, IdleType DEF CauseInv

\* While nobody deletes the CGS, or every reconcile reads the current one, it is
\* not rotated twice for a request or trigger without a fault in between, once the
\* second of the request is over.
THEOREM RotatedOnce == Spec => [](Reliable => RotatedOncePerCause)
<1>1. CauseInv => (Reliable => RotatedOncePerCause)
  BY DEF CauseInv, RotatedOncePerCause
<1> QED BY <1>1, InitCauses, TimesInvariant, CauseStep, PTL DEF Spec
=============================================================================
