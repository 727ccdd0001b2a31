----------------------- MODULE GatewayLifecycleProofs -----------------------
(***************************************************************************)
(* No Gateway leaks its tunnel, for any classes, kinds of objects, number  *)
(* of edits and faults, and however stale the caches are; and none leaves  *)
(* connectors, owners or finalizers behind if reads wait for the caches.   *)
(***************************************************************************)
EXTENDS GatewayLifecycle, TLAPS

USE ClassAssumption, LagAssumption, BoundAssumption, KindAssumption, UIDAssumption

PC == {"idle", "addFinalizer", "unpin", "pin", "ensureTunnel", "apply",
       "freeStatus", "createStatus", "patchStatus", "deleteDeployments",
       "wait", "deleteTunnel", "releaseStatus", "orphan", "release",
       "unpinAll", "removeFinalizer"}
Rec == [pc : PC, gw : GatewayRecord, cgs : Status, kinds : SUBSET Kind, classes : SUBSET Class]
Cache == [gw : GatewayRecord, obj : [CachedKind -> Object], cgs : Status]

\* The types of the Gateway's part of the state.
GatewayTypes ==
    /\ gw \in GatewayRecord
    /\ obj \in [Kind -> Object]
    /\ cgs \in Status
    /\ cache \in Cache
    /\ tunnel \in {0} \cup UID
    /\ source \in SUBSET Class
    /\ left \in SUBSET UID
    /\ queued \in BOOLEAN
    /\ rec \in Rec

LEMMA TypeParts == TypeOK <=> ClassTypeOK /\ GatewayTypes
BY DEF TypeOK, GatewayTypes, Rec, PC, Cache

\* The constant records have their types.
LEMMA ConstantTypes ==
    /\ \A u \in UID, c \in Class : NewGateway(u, c) \in GatewayRecord
    /\ \A u \in UID : OwnedBy(u) \in Object
    /\ NoObject \in Object
    /\ NoStatus \in Status
    /\ Idle \in Rec /\ Idle.pc = "idle"
    /\ NoClass \in ClassRecord /\ NewClass \in ClassRecord
<1>1. 1 \in UID
  BY DEF UID
<1>2. \A u \in UID, c \in Class : NewGateway(u, c) \in GatewayRecord
  BY DEF NewGateway, GatewayRecord
<1>3. NoStatus \in Status
  BY DEF NoStatus, Status
<1>4. Idle \in Rec /\ Idle.pc = "idle"
  <2>1. PICK c : c = CHOOSE x \in Ours : TRUE
    OBVIOUS
  <2>2. c \in Class
    BY <2>1
  <2>3. [NewGateway(1, c) EXCEPT !.phase = "absent"] \in GatewayRecord
    BY <1>1, <1>2, <2>2 DEF GatewayRecord
  <2> QED BY <2>1, <2>3, <1>3 DEF Idle, Rec, PC
<1> QED BY <1>2, <1>3, <1>4 DEF OwnedBy, Object, NoObject, NoClass, NewClass, ClassRecord

LEMMA InitTypes == Init => TypeOK
<1> SUFFICES ASSUME Init PROVE TypeOK
  OBVIOUS
<1>1. ClassTypeOK
  <2>1. [NewClass EXCEPT !.ready = TRUE] \in ClassRecord
    BY DEF NewClass, ClassRecord
  <2>2. class \in [Class -> ClassRecord]
    BY <2>1 DEF Init, ClassInit
  <2>3. classrec \in [class : SUBSET Class, ready : BOOLEAN]
    BY DEF Init, ClassInit, ClassIdle
  <2>4. used \in [edits : 0..MaxEdits, faults : 0..MaxFaults]
    BY DEF Init, ClassInit
  <2> QED BY <2>2, <2>3, <2>4 DEF Init, ClassInit, ClassTypeOK
<1>2. GatewayTypes
  <2>1. gw \in GatewayRecord
    <3>1. 1 \in UID
      BY DEF UID
    <3> QED BY <3>1, ConstantTypes DEF Init
  <2>2. obj \in [Kind -> Object] /\ cgs \in Status /\ rec \in Rec
    BY ConstantTypes DEF Init
  <2>3. cache \in Cache
    BY <2>1, <2>2 DEF Init, Current, Cache, CachedKind
  <2> QED BY <2>1, <2>2, <2>3 DEF Init, GatewayTypes
<1> QED BY <1>1, <1>2, TypeParts

\* The bounds are respected.
LEMMA UsedType ==
    ASSUME ClassTypeOK, Edit \/ Fault
    PROVE  used' \in [edits : 0..MaxEdits, faults : 0..MaxFaults]
BY DEF ClassTypeOK, Edit, Fault

\* The edits of classes and the steps of their controller.
LEMMA ClassTypes ==
    ASSUME ClassTypeOK,
           \/ EditClass \/ ClassController \/ FailClass
           \/ \E c \in Class : SeeClass(c)
    PROVE  ClassTypeOK'
<1>1. ASSUME NEW c \in Class, DeleteClass(c) \/ CreateClass(c)
      PROVE  ClassTypeOK'
  <2>1. class[c] \in ClassRecord
    BY DEF ClassTypeOK
  <2>2. [class[c] EXCEPT !.phase = "deleting"] \in ClassRecord
    BY <2>1 DEF ClassRecord
  <2>3. class' \in [Class -> ClassRecord]
    BY <1>1, <2>2, ConstantTypes DEF DeleteClass, CreateClass, ClassTypeOK
  <2> QED BY <1>1, <2>3, UsedType DEF DeleteClass, CreateClass, ClassTypeOK
<1>2. ASSUME NEW what \in {"crd", "secret"}, EditConfig(what)
      PROVE  ClassTypeOK'
  <2>1. config' \in [crd : BOOLEAN, secret : BOOLEAN]
    BY <1>2 DEF EditConfig, ClassTypeOK
  <2> QED BY <1>2, <2>1, UsedType DEF EditConfig, ClassTypeOK, managedGatewayClasses
<1>3. ASSUME NEW c \in Class, ReconcileClass(c)
      PROVE  ClassTypeOK'
  <2>1. classrec' \in [class : SUBSET Class, ready : BOOLEAN]
    BY <1>3 DEF ReconcileClass, ClassTypeOK, ClassIdle, Verdict
  <2> QED BY <1>3, <2>1 DEF ReconcileClass, ClassTypeOK
<1>4. ASSUME NEW c \in Class, NEW b \in BOOLEAN
      PROVE  [class EXCEPT ![c].ready = b] \in [Class -> ClassRecord]
  <2>1. class[c] \in ClassRecord
    BY DEF ClassTypeOK
  <2>2. [class[c] EXCEPT !.ready = b] \in ClassRecord
    BY <2>1 DEF ClassRecord
  <2> QED BY <2>2 DEF ClassTypeOK
<1>5. ASSUME PatchClass
      PROVE  ClassTypeOK'
  <2>1. classrec.ready \in BOOLEAN /\ classrec.class \subseteq Class
    BY DEF ClassTypeOK
  <2>2. class' \in [Class -> ClassRecord] /\ classq' \subseteq Class
    BY <1>5, <2>1, <1>4 DEF PatchClass, ClassTypeOK
  <2> QED BY <1>5, <2>2 DEF PatchClass, ClassTypeOK, ClassIdle
<1>6. ASSUME NEW c \in Class, FailRead(c)
      PROVE  ClassTypeOK'
  <2>1. class' = class \/ class' = [class EXCEPT ![c].ready = FALSE]
    BY <1>6 DEF FailRead
  <2>2. class' \in [Class -> ClassRecord]
    BY <2>1, <1>4 DEF ClassTypeOK
  <2> QED BY <1>6, <2>2, UsedType DEF FailRead, ClassTypeOK
<1>7. ASSUME FailPatch
      PROVE  ClassTypeOK'
  <2>1. classrec.class \subseteq Class
    BY DEF ClassTypeOK
  <2> QED BY <1>7, <2>1, UsedType DEF FailPatch, ClassTypeOK, ClassIdle
<1>8. ASSUME NEW c \in Class, SeeClass(c)
      PROVE  ClassTypeOK'
  BY <1>8 DEF SeeClass, ClassTypeOK
<1> QED BY <1>1, <1>2, <1>3, <1>5, <1>6, <1>7, <1>8 DEF EditClass, ClassController, FailClass

\* Records with one field changed.
LEMMA FieldTypes ==
    /\ \A g \in GatewayRecord : /\ [g EXCEPT !.fin = TRUE] \in GatewayRecord
                                /\ \A c \in Class : [g EXCEPT !.class = c] \in GatewayRecord
                                /\ [g EXCEPT !.disabled = ~@] \in GatewayRecord
                                /\ \A p \in {"absent", "live", "deleting"} :
                                     /\ [g EXCEPT !.phase = p] \in GatewayRecord
                                     /\ [g EXCEPT !.fin = FALSE, !.phase = p] \in GatewayRecord
    /\ \A s \in Status : [s EXCEPT !.deleting = TRUE] \in Status /\ Unfinalized(s) \in Status
    /\ \A o \in Object : [o EXCEPT !.owner = 0] \in Object
BY ConstantTypes DEF GatewayRecord, Status, Object, Unfinalized

\* The user's edits of the Gateway and its status, and the garbage collector.
LEMMA GatewayEditTypes ==
    ASSUME TypeOK,
           \/ \E c \in Class : CreateGateway(c) \/ SwitchClass(c)
           \/ DeleteGateway \/ ToggleReconcile \/ DeleteStatus \/ CollectStatus
           \/ \E k \in Kind : CollectObject(k)
    PROVE  TypeOK'
<1>0. ClassTypeOK /\ GatewayTypes
  BY TypeParts
<1> SUFFICES ClassTypeOK' /\ GatewayTypes'
  BY TypeParts DEF TypeOK, ClassTypeOK, GatewayTypes, Rec, PC, Cache
<1>a. gw.phase \in {"absent", "live", "deleting"}
  BY <1>0 DEF GatewayTypes, GatewayRecord
<1>1. ASSUME NEW c \in Class, CreateGateway(c)
      PROVE  ClassTypeOK' /\ GatewayTypes'
  <2>1. gw.uid + 1 \in UID
    BY <1>0, <1>1 DEF CreateGateway, GatewayTypes, GatewayRecord, UID
  <2>2. gw' \in GatewayRecord
    BY <1>1, <2>1, ConstantTypes DEF CreateGateway
  <2> QED BY <1>0, <1>1, <2>2, UsedType DEF CreateGateway, GatewayTypes, ClassTypeOK, classvars
<1>2. ASSUME NEW c \in Class, SwitchClass(c)
      PROVE  ClassTypeOK' /\ GatewayTypes'
  <2>1. gw' \in GatewayRecord
    BY <1>0, <1>2, FieldTypes DEF SwitchClass, GatewayTypes
  <2> QED BY <1>0, <1>2, <2>1, UsedType DEF SwitchClass, GatewayTypes, ClassTypeOK, classvars
<1>3. ASSUME DeleteGateway
      PROVE  ClassTypeOK' /\ GatewayTypes'
  <2>1. gw' \in GatewayRecord
    BY <1>0, <1>3, FieldTypes DEF DeleteGateway, GatewayTypes
  <2> QED BY <1>0, <1>3, <2>1, UsedType DEF DeleteGateway, GatewayTypes, ClassTypeOK, classvars
<1>4. ASSUME ToggleReconcile
      PROVE  ClassTypeOK' /\ GatewayTypes'
  <2>1. gw' \in GatewayRecord
    BY <1>0, <1>4, FieldTypes DEF ToggleReconcile, GatewayTypes
  <2> QED BY <1>0, <1>4, <2>1, UsedType DEF ToggleReconcile, GatewayTypes, ClassTypeOK, classvars
<1>5. ASSUME DeleteStatus \/ CollectStatus
      PROVE  ClassTypeOK' /\ GatewayTypes'
  <2>1. cgs' \in Status
    BY <1>0, <1>5, FieldTypes, ConstantTypes DEF DeleteStatus, CollectStatus, GatewayTypes
  <2> QED BY <1>0, <1>5, <2>1, UsedType DEF DeleteStatus, CollectStatus, GatewayTypes, ClassTypeOK, classvars
<1>6. ASSUME NEW k \in Kind, CollectObject(k)
      PROVE  ClassTypeOK' /\ GatewayTypes'
  <2>1. obj' \in [Kind -> Object]
    BY <1>0, <1>6, ConstantTypes DEF CollectObject, GatewayTypes
  <2> QED BY <1>0, <1>6, <2>1 DEF CollectObject, GatewayTypes, ClassTypeOK, classvars
<1> QED BY <1>1, <1>2, <1>3, <1>4, <1>5, <1>6

\* The informers.
LEMMA InformerTypes ==
    ASSUME TypeOK,
           \/ SeeGateway \/ SeeStatus
           \/ \E k \in Kind : SeeObject(k)
           \/ \E c \in Class : SeeGatewayClass(c)
    PROVE  TypeOK'
<1>0. ClassTypeOK /\ GatewayTypes
  BY TypeParts
<1> SUFFICES ClassTypeOK' /\ GatewayTypes'
  BY TypeParts DEF TypeOK, ClassTypeOK, GatewayTypes, Rec, PC, Cache
<1>1. CASE SeeGateway
  <2>1. cache' \in Cache
    BY <1>0, <1>1 DEF SeeGateway, GatewayTypes, Cache
  <2> QED BY <1>0, <1>1, <2>1 DEF SeeGateway, GatewayTypes, ClassTypeOK, classvars
<1>2. CASE SeeStatus
  <2>1. cache' \in Cache
    BY <1>0, <1>2 DEF SeeStatus, GatewayTypes, Cache
  <2> QED BY <1>0, <1>2, <2>1 DEF SeeStatus, GatewayTypes, ClassTypeOK, classvars
<1>3. ASSUME NEW k \in Kind, SeeObject(k)
      PROVE  ClassTypeOK' /\ GatewayTypes'
  <2>1. cache.obj \in [CachedKind -> Object] /\ obj[k] \in Object
    BY <1>0 DEF GatewayTypes, Cache
  <2>2. cache' = [cache EXCEPT !.obj = [cache.obj EXCEPT ![k] = obj[k]]]
    BY <1>3 DEF SeeObject
  <2>3. [cache.obj EXCEPT ![k] = obj[k]] \in [CachedKind -> Object]
    BY <2>1
  <2>4. cache' \in Cache
    BY <1>0, <2>2, <2>3 DEF GatewayTypes, Cache
  <2> QED BY <1>0, <1>3, <2>4 DEF SeeObject, GatewayTypes, ClassTypeOK, classvars
<1>4. ASSUME NEW c \in Class, SeeGatewayClass(c)
      PROVE  ClassTypeOK' /\ GatewayTypes'
  <2>1. ClassTypeOK'
    BY <1>0, <1>4, ClassTypes DEF SeeGatewayClass
  <2> QED BY <1>0, <1>4, <2>1 DEF SeeGatewayClass, GatewayTypes
<1> QED BY <1>1, <1>2, <1>3, <1>4

\* What the steps of a reconcile do to its record.
LEMMA RecTypes ==
    ASSUME NEW r \in Rec, NEW pc \in PC
    PROVE  /\ [r EXCEPT !.pc = pc, !.kinds = {}, !.classes = {}] \in Rec
           /\ \A s \in Status : [r EXCEPT !.pc = pc, !.kinds = Kind, !.cgs = s] \in Rec
           /\ \A ks \in SUBSET Kind : [r EXCEPT !.kinds = ks, !.pc = pc] \in Rec
           /\ \A cs \in SUBSET Class : [r EXCEPT !.classes = cs, !.pc = pc] \in Rec
           /\ \A g \in GatewayRecord, ks \in SUBSET Kind, cs \in SUBSET Class :
                [r EXCEPT !.pc = pc, !.gw = g, !.kinds = ks, !.classes = cs] \in Rec
<1>1. Kind \in SUBSET Kind /\ {} \in SUBSET Kind /\ {} \in SUBSET Class
  OBVIOUS
<1> QED BY <1>1 DEF Rec

LEMMA GotoTypes ==
    ASSUME rec \in Rec, NEW pc \in PC, Goto(pc)
    PROVE  rec' \in Rec
BY RecTypes DEF Goto

\* The steps of a reconcile, up to the status.
LEMMA ReconcileTypes ==
    ASSUME TypeOK,
           \/ Reconcile \/ AddFinalizer \/ EnsureTunnel \/ ApplyObject
           \/ FreeStatus \/ CreateStatus \/ PatchStatus
    PROVE  TypeOK'
<1>0. ClassTypeOK /\ GatewayTypes
  BY TypeParts
<1> SUFFICES ClassTypeOK' /\ GatewayTypes'
  BY TypeParts DEF TypeOK, ClassTypeOK, GatewayTypes, Rec, PC, Cache
<1>a. /\ rec \in Rec /\ rec.pc \in PC /\ rec.gw \in GatewayRecord /\ rec.kinds \subseteq Kind
      /\ rec.gw.uid \in UID /\ cache.gw \in GatewayRecord /\ cache.cgs \in Status
  BY <1>0 DEF GatewayTypes, Rec, Cache, GatewayRecord
<1>b. ASSUME Retry PROVE rec' \in Rec /\ queued' \in BOOLEAN
  BY <1>b, ConstantTypes DEF Retry
<1>1. CASE Reconcile
  <2>1. Dispatch(cache.gw) \in PC
    BY DEF Dispatch, PC
  <2>2. \A S \in SUBSET Class : Finalized(S) \in SUBSET Class
    BY DEF Finalized
  <2>3. rec' \in Rec /\ queued' \in BOOLEAN
    <3> DEFINE pc == Dispatch(cache.gw)
               ks == IF pc = "orphan" THEN Kind ELSE {}
               cs == IF pc = "unpin" THEN Finalized({cache.gw.class}) ELSE {}
    <3>1. ks \in SUBSET Kind /\ cs \in SUBSET Class /\ pc \in PC
      BY <2>1 DEF Finalized
    <3>2. [Idle EXCEPT !.pc = pc, !.gw = cache.gw, !.kinds = ks, !.classes = cs] \in Rec
      <4> HIDE DEF pc, ks, cs
      <4> QED BY <3>1, <1>a, ConstantTypes, RecTypes
    <3>3. \/ Retry
          \/ rec' = Idle /\ queued' = FALSE
          \/ rec' = [Idle EXCEPT !.pc = pc, !.gw = cache.gw, !.kinds = ks, !.classes = cs] /\ queued' = FALSE
      BY <1>1 DEF Reconcile
    <3> QED BY <3>2, <3>3, <1>b, ConstantTypes
  <2> QED BY <1>0, <1>1, <2>3 DEF Reconcile, GatewayTypes, ClassTypeOK, classvars
<1>2. CASE AddFinalizer
  <2>1. gw' \in GatewayRecord
    BY <1>0, <1>2, FieldTypes DEF AddFinalizer, GatewayTypes
  <2> QED BY <1>0, <1>2, <1>b, <2>1 DEF AddFinalizer, GatewayTypes, ClassTypeOK, classvars
<1>3. CASE EnsureTunnel
  <2>1. "apply" \in PC
    BY DEF PC
  <2>2. rec' \in Rec /\ queued' \in BOOLEAN
    <3>1. [rec EXCEPT !.pc = "apply", !.kinds = Kind, !.cgs = cache.cgs] \in Rec
      BY <1>a, <2>1, RecTypes
    <3>2. \/ Retry
          \/ rec' = [rec EXCEPT !.pc = "apply", !.kinds = Kind, !.cgs = cache.cgs] /\ queued' = queued
      BY <1>3 DEF EnsureTunnel
    <3> QED BY <1>0, <1>b, <3>1, <3>2 DEF GatewayTypes
  <2>3. tunnel' \in {0} \cup UID /\ source' \in SUBSET Class
    BY <1>0, <1>3, <1>a DEF EnsureTunnel, GatewayTypes, GatewayRecord
  <2> QED BY <1>0, <1>3, <2>2, <2>3 DEF EnsureTunnel, GatewayTypes, ClassTypeOK, classvars
<1>4. CASE ApplyObject
  <2>1. \A k : [obj EXCEPT ![k] = OwnedBy(rec.gw.uid)] \in [Kind -> Object]
    BY <1>0, <1>a, ConstantTypes DEF GatewayTypes
  <2>2. \A k, pc : pc \in PC => [rec EXCEPT !.kinds = rec.kinds \ {k}, !.pc = pc] \in Rec
    <3> TAKE k, pc
    <3>1. rec.kinds \ {k} \in SUBSET Kind
      BY <1>a
    <3> QED BY <3>1, <1>a, RecTypes
  <2>3. obj' \in [Kind -> Object]
    BY <1>4, <2>1 DEF ApplyObject
  <2>4. rec' \in Rec
    <3> DEFINE k == First(ApplyOrder, rec.kinds)
               pc == IF rec.kinds \ {k} # {} THEN rec.pc ELSE IF rec.cgs.deleting THEN "freeStatus"
                     ELSE IF rec.cgs.exists THEN "patchStatus" ELSE "createStatus"
    <3>1. {"freeStatus", "patchStatus", "createStatus", "apply"} \subseteq PC
      BY DEF PC
    <3>2. rec' = [rec EXCEPT !.kinds = rec.kinds \ {k}, !.pc = pc]
      BY <1>4, <1>a DEF ApplyObject
    <3>3. pc \in PC
      BY <3>1, <1>a
    <3> HIDE DEF k, pc
    <3> QED BY <3>2, <3>3, <2>2
  <2>5. queued' \in BOOLEAN
    BY <1>0, <1>4 DEF ApplyObject, GatewayTypes
  <2> QED BY <1>0, <1>4, <2>3, <2>4, <2>5 DEF ApplyObject, GatewayTypes, ClassTypeOK, classvars
<1>5. CASE FreeStatus
  <2>1. cgs' \in Status
    BY <1>0, <1>5, FieldTypes DEF FreeStatus, GatewayTypes
  <2>2. rec' \in Rec /\ queued' \in BOOLEAN
    <3>1. "createStatus" \in PC
      BY DEF PC
    <3> QED BY <1>0, <1>5, <1>a, <1>b, <3>1, GotoTypes DEF FreeStatus, GatewayTypes
  <2> QED BY <1>0, <1>5, <2>1, <2>2 DEF FreeStatus, GatewayTypes, ClassTypeOK, classvars
<1>6. CASE CreateStatus
  <2>1. cgs' \in Status
    BY <1>0, <1>6, <1>a DEF CreateStatus, GatewayTypes, Status
  <2> QED BY <1>0, <1>6, <2>1, ConstantTypes DEF CreateStatus, GatewayTypes, ClassTypeOK, classvars
<1>7. CASE PatchStatus
  BY <1>0, <1>7, ConstantTypes DEF PatchStatus, GatewayTypes, ClassTypeOK, classvars
<1> QED BY <1>1, <1>2, <1>3, <1>4, <1>5, <1>6, <1>7

\* The finalizers of the classes.
LEMMA PinTypes ==
    ASSUME TypeOK, UnpinOthers \/ Pin \/ UnpinAll
    PROVE  TypeOK'
<1>0. ClassTypeOK /\ GatewayTypes
  BY TypeParts
<1> SUFFICES ClassTypeOK' /\ GatewayTypes'
  BY TypeParts DEF TypeOK, ClassTypeOK, GatewayTypes, Rec, PC, Cache
<1>a. rec \in Rec /\ rec.pc \in PC /\ rec.gw.class \in Class /\ rec.classes \subseteq Class
  BY <1>0 DEF GatewayTypes, Rec, GatewayRecord
<1>b. ASSUME Retry PROVE rec' \in Rec /\ queued' \in BOOLEAN
  BY <1>b, ConstantTypes DEF Retry
<1>c. ASSUME NEW c \in Class, NEW b \in BOOLEAN
      PROVE  [class[c] EXCEPT !.fin = b] \in ClassRecord
  <2>1. class[c] \in ClassRecord
    BY <1>0 DEF ClassTypeOK
  <2> QED BY <2>1 DEF ClassRecord
<1>1. ASSUME NEW next \in PC, NEW c \in rec.classes, Unpin(c, next)
      PROVE  ClassTypeOK' /\ GatewayTypes'
  <2>1. class' \in [Class -> ClassRecord]
    <3>1. \A x \in ClassRecord : [class EXCEPT ![c] = x] \in [Class -> ClassRecord]
      BY <1>0 DEF ClassTypeOK
    <3>2. NoClass \in ClassRecord /\ [class[c] EXCEPT !.fin = FALSE] \in ClassRecord
      BY <1>1, <1>a, <1>c, ConstantTypes
    <3>3. \/ class' = class
          \/ class' = [class EXCEPT ![c] = NoClass]
          \/ class' = [class EXCEPT ![c] = [class[c] EXCEPT !.fin = FALSE]]
      BY <1>1 DEF Unpin
    <3> QED BY <1>0, <3>1, <3>2, <3>3 DEF ClassTypeOK
  <2>2. rec' \in Rec /\ queued' \in BOOLEAN
    <3>1. \A pc \in PC : [rec EXCEPT !.classes = rec.classes \ {c}, !.pc = pc] \in Rec
      <4>1. rec.classes \ {c} \in SUBSET Class
        BY <1>a
      <4> QED BY <4>1, <1>a, RecTypes
    <3>2. \/ Retry
          \/ \E pc \in PC : rec' = [rec EXCEPT !.classes = rec.classes \ {c}, !.pc = pc] /\ queued' = queued
      BY <1>1, <1>a DEF Unpin
    <3> QED BY <1>0, <1>b, <3>1, <3>2 DEF GatewayTypes
  <2> QED BY <1>0, <1>1, <2>1, <2>2 DEF Unpin, GatewayTypes, ClassTypeOK
<1>2. CASE Pin
  <2>1. class' \in [Class -> ClassRecord]
    <3>1. \A x \in ClassRecord : [class EXCEPT ![rec.gw.class] = x] \in [Class -> ClassRecord]
      BY <1>0 DEF ClassTypeOK
    <3>2. [class[rec.gw.class] EXCEPT !.fin = TRUE] \in ClassRecord
      BY <1>a, <1>c
    <3>3. class' = class \/ class' = [class EXCEPT ![rec.gw.class].fin = TRUE]
      BY <1>2 DEF Pin
    <3> QED BY <1>0, <3>1, <3>2, <3>3 DEF ClassTypeOK
  <2>2. rec' \in Rec /\ queued' \in BOOLEAN
    <3>1. "ensureTunnel" \in PC
      BY DEF PC
    <3>2. Retry \/ (Goto("ensureTunnel") /\ queued' = queued)
      BY <1>2 DEF Pin
    <3> QED BY <1>0, <1>a, <1>b, <3>1, <3>2, GotoTypes DEF GatewayTypes
  <2> QED BY <1>0, <1>2, <2>1, <2>2 DEF Pin, GatewayTypes, ClassTypeOK
<1>3. {"pin", "removeFinalizer"} \subseteq PC
  BY DEF PC
<1> QED BY <1>1, <1>2, <1>3 DEF UnpinOthers, UnpinAll

\* The steps of finalize.
LEMMA FinalizeTypes ==
    ASSUME TypeOK,
           \/ DeleteDeployments \/ AwaitDeployments \/ DeleteTunnel \/ ReleaseStatus
           \/ RemoveOwnerReferences \/ ListClasses \/ RemoveFinalizer
    PROVE  TypeOK'
<1>0. ClassTypeOK /\ GatewayTypes
  BY TypeParts
<1> SUFFICES ClassTypeOK' /\ GatewayTypes'
  BY TypeParts DEF TypeOK, ClassTypeOK, GatewayTypes, Rec, PC, Cache
<1>a. rec \in Rec /\ rec.pc \in PC /\ rec.kinds \subseteq Kind
  BY <1>0 DEF GatewayTypes, Rec
<1>b. ASSUME Retry PROVE rec' \in Rec /\ queued' \in BOOLEAN
  BY <1>b, ConstantTypes DEF Retry
<1>c. ASSUME NEW pc \in {"wait", "deleteTunnel", "releaseStatus", "release"}, Goto(pc)
      PROVE  rec' \in Rec
  <2>1. pc \in PC
    BY DEF PC
  <2> QED BY <1>a, <1>c, <2>1, GotoTypes
<1>1. CASE DeleteDeployments \/ AwaitDeployments
  <2>1. rec' \in Rec
    BY <1>1, <1>c DEF DeleteDeployments, AwaitDeployments
  <2>2. obj' \in [Kind -> Object]
    BY <1>0, <1>1, ConstantTypes DEF DeleteDeployments, AwaitDeployments, GatewayTypes
  <2> QED BY <1>0, <1>1, <2>1, <2>2 DEF DeleteDeployments, AwaitDeployments, GatewayTypes, ClassTypeOK, classvars
<1>2. CASE DeleteTunnel
  <2>1. rec' \in Rec /\ queued' \in BOOLEAN
    BY <1>0, <1>2, <1>b, <1>c DEF DeleteTunnel, GatewayTypes
  <2>2. tunnel' \in {0} \cup UID
    BY <1>0, <1>2 DEF DeleteTunnel, GatewayTypes
  <2> QED BY <1>0, <1>2, <2>1, <2>2 DEF DeleteTunnel, GatewayTypes, ClassTypeOK, classvars
<1>3. CASE ReleaseStatus
  <2>1. rec' \in Rec /\ queued' \in BOOLEAN
    BY <1>0, <1>3, <1>b, <1>c DEF ReleaseStatus, GatewayTypes
  <2>2. cgs' \in Status
    BY <1>0, <1>3, FieldTypes DEF ReleaseStatus, GatewayTypes
  <2> QED BY <1>0, <1>3, <2>1, <2>2 DEF ReleaseStatus, GatewayTypes, ClassTypeOK, classvars
<1>4. CASE RemoveOwnerReferences
  <2> DEFINE k == First(OrphanOrder, rec.kinds)
             pc == IF rec.kinds \ {k} = {} THEN "release" ELSE rec.pc
  <2>1. \/ Retry
        \/ /\ rec' = [rec EXCEPT !.kinds = rec.kinds \ {k}, !.pc = pc]
           /\ queued' = queued \/ queued' = (queued \/ k \notin CachedKind)
    BY <1>4, <1>a DEF RemoveOwnerReferences
  <2>2. obj' = obj \/ obj' = [obj EXCEPT ![k].owner = 0]
    BY <1>4 DEF RemoveOwnerReferences
  <2>3. pc \in PC
    BY <1>a DEF PC
  <2> HIDE DEF k, pc
  <2>4. [rec EXCEPT !.kinds = rec.kinds \ {k}, !.pc = pc] \in Rec
    <3>1. rec.kinds \ {k} \in SUBSET Kind
      BY <1>a
    <3> QED BY <3>1, <2>3, <1>a, RecTypes
  <2>5. rec' \in Rec /\ queued' \in BOOLEAN
    BY <1>0, <1>b, <2>1, <2>4 DEF GatewayTypes
  <2>6. obj' \in [Kind -> Object]
    <3>1. CASE k \in Kind
      <4>1. [obj[k] EXCEPT !.owner = 0] \in Object
        BY <1>0, <3>1, FieldTypes DEF GatewayTypes
      <4>2. \A o \in Object : [obj EXCEPT ![k] = o] \in [Kind -> Object]
        BY <1>0 DEF GatewayTypes
      <4> QED BY <1>0, <2>2, <4>1, <4>2 DEF GatewayTypes
    <3>2. CASE k \notin Kind
      BY <1>0, <2>2, <3>2 DEF GatewayTypes
    <3> QED BY <3>1, <3>2
  <2> QED BY <1>0, <1>4, <2>5, <2>6 DEF RemoveOwnerReferences, GatewayTypes, ClassTypeOK, classvars
<1>5. CASE ListClasses
  <2> DEFINE pc == IF Finalized({}) = {} THEN "removeFinalizer" ELSE "unpinAll"
  <2>1. Finalized({}) \in SUBSET Class /\ pc \in PC
    BY DEF Finalized, PC
  <2>2. rec' = [rec EXCEPT !.classes = Finalized({}), !.pc = pc]
    BY <1>5 DEF ListClasses
  <2> HIDE DEF pc
  <2>3. rec' \in Rec
    BY <1>a, <2>1, <2>2, RecTypes
  <2> QED BY <1>0, <1>5, <2>3 DEF ListClasses, GatewayTypes, ClassTypeOK, classvars
<1>6. CASE RemoveFinalizer
  <2>1. gw' \in GatewayRecord
    <3>1. gw' = [gw EXCEPT !.fin = FALSE, !.phase = IF gw.phase = "deleting" THEN "absent" ELSE gw.phase]
      BY <1>0, <1>6 DEF RemoveFinalizer, GatewayTypes, GatewayRecord
    <3>2. (IF gw.phase = "deleting" THEN "absent" ELSE gw.phase) \in {"absent", "live", "deleting"}
      BY <1>0 DEF GatewayTypes, GatewayRecord
    <3> QED BY <1>0, <3>1, <3>2, FieldTypes DEF GatewayTypes
  <2>2. left' \in SUBSET UID
    BY <1>0, <1>6 DEF RemoveFinalizer, GatewayTypes, GatewayRecord
  <2> QED BY <1>0, <1>6, <2>1, <2>2, ConstantTypes DEF RemoveFinalizer, GatewayTypes, ClassTypeOK, classvars
<1> QED BY <1>1, <1>2, <1>3, <1>4, <1>5, <1>6

\* Faults, and the periodic reconcile.
LEMMA FaultTypes ==
    ASSUME TypeOK, FailCall \/ Restart \/ Requeue
    PROVE  TypeOK'
<1>0. ClassTypeOK /\ GatewayTypes
  BY TypeParts
<1> SUFFICES ClassTypeOK' /\ GatewayTypes'
  BY TypeParts DEF TypeOK, ClassTypeOK, GatewayTypes, Rec, PC, Cache
<1>1. CASE FailCall
  BY <1>0, <1>1, UsedType, ConstantTypes DEF FailCall, Retry, GatewayTypes, ClassTypeOK, classvars
<1>2. CASE Restart
  <2>1. cache' \in Cache
    BY <1>0, <1>2 DEF Restart, Current, Cache, CachedKind, GatewayTypes
  <2>2. ClassTypeOK'
    BY <1>0, <1>2, UsedType DEF Restart, RestartClass, ClassIdle, ClassTypeOK
  <2> QED BY <1>0, <1>2, <2>1, <2>2, ConstantTypes DEF Restart, Retry, GatewayTypes
<1>3. CASE Requeue
  BY <1>0, <1>3 DEF Requeue, GatewayTypes, ClassTypeOK, classvars
<1> QED BY <1>1, <1>2, <1>3

LEMMA TypeStep == TypeOK /\ [Next]_vars => TypeOK'
<1> SUFFICES ASSUME TypeOK, [Next]_vars PROVE TypeOK'
  OBVIOUS
<1>1. ASSUME ClassTypeOK', UNCHANGED gwvars
      PROVE  TypeOK'
  BY <1>1 DEF TypeOK, gwvars
<1>2. CASE User
  BY <1>1, <1>2, ClassTypes, GatewayEditTypes, TypeParts DEF User, EditClass
<1>3. CASE Kubernetes
  BY <1>3, GatewayEditTypes, InformerTypes DEF Kubernetes
<1>4. CASE ClassController
  BY <1>1, <1>4, ClassTypes, TypeParts DEF ClassController
<1>5. CASE ReconcileStep
  BY <1>5, ReconcileTypes, PinTypes, FinalizeTypes DEF ReconcileStep
<1>6. CASE Faults \/ Requeue
  BY <1>1, <1>6, FaultTypes, ClassTypes, TypeParts DEF Faults, FailClass
<1>7. CASE UNCHANGED vars
  BY <1>7 DEF TypeOK, ClassTypeOK, vars, gwvars, classvars
<1> QED BY <1>2, <1>3, <1>4, <1>5, <1>6, <1>7 DEF Next

\* Every variable keeps its type, in particular the bounds, the names of the
\* steps of Reconcile and the identities of owners.
THEOREM TypeCorrect == Spec => []TypeOK
BY InitTypes, TypeStep, PTL DEF Spec

-----------------------------------------------------------------------------
\* What KeepInv needs of the types.
LEMMA KeepTypes ==
    ASSUME TypeOK
    PROVE  /\ gw \in GatewayRecord /\ gw.uid \in UID /\ gw.uid # 0
           /\ cache.gw \in GatewayRecord
           /\ rec \in Rec /\ rec.gw \in GatewayRecord
BY DEF TypeOK, GatewayRecord, UID, Rec, PC

\* Steps that neither concern the Gateway, the cached copy nor the tunnel, and
\* leave the reconcile where it is, end it, or take it on within its phase.
LEMMA KeepElsewhere ==
    ASSUME KeepInv, UNCHANGED <<gw, tunnel, left>>, cache'.gw = cache.gw,
           \/ rec' = rec
           \/ rec' = Idle
           \/ /\ rec'.gw = rec.gw
              /\ \/ rec'.pc = rec.pc
                 \/ rec.pc \in Working /\ rec'.pc \in Working
                 \/ rec.pc \in {"deleteDeployments", "wait"} /\ rec'.pc \in {"wait", "deleteTunnel"}
                 \/ rec.pc = "orphan" /\ rec'.pc = "release"
                 \/ rec.pc \in Cleaned /\ rec'.pc \in Cleaned
    PROVE  KeepInv'
<1>1. Idle.pc = "idle"
  BY ConstantTypes
<1>2. CASE rec' = rec
  BY <1>2 DEF KeepInv, TunnelKept
<1>3. CASE rec' = Idle
  BY <1>1, <1>3 DEF KeepInv, TunnelKept, Working, Cleaning, Cleaned
<1>4. CASE rec'.gw = rec.gw /\ rec'.pc = rec.pc
  BY <1>4 DEF KeepInv, TunnelKept
<1>5. CASE rec'.gw = rec.gw /\ rec.pc \in Working /\ rec'.pc \in Working
  BY <1>5 DEF KeepInv, TunnelKept, Working, Cleaning, Cleaned
<1>6. CASE /\ rec'.gw = rec.gw
           /\ rec.pc \in {"deleteDeployments", "wait"} /\ rec'.pc \in {"wait", "deleteTunnel"}
  BY <1>6 DEF KeepInv, TunnelKept, Working, Cleaning, Cleaned
<1>7. CASE rec'.gw = rec.gw /\ rec.pc = "orphan" /\ rec'.pc = "release"
  BY <1>7 DEF KeepInv, TunnelKept, Working, Cleaning, Cleaned
<1>8. CASE rec'.gw = rec.gw /\ rec.pc \in Cleaned /\ rec'.pc \in Cleaned
  BY <1>8 DEF KeepInv, TunnelKept, Working, Cleaning, Cleaned
<1> QED BY <1>2, <1>3, <1>4, <1>5, <1>6, <1>7, <1>8

\* A deleted Gateway leaves only with its finalizer, and a new one of the name
\* has none.
LEMMA KeepUser ==
    ASSUME TypeOK, KeepInv,
           \/ \E c \in Class : CreateGateway(c) \/ SwitchClass(c)
           \/ DeleteGateway \/ ToggleReconcile \/ DeleteStatus
    PROVE  KeepInv'
<1>1. ASSUME NEW c \in Class, CreateGateway(c)
      PROVE  KeepInv'
  <2>1. gw'.phase = "live" /\ ~gw'.fin
    BY <1>1 DEF CreateGateway, NewGateway
  <2>2. ~gw.fin /\ gw.phase = "absent" /\ UNCHANGED <<cache, tunnel, left, rec>>
    BY <1>1 DEF CreateGateway, KeepInv
  <2> QED BY <2>1, <2>2 DEF KeepInv, TunnelKept
<1>2. ASSUME gw'.phase = gw.phase, gw'.fin = gw.fin, gw'.uid = gw.uid, UNCHANGED <<cache, tunnel, left, rec>>
      PROVE  KeepInv'
  BY <1>2 DEF KeepInv, TunnelKept
<1>3. ASSUME NEW c \in Class, SwitchClass(c)
      PROVE  KeepInv'
  <2>1. gw'.phase = gw.phase /\ gw'.fin = gw.fin /\ gw'.uid = gw.uid
    BY <1>3, KeepTypes DEF SwitchClass, GatewayRecord
  <2> QED BY <1>2, <1>3, <2>1 DEF SwitchClass
<1>4. CASE ToggleReconcile
  <2>1. gw'.phase = gw.phase /\ gw'.fin = gw.fin /\ gw'.uid = gw.uid
    BY <1>4, KeepTypes DEF ToggleReconcile, GatewayRecord
  <2> QED BY <1>2, <1>4, <2>1 DEF ToggleReconcile
<1>5. CASE DeleteGateway
  <2>1. gw'.phase = (IF gw.fin THEN "deleting" ELSE "absent") /\ gw'.fin = gw.fin /\ gw'.uid = gw.uid
    BY <1>5, KeepTypes DEF DeleteGateway, GatewayRecord
  <2>2. gw.phase = "live" /\ UNCHANGED <<cache, tunnel, left, rec>>
    BY <1>5 DEF DeleteGateway
  <2> QED BY <2>1, <2>2 DEF KeepInv, TunnelKept
<1>6. CASE DeleteStatus
  BY <1>6, KeepElsewhere DEF DeleteStatus
<1> QED BY <1>1, <1>3, <1>4, <1>5, <1>6

\* The informers may show the past of the Gateway, but never a copy that would
\* start a reconcile during a finalization.
LEMMA KeepKubernetes ==
    ASSUME TypeOK, KeepInv, Kubernetes
    PROVE  KeepInv'
<1>1. CASE SeeGateway
  <2>1. cache'.gw = gw /\ UNCHANGED <<gw, tunnel, left, rec>>
    BY <1>1 DEF SeeGateway, TypeOK
  <2> QED BY <2>1 DEF KeepInv, TunnelKept
<1>2. ASSUME NEW k \in Kind, SeeObject(k)
      PROVE  KeepInv'
  <2>1. cache'.gw = cache.gw
    BY <1>2 DEF SeeObject, TypeOK
  <2> QED BY <1>2, <2>1, KeepElsewhere DEF SeeObject
<1>3. CASE SeeStatus
  <2>1. cache'.gw = cache.gw
    BY <1>3 DEF SeeStatus, TypeOK
  <2> QED BY <1>3, <2>1, KeepElsewhere DEF SeeStatus
<1>4. ASSUME NEW k \in Kind, CollectObject(k)
      PROVE  KeepInv'
  BY <1>4, KeepElsewhere DEF CollectObject
<1>5. CASE CollectStatus
  BY <1>5, KeepElsewhere DEF CollectStatus
<1>6. ASSUME NEW c \in Class, SeeGatewayClass(c)
      PROVE  KeepInv'
  BY <1>6, KeepElsewhere DEF SeeGatewayClass
<1> QED BY <1>1, <1>2, <1>3, <1>4, <1>5, <1>6 DEF Kubernetes

\* The decision of Reconcile is sound even if its copy is stale.
LEMMA KeepReconcile ==
    ASSUME TypeOK, KeepInv, Reconcile
    PROVE  KeepInv'
<1>1. UNCHANGED <<gw, cache, tunnel, left>> /\ rec.pc = "idle"
  BY DEF Reconcile, At
<1>2. CASE rec' = Idle
  BY <1>1, <1>2, KeepElsewhere
<1>3. CASE rec' # Idle
  <2> DEFINE g == cache.gw
             pc == Dispatch(g)
  <2>1. g.phase # "absent" /\ pc # "idle" /\ rec'.gw = g /\ rec'.pc = pc
    <3>1. Idle \in Rec
      BY ConstantTypes
    <3>2. /\ g.phase # "absent" /\ pc # "idle"
          /\ rec' = [Idle EXCEPT !.pc = pc, !.gw = g,
                       !.kinds = IF pc = "orphan" THEN Kind ELSE {},
                       !.classes = IF pc = "unpin" THEN Finalized({g.class}) ELSE {}]
      BY <1>3 DEF Reconcile, Retry
    <3> HIDE DEF g, pc
    <3> QED BY <3>1, <3>2 DEF Rec
  <2>2. CASE g.phase = "deleting"
    <3>1. (pc = "orphan" /\ g.disabled) \/ pc = "deleteDeployments"
      BY <2>1, <2>2 DEF Dispatch
    <3>2. gw.fin => gw.phase = "deleting" /\ gw.uid = g.uid
      BY <2>2 DEF KeepInv
    <3> QED BY <1>1, <2>1, <2>2, <3>1, <3>2 DEF KeepInv, TunnelKept, Working, Cleaning, Cleaned
  <2>3. CASE g.phase = "live"
    <3>1. pc = "addFinalizer" \/ (pc = "unpin" /\ g.fin)
      BY <2>1, <2>3 DEF Dispatch
    <3>2. g.fin => gw.fin /\ gw.uid = g.uid
      BY <2>3 DEF KeepInv
    <3> QED BY <1>1, <2>1, <2>3, <3>1, <3>2 DEF KeepInv, TunnelKept, Working, Cleaning, Cleaned
  <2> QED BY <2>1, <2>2, <2>3, KeepTypes DEF GatewayRecord
<1> QED BY <1>2, <1>3

\* The step after a Goto.
LEMMA GotoStep ==
    ASSUME rec \in Rec, NEW pc \in PC, Goto(pc)
    PROVE  rec'.pc = pc /\ rec'.gw = rec.gw
BY DEF Goto, Rec

\* The finalizer is there before the tunnel is, and the reconcile that added it
\* ends without working on its stale copy.
LEMMA KeepWork ==
    ASSUME TypeOK, KeepInv,
           \/ AddFinalizer \/ UnpinOthers \/ Pin \/ EnsureTunnel \/ ApplyObject
           \/ FreeStatus \/ CreateStatus \/ PatchStatus
    PROVE  KeepInv'
<1>0. rec \in Rec /\ {"pin", "ensureTunnel", "createStatus"} \subseteq PC
  BY KeepTypes DEF PC
<1>1. CASE AddFinalizer
  <2>1. /\ gw'.phase = gw.phase /\ gw'.uid = gw.uid
        /\ gw'.fin = (gw.fin \/ gw.phase = "live")
    <3>1. CASE gw.phase = "live"
      BY <1>1, <3>1, KeepTypes DEF AddFinalizer, GatewayRecord
    <3>2. CASE gw.phase # "live"
      BY <1>1, <3>2, KeepTypes DEF AddFinalizer, GatewayRecord
    <3> QED BY <3>1, <3>2
  <2>2. rec.pc = "addFinalizer" /\ rec'.pc = "idle" /\ UNCHANGED <<cache, tunnel, left>>
    BY <1>1, ConstantTypes DEF AddFinalizer, At, Retry
  <2> QED BY <2>1, <2>2 DEF KeepInv, TunnelKept, Working, Cleaning, Cleaned
<1>2. CASE UnpinOthers
  <2>1. PICK c \in rec.classes : Unpin(c, "pin")
    BY <1>2 DEF UnpinOthers
  <2>2. rec.pc = "unpin" /\ UNCHANGED <<gw, cache, tunnel, left>>
    BY <1>2, <2>1 DEF UnpinOthers, At, Unpin
  <2>3. rec' = Idle \/ (rec'.gw = rec.gw /\ rec'.pc \in {"unpin", "pin"})
    BY <1>0, <2>1, <2>2 DEF Unpin, Retry, Rec
  <2> QED BY <2>2, <2>3, KeepElsewhere DEF Working
<1>3. CASE Pin
  <2>1. rec.pc \in Working /\ UNCHANGED <<gw, cache, tunnel, left>>
    BY <1>3 DEF Pin, At, Working
  <2>2. rec' = Idle \/ Goto("ensureTunnel")
    BY <1>3 DEF Pin, Retry
  <2>3. rec' = Idle \/ (rec'.gw = rec.gw /\ rec'.pc = "ensureTunnel")
    BY <1>0, <2>2, GotoStep
  <2> QED BY <2>1, <2>3, KeepElsewhere DEF Working
<1>4. CASE EnsureTunnel
  <2>1. rec.pc = "ensureTunnel" /\ UNCHANGED <<gw, cache, left>>
    BY <1>4 DEF EnsureTunnel, At
  <2>2. CASE config.secret
    <3>1. tunnel' = rec.gw.uid /\ rec'.pc = "apply" /\ rec'.gw = rec.gw
      BY <1>0, <1>4, <2>2 DEF EnsureTunnel, Rec
    <3>2. gw.fin /\ gw.uid = rec.gw.uid
      BY <2>1 DEF KeepInv, Working
    <3> QED BY <2>1, <3>1, <3>2 DEF KeepInv, TunnelKept, Working, Cleaning, Cleaned
  <2>3. CASE ~config.secret
    BY <1>4, <2>1, <2>3, KeepElsewhere DEF EnsureTunnel, Retry
  <2> QED BY <2>2, <2>3
<1>5. CASE ApplyObject
  <2>1. rec.pc = "apply" /\ UNCHANGED <<gw, cache, tunnel, left>>
    BY <1>5 DEF ApplyObject, At
  <2> DEFINE k == First(ApplyOrder, rec.kinds)
             pc == IF rec.kinds \ {k} # {} THEN rec.pc ELSE IF rec.cgs.deleting THEN "freeStatus"
                   ELSE IF rec.cgs.exists THEN "patchStatus" ELSE "createStatus"
  <2>2. rec' = [rec EXCEPT !.kinds = rec.kinds \ {k}, !.pc = pc]
    BY <1>0, <1>5 DEF ApplyObject, Rec
  <2>3. pc \in Working
    BY <2>1 DEF Working
  <2> HIDE DEF k, pc
  <2>4. rec'.gw = rec.gw /\ rec'.pc = pc
    BY <1>0, <2>2 DEF Rec
  <2> QED BY <2>1, <2>3, <2>4, KeepElsewhere DEF Working
<1>6. CASE FreeStatus
  <2>1. rec.pc = "freeStatus" /\ UNCHANGED <<gw, cache, tunnel, left>>
    BY <1>6 DEF FreeStatus, At
  <2>2. rec' = Idle \/ Goto("createStatus")
    BY <1>6 DEF FreeStatus, Retry
  <2>3. rec' = Idle \/ (rec'.gw = rec.gw /\ rec'.pc = "createStatus")
    BY <1>0, <2>2, GotoStep
  <2> QED BY <2>1, <2>3, KeepElsewhere DEF Working
<1>7. CASE CreateStatus \/ PatchStatus
  BY <1>7, KeepElsewhere DEF CreateStatus, PatchStatus
<1> QED BY <1>1, <1>2, <1>3, <1>4, <1>5, <1>6, <1>7

\* The finalizer goes last.  By then there is no tunnel of a Gateway that was not
\* left behind, or this one is left behind.
LEMMA KeepFinalize ==
    ASSUME TypeOK, KeepInv,
           \/ DeleteDeployments \/ AwaitDeployments \/ DeleteTunnel \/ ReleaseStatus
           \/ RemoveOwnerReferences \/ ListClasses \/ UnpinAll \/ RemoveFinalizer
    PROVE  KeepInv'
<1>0. rec \in Rec /\ {"wait", "deleteTunnel", "releaseStatus", "release"} \subseteq PC
  BY KeepTypes DEF PC
<1>1. CASE DeleteDeployments \/ AwaitDeployments
  <2>1. rec.pc \in {"deleteDeployments", "wait"} /\ UNCHANGED <<gw, cache, tunnel, left>>
    BY <1>1 DEF DeleteDeployments, AwaitDeployments, At
  <2>2. Goto("wait") \/ Goto("deleteTunnel")
    BY <1>1 DEF DeleteDeployments, AwaitDeployments
  <2>3. rec'.gw = rec.gw /\ rec'.pc \in {"wait", "deleteTunnel"}
    BY <1>0, <2>2, GotoStep
  <2> QED BY <2>1, <2>3, KeepElsewhere
<1>2. CASE DeleteTunnel
  <2>1. rec.pc = "deleteTunnel" /\ UNCHANGED <<gw, cache, left>>
    BY <1>2 DEF DeleteTunnel, At
  <2>2. CASE config.secret
    <3>1. tunnel' = 0 /\ rec'.pc = "releaseStatus" /\ rec'.gw = rec.gw
      BY <1>0, <1>2, <2>2, GotoStep DEF DeleteTunnel
    <3> QED BY <2>1, <3>1 DEF KeepInv, TunnelKept, Working, Cleaning, Cleaned
  <2>3. CASE ~config.secret
    BY <1>2, <2>1, <2>3, KeepElsewhere DEF DeleteTunnel, Retry
  <2> QED BY <2>2, <2>3
<1>3. CASE ReleaseStatus
  <2>1. rec.pc = "releaseStatus" /\ UNCHANGED <<gw, cache, tunnel, left>>
    BY <1>3 DEF ReleaseStatus, At
  <2>2. rec' = Idle \/ Goto("release")
    BY <1>3 DEF ReleaseStatus, Retry
  <2>3. rec' = Idle \/ (rec'.gw = rec.gw /\ rec'.pc = "release")
    BY <1>0, <2>2, GotoStep
  <2> QED BY <2>1, <2>3, KeepElsewhere DEF Cleaned
<1>4. CASE RemoveOwnerReferences
  <2>1. rec.pc = "orphan" /\ UNCHANGED <<gw, cache, tunnel, left>>
    BY <1>4 DEF RemoveOwnerReferences, At
  <2> DEFINE k == First(OrphanOrder, rec.kinds)
             pc == IF rec.kinds \ {k} = {} THEN "release" ELSE rec.pc
  <2>2. rec' = Idle \/ rec' = [rec EXCEPT !.kinds = rec.kinds \ {k}, !.pc = pc]
    BY <1>0, <1>4 DEF RemoveOwnerReferences, Retry, Rec
  <2>3. pc \in {"release", "orphan"}
    BY <2>1
  <2> HIDE DEF k, pc
  <2>4. rec' = Idle \/ (rec'.gw = rec.gw /\ rec'.pc = pc)
    BY <1>0, <2>2 DEF Rec
  <2> QED BY <2>1, <2>3, <2>4, KeepElsewhere
<1>5. CASE ListClasses
  <2>1. rec.pc = "release" /\ UNCHANGED <<gw, cache, tunnel, left>>
    BY <1>5 DEF ListClasses, At
  <2>2. rec'.gw = rec.gw /\ rec'.pc \in {"removeFinalizer", "unpinAll"}
    BY <1>0, <1>5 DEF ListClasses, Rec
  <2> QED BY <2>1, <2>2, KeepElsewhere DEF Cleaned
<1>6. CASE UnpinAll
  <2>1. PICK c \in rec.classes : Unpin(c, "removeFinalizer")
    BY <1>6 DEF UnpinAll
  <2>2. rec.pc = "unpinAll" /\ UNCHANGED <<gw, cache, tunnel, left>>
    BY <1>6, <2>1 DEF UnpinAll, At, Unpin
  <2>3. rec' = Idle \/ (rec'.gw = rec.gw /\ rec'.pc \in {"unpinAll", "removeFinalizer"})
    BY <1>0, <2>1, <2>2 DEF Unpin, Retry, Rec
  <2> QED BY <2>2, <2>3, KeepElsewhere DEF Cleaned
<1>7. CASE RemoveFinalizer
  <2>1. rec.pc = "removeFinalizer" /\ rec'.pc = "idle" /\ UNCHANGED <<cache, tunnel>>
    BY <1>7, ConstantTypes DEF RemoveFinalizer, At
  <2>2. ~gw'.fin /\ gw'.phase # "deleting"
    BY <1>7, KeepTypes DEF RemoveFinalizer, GatewayRecord
  <2>3. ~(cache.gw.phase = "live" /\ cache.gw.fin)
    BY <2>1 DEF KeepInv, Cleaned
  <2>4. tunnel # 0 => tunnel \in left'
    <3>1. left \subseteq left' /\ (gw.phase = "deleting" /\ rec.gw.disabled => gw.uid \in left')
      BY <1>7 DEF RemoveFinalizer
    <3>2. rec.gw.disabled \/ tunnel \in {0} \cup left
      BY <2>1 DEF KeepInv, Cleaned
    <3>3. gw.fin => gw.phase = "deleting"
      BY <2>1 DEF KeepInv, Cleaned
    <3> QED BY <3>1, <3>2, <3>3 DEF KeepInv, TunnelKept
  <2> QED BY <2>1, <2>2, <2>3, <2>4 DEF KeepInv, TunnelKept, Working, Cleaning, Cleaned
<1> QED BY <1>1, <1>2, <1>3, <1>4, <1>5, <1>6, <1>7

LEMMA KeepStep == TypeOK /\ KeepInv /\ [Next]_vars => KeepInv'
<1> SUFFICES ASSUME TypeOK, KeepInv, [Next]_vars PROVE KeepInv'
  OBVIOUS
<1>1. ASSUME UNCHANGED gwvars PROVE KeepInv'
  BY <1>1, KeepElsewhere DEF gwvars
<1>2. CASE User
  BY <1>1, <1>2, KeepUser DEF User, EditClass
<1>3. CASE Kubernetes
  BY <1>3, KeepKubernetes
<1>4. CASE ClassController
  BY <1>1, <1>4 DEF ClassController
<1>5. CASE ReconcileStep
  BY <1>5, KeepReconcile, KeepWork, KeepFinalize DEF ReconcileStep
<1>6. CASE FailCall \/ Requeue
  BY <1>6, KeepElsewhere DEF FailCall, Requeue, Retry
<1>7. CASE Restart
  <2>1. cache'.gw = gw /\ rec'.pc = "idle" /\ UNCHANGED <<gw, tunnel, left>>
    BY <1>7, ConstantTypes DEF Restart, Current, Retry
  <2> QED BY <2>1 DEF KeepInv, TunnelKept, Working, Cleaning, Cleaned
<1>8. CASE UNCHANGED vars
  BY <1>1, <1>8 DEF vars
<1> QED BY <1>1, <1>2, <1>3, <1>4, <1>5, <1>6, <1>7, <1>8 DEF Next, Faults, FailClass

LEMMA KeepInit == Init => KeepInv
<1> SUFFICES ASSUME Init PROVE KeepInv
  OBVIOUS
<1>1. gw.phase = "live" /\ ~gw.fin
  BY DEF Init, NewGateway
<1>2. cache.gw = gw /\ tunnel = 0 /\ rec.pc = "idle"
  BY ConstantTypes DEF Init, Current
<1> QED BY <1>1, <1>2 DEF KeepInv, TunnelKept, Working, Cleaning, Cleaned

\* The inductive invariant holds, whatever the informers have seen.
THEOREM KeepInvariant == Spec => []KeepInv
BY KeepInit, KeepStep, TypeCorrect, PTL DEF Spec

\* No tunnel is leaked, for any number of classes, re-creations of the Gateway,
\* edits, failed calls and restarts, and with caches of any age.
THEOREM NoLeakedTunnel == Spec => []TunnelKept
<1>1. KeepInv => TunnelKept
  BY DEF KeepInv
<1> QED BY <1>1, KeepInvariant, PTL

-----------------------------------------------------------------------------
(* What each step of a reconcile does, when its reads are up to date.      *)

Rest == <<class, gw, obj, cgs, tunnel, source, left>>

\* The reconcile ends, or it goes on with step pc of the same Gateway.
Moves(pc) == rec'.pc = "idle" \/ (rec'.pc = pc /\ rec'.gw = rec.gw)

LEMMA FreshReads ==
    ASSUME TypeOK, Fresh, ~lagging
    PROVE  /\ seen = class /\ cache.gw = gw /\ cache.cgs = cgs
           /\ \A k \in CachedKind : cache.obj[k] = obj[k]
BY DEF Fresh, Current

LEMMA IdlePc == Idle.pc = "idle"
BY ConstantTypes

LEMMA ReconcileFacts ==
    ASSUME TypeOK, Reconcile
    PROVE  /\ UNCHANGED Rest /\ rec.pc = "idle"
           /\ rec'.pc \in {"idle", "addFinalizer", "unpin", "orphan", "deleteDeployments"}
           /\ rec'.pc # "idle" => rec'.gw = cache.gw
           /\ rec'.pc = "orphan" => rec'.kinds = Kind
           /\ rec'.pc = "unpin" => rec'.classes = Finalized({cache.gw.class})
           /\ rec'.pc = "deleteDeployments" => ~cache.gw.disabled
           /\ ~lagging => cache.gw = gw /\ seen = class
<1> DEFINE g == cache.gw
           pc == Dispatch(g)
<1>1. UNCHANGED Rest /\ rec.pc = "idle" /\ (~lagging => cache.gw = gw /\ seen = class)
  BY FreshReads DEF Reconcile, At, Rest, classvars
<1>2. CASE rec' = Idle
  BY <1>1, <1>2, IdlePc
<1>3. CASE rec' # Idle
  <2>1. /\ pc # "idle"
        /\ rec' = [Idle EXCEPT !.pc = pc, !.gw = g,
                     !.kinds = IF pc = "orphan" THEN Kind ELSE {},
                     !.classes = IF pc = "unpin" THEN Finalized({g.class}) ELSE {}]
    BY <1>3 DEF Reconcile, Retry
  <2>2. /\ pc \in {"addFinalizer", "unpin", "orphan", "deleteDeployments"}
        /\ pc = "deleteDeployments" => ~g.disabled
    BY <2>1 DEF Dispatch
  <2>3. Idle \in Rec
    BY ConstantTypes
  <2> HIDE DEF g, pc
  <2>4. /\ rec'.pc = pc /\ rec'.gw = g
        /\ rec'.kinds = (IF pc = "orphan" THEN Kind ELSE {})
        /\ rec'.classes = (IF pc = "unpin" THEN Finalized({g.class}) ELSE {})
    BY <2>1, <2>3 DEF Rec
  <2> QED BY <1>1, <2>2, <2>4 DEF g
<1> QED BY <1>2, <1>3

LEMMA AddFinalizerFacts ==
    ASSUME TypeOK, AddFinalizer
    PROVE  /\ UNCHANGED <<class, obj, cgs, tunnel, source, left>>
           /\ rec.pc = "addFinalizer" /\ rec'.pc = "idle"
           /\ gw'.phase = gw.phase /\ gw'.uid = gw.uid /\ gw'.class = gw.class
           /\ gw.fin => gw'.fin
<1>1. gw' = gw \/ gw' = [gw EXCEPT !.fin = TRUE]
  BY DEF AddFinalizer
<1>2. gw'.phase = gw.phase /\ gw'.uid = gw.uid /\ gw'.class = gw.class /\ (gw.fin => gw'.fin)
  BY <1>1, KeepTypes DEF GatewayRecord
<1> QED BY <1>2, IdlePc DEF AddFinalizer, At, Retry, classvars

LEMMA UnpinFacts ==
    ASSUME TypeOK, NEW c, NEW next \in {"pin", "removeFinalizer"}, Unpin(c, next),
           rec.pc # "idle"
    PROVE  /\ UNCHANGED <<gw, obj, cgs, tunnel, source, left>> /\ c \in rec.classes
           /\ c \in Class
           /\ \/ rec'.pc = "idle" /\ class' = class
              \/ /\ rec'.gw = rec.gw /\ rec'.classes = rec.classes \ {c}
                 /\ rec'.pc = IF rec.classes \ {c} = {} THEN next ELSE rec.pc
                 /\ ~lagging => ~class'[c].fin
                 /\ \/ class' = class
                    \/ class' = [class EXCEPT ![c] = IF @.phase = "deleting" THEN NoClass
                                                     ELSE [@ EXCEPT !.fin = FALSE]]
<1>0. rec \in Rec
  BY KeepTypes
<1>1. UNCHANGED <<gw, obj, cgs, tunnel, source, left>> /\ c \in rec.classes /\ c \in Class
  BY <1>0 DEF Unpin, Rec
<1> DEFINE rest == rec.classes \ {c}
           pc == IF rest = {} THEN next ELSE rec.pc
<1>2. CASE rec' = Idle /\ class' = class
  BY <1>1, <1>2, IdlePc
<1>3. CASE ~(rec' = Idle /\ class' = class)
  <2>1. rec' = [rec EXCEPT !.classes = rest, !.pc = pc]
    <3>1. rec' = [rec EXCEPT !.classes = rest, !.pc = IF rest = {} THEN next ELSE @]
      BY <1>3 DEF Unpin, Retry
    <3> QED BY <1>0, <3>1 DEF Rec
  <2>2. rec'.gw = rec.gw /\ rec'.classes = rest /\ rec'.pc = pc
    <3> HIDE DEF rest, pc
    <3> QED BY <1>0, <2>1 DEF Rec
  <2>3. \/ class' = class /\ ~seen[c].fin
        \/ class' = [class EXCEPT ![c] = IF @.phase = "deleting" THEN NoClass
                                         ELSE [@ EXCEPT !.fin = FALSE]]
    BY <1>3 DEF Unpin, Retry
  <2>4. ~lagging => ~class'[c].fin
    <3>1. CASE class' = class /\ ~seen[c].fin
      BY <3>1, FreshReads DEF Unpin
    <3>2. CASE class' = [class EXCEPT ![c] = IF @.phase = "deleting" THEN NoClass
                                             ELSE [@ EXCEPT !.fin = FALSE]]
      <4>1. class \in [Class -> ClassRecord] /\ class[c] \in ClassRecord
        BY <1>1 DEF TypeOK, ClassTypeOK
      <4>2. class'[c] = IF class[c].phase = "deleting" THEN NoClass
                        ELSE [class[c] EXCEPT !.fin = FALSE]
        BY <1>1, <3>2, <4>1
      <4> QED BY <4>1, <4>2 DEF ClassRecord, NoClass
    <3> QED BY <2>3, <3>1, <3>2
  <2> QED BY <1>1, <2>2, <2>3, <2>4
<1> QED BY <1>2, <1>3

LEMMA PinFacts ==
    ASSUME TypeOK, Pin
    PROVE  /\ UNCHANGED <<gw, obj, cgs, tunnel, source, left>>
           /\ rec.pc \in {"unpin", "pin"} /\ Moves("ensureTunnel")
           /\ class' = class \/ (class[rec.gw.class].phase = "live"
                                 /\ class' = [class EXCEPT ![rec.gw.class].fin = TRUE])
           /\ ~lagging /\ rec'.pc = "ensureTunnel" => class'[rec.gw.class].fin
<1>0. rec \in Rec /\ rec.gw.class \in Class /\ class \in [Class -> ClassRecord]
  BY KeepTypes DEF GatewayRecord, TypeOK, ClassTypeOK
<1>1. UNCHANGED <<gw, obj, cgs, tunnel, source, left>> /\ rec.pc \in {"unpin", "pin"}
  BY DEF Pin, At
<1>2. CASE seen[rec.gw.class].fin
  <2>1. Goto("ensureTunnel") /\ class' = class
    BY <1>2 DEF Pin
  <2>2. rec'.pc = "ensureTunnel" /\ rec'.gw = rec.gw
    BY <1>0, <2>1, GotoStep DEF PC
  <2>3. ~lagging => class[rec.gw.class].fin
    BY <1>2, FreshReads DEF Pin
  <2> QED BY <1>1, <2>1, <2>2, <2>3 DEF Moves
<1>3. CASE ~seen[rec.gw.class].fin /\ class' # class
  <2>1. /\ Goto("ensureTunnel") /\ seen[rec.gw.class].phase = "live"
        /\ seen[rec.gw.class] = class[rec.gw.class]
        /\ class' = [class EXCEPT ![rec.gw.class].fin = TRUE]
    BY <1>3 DEF Pin
  <2>2. rec'.pc = "ensureTunnel" /\ rec'.gw = rec.gw
    BY <1>0, <2>1, GotoStep DEF PC
  <2>3. class'[rec.gw.class].fin
    BY <1>0, <2>1 DEF ClassRecord
  <2> QED BY <1>1, <2>1, <2>2, <2>3 DEF Moves
<1>4. CASE ~seen[rec.gw.class].fin /\ class' = class
  <2>1. CASE rec' = Idle
    BY <1>1, <1>4, <2>1, IdlePc DEF Moves
  <2>2. CASE rec' # Idle
    <3>1. /\ Goto("ensureTunnel")
          /\ class' = [class EXCEPT ![rec.gw.class].fin = TRUE]
      BY <1>4, <2>2 DEF Pin, Retry
    <3>2. rec'.pc = "ensureTunnel" /\ rec'.gw = rec.gw
      BY <1>0, <3>1, GotoStep DEF PC
    <3>3. class'[rec.gw.class].fin
      BY <1>0, <3>1 DEF ClassRecord
    <3> QED BY <1>1, <1>4, <3>2, <3>3 DEF Moves
  <2> QED BY <2>1, <2>2
<1> QED BY <1>2, <1>3, <1>4

LEMMA EnsureTunnelFacts ==
    ASSUME TypeOK, EnsureTunnel
    PROVE  /\ UNCHANGED <<class, gw, obj, cgs, left>>
           /\ rec.pc = "ensureTunnel" /\ Moves("apply")
           /\ \/ rec'.pc = "idle" /\ UNCHANGED <<tunnel, source>>
              \/ /\ tunnel' = rec.gw.uid
                 /\ source' \subseteq {gw.class}
                 /\ source' # {} => gw.class = rec.gw.class
<1>0. rec \in Rec
  BY KeepTypes
<1>1. UNCHANGED <<class, gw, obj, cgs, left>> /\ rec.pc = "ensureTunnel"
  BY DEF EnsureTunnel, At, classvars
<1>2. CASE ~config.secret
  BY <1>1, <1>2, IdlePc DEF EnsureTunnel, Retry, Moves
<1>3. CASE config.secret
  <2>1. rec'.pc = "apply" /\ rec'.gw = rec.gw
    BY <1>0, <1>3 DEF EnsureTunnel, Rec
  <2>2. /\ tunnel' = rec.gw.uid
        /\ source' = IF gw.class = rec.gw.class /\ gw.uid = rec.gw.uid THEN {gw.class} ELSE {}
    BY <1>3 DEF EnsureTunnel
  <2> QED BY <1>1, <2>1, <2>2 DEF Moves
<1> QED BY <1>2, <1>3

LEMMA ApplyObjectFacts ==
    ASSUME TypeOK, ApplyObject
    PROVE  /\ UNCHANGED <<class, gw, cgs, tunnel, source, left>>
           /\ rec.pc = "apply" /\ rec'.gw = rec.gw
           /\ rec'.pc \in {"apply", "freeStatus", "patchStatus", "createStatus"}
           /\ \A k \in Kind : obj'[k] = obj[k] \/ obj'[k] = OwnedBy(rec.gw.uid)
<1>0. rec \in Rec /\ obj \in [Kind -> Object]
  BY KeepTypes DEF TypeOK
<1> DEFINE k == First(ApplyOrder, rec.kinds)
           pc == IF rec.kinds \ {k} # {} THEN rec.pc ELSE IF rec.cgs.deleting THEN "freeStatus"
                 ELSE IF rec.cgs.exists THEN "patchStatus" ELSE "createStatus"
<1>1. UNCHANGED <<class, gw, cgs, tunnel, source, left>> /\ rec.pc = "apply"
  BY DEF ApplyObject, At, classvars
<1>2. rec' = [rec EXCEPT !.kinds = rec.kinds \ {k}, !.pc = pc]
  BY <1>0 DEF ApplyObject, Rec
<1>3. obj' = [obj EXCEPT ![k] = OwnedBy(rec.gw.uid)]
  BY DEF ApplyObject
<1>4. pc \in {"apply", "freeStatus", "patchStatus", "createStatus"}
  BY <1>1
<1> HIDE DEF k, pc
<1>5. rec'.gw = rec.gw /\ rec'.pc = pc
  BY <1>0, <1>2 DEF Rec
<1>6. \A j \in Kind : obj'[j] = obj[j] \/ obj'[j] = OwnedBy(rec.gw.uid)
  BY <1>0, <1>3
<1> QED BY <1>1, <1>4, <1>5, <1>6

\* The steps on the CGS give its finalizer to the Gateway of the reconcile only.
LEMMA StatusFacts ==
    ASSUME TypeOK, FreeStatus \/ CreateStatus \/ PatchStatus
    PROVE  /\ UNCHANGED <<class, gw, obj, tunnel, source, left>>
           /\ rec.pc \in {"freeStatus", "createStatus", "patchStatus"}
           /\ Moves("createStatus")
           /\ cgs'.fin => cgs' = cgs \/ cgs'.owner = rec.gw.uid
<1>0. rec \in Rec /\ cgs \in Status
  BY KeepTypes DEF TypeOK
<1>1. CASE FreeStatus
  <2>1. rec.pc = "freeStatus" /\ UNCHANGED <<class, gw, obj, tunnel, source, left>>
    BY <1>1 DEF FreeStatus, At, classvars
  <2>2. Moves("createStatus")
    <3>1. rec' = Idle \/ Goto("createStatus")
      BY <1>1 DEF FreeStatus, Retry
    <3> QED BY <1>0, <3>1, GotoStep, IdlePc DEF Moves, PC
  <2>3. ~cgs'.fin
    BY <1>0, <1>1 DEF FreeStatus, Unfinalized, NoStatus, Status
  <2> QED BY <2>1, <2>2, <2>3
<1>2. CASE CreateStatus
  BY <1>2, IdlePc DEF CreateStatus, At, classvars, Moves
<1>3. CASE PatchStatus
  BY <1>3, IdlePc DEF PatchStatus, At, classvars, Moves
<1> QED BY <1>1, <1>2, <1>3

LEMMA DeleteDeploymentsFacts ==
    ASSUME TypeOK, DeleteDeployments \/ AwaitDeployments
    PROVE  /\ UNCHANGED <<class, gw, cgs, tunnel, source, left>>
           /\ rec.pc \in {"deleteDeployments", "wait"}
           /\ rec'.pc \in {"wait", "deleteTunnel"} /\ rec'.gw = rec.gw
           /\ \A k \in Kind : obj'[k] = obj[k] \/ obj'[k] = NoObject
           /\ ~lagging => ~obj'["Deployment"].exists \/ (obj' = obj /\ rec.pc = "wait")
<1>0. rec \in Rec /\ obj \in [Kind -> Object]
  BY KeepTypes DEF TypeOK
<1>1. UNCHANGED <<class, gw, cgs, tunnel, source, left>>
  BY DEF DeleteDeployments, AwaitDeployments, classvars
<1>2. rec.pc \in {"deleteDeployments", "wait"}
  BY DEF DeleteDeployments, AwaitDeployments, At
<1>3. rec'.pc \in {"wait", "deleteTunnel"} /\ rec'.gw = rec.gw
  <2>1. Goto("wait") \/ Goto("deleteTunnel")
    BY DEF DeleteDeployments, AwaitDeployments
  <2> QED BY <1>0, <2>1, GotoStep DEF PC
<1>4. CASE AwaitDeployments
  BY <1>1, <1>2, <1>3, <1>4 DEF AwaitDeployments, At
<1>5. CASE DeleteDeployments
  <2>1. \/ obj' = obj /\ ~cache.obj["Deployment"].exists
        \/ obj' = [obj EXCEPT !["Deployment"] = NoObject]
    BY <1>5 DEF DeleteDeployments
  <2>2. "Deployment" \in Kind /\ "Deployment" \in CachedKind
    BY DEF CachedKind
  <2>3. ~lagging => cache.obj["Deployment"] = obj["Deployment"]
    BY <1>5, <2>2, FreshReads DEF DeleteDeployments
  <2>4. ~NoObject.exists
    BY DEF NoObject
  <2> QED BY <1>0, <1>1, <1>2, <1>3, <2>1, <2>2, <2>3, <2>4
<1> QED BY <1>4, <1>5

LEMMA DeleteTunnelFacts ==
    ASSUME TypeOK, DeleteTunnel
    PROVE  /\ UNCHANGED <<class, gw, obj, cgs, source, left>>
           /\ rec.pc = "deleteTunnel" /\ Moves("releaseStatus")
           /\ tunnel' \in {0, tunnel}
<1>0. rec \in Rec
  BY KeepTypes
<1>1. rec' = Idle \/ Goto("releaseStatus")
  BY DEF DeleteTunnel, Retry
<1>2. Moves("releaseStatus")
  BY <1>0, <1>1, GotoStep, IdlePc DEF Moves, PC
<1> QED BY <1>2 DEF DeleteTunnel, At, classvars

LEMMA ReleaseStatusFacts ==
    ASSUME TypeOK, ReleaseStatus
    PROVE  /\ UNCHANGED <<class, gw, obj, tunnel, source, left>>
           /\ rec.pc = "releaseStatus" /\ Moves("release")
           /\ cgs' = cgs \/ ~cgs'.fin
           /\ ~lagging /\ rec'.pc = "release" => ~cgs'.fin
<1>0. rec \in Rec /\ cgs \in Status
  BY KeepTypes DEF TypeOK
<1>1. UNCHANGED <<class, gw, obj, tunnel, source, left>> /\ rec.pc = "releaseStatus"
  BY DEF ReleaseStatus, At, classvars
<1>2. Moves("release")
  <2>1. rec' = Idle \/ Goto("release")
    BY DEF ReleaseStatus, Retry
  <2> QED BY <1>0, <2>1, GotoStep, IdlePc DEF Moves, PC
<1>3. ~Unfinalized(cgs).fin
  BY <1>0 DEF Unfinalized, NoStatus, Status
<1>4. CASE ~cache.cgs.fin
  BY <1>1, <1>2, <1>4, FreshReads DEF ReleaseStatus
<1>5. CASE cache.cgs.fin
  BY <1>1, <1>2, <1>3, <1>5, IdlePc DEF ReleaseStatus, Retry
<1> QED BY <1>4, <1>5

LEMMA OrphanFacts ==
    ASSUME TypeOK, RemoveOwnerReferences
    PROVE  /\ UNCHANGED <<class, gw, cgs, tunnel, source, left>> /\ rec.pc = "orphan"
           /\ \A j \in Kind : \/ obj'[j] = obj[j]
                             \/ /\ obj'[j] = [obj[j] EXCEPT !.owner = 0]
                                /\ ~lagging => obj[j].exists
           /\ \/ rec'.pc = "idle"
              \/ \E k : /\ rec'.gw = rec.gw /\ rec'.kinds = rec.kinds \ {k}
                        /\ rec'.pc = IF rec.kinds \ {k} = {} THEN "release" ELSE "orphan"
                        /\ ~lagging /\ k \in Kind =>
                              obj'[k].owner # rec.gw.uid \/ ~obj'[k].exists
<1>0. rec \in Rec /\ obj \in [Kind -> Object] /\ rec.gw.uid # 0
  BY KeepTypes DEF TypeOK, GatewayRecord, UID
<1>1. UNCHANGED <<class, gw, cgs, tunnel, source, left>> /\ rec.pc = "orphan"
  BY DEF RemoveOwnerReferences, At, classvars
<1> DEFINE k == First(OrphanOrder, rec.kinds)
           rest == rec.kinds \ {k}
           pc == IF rest = {} THEN "release" ELSE "orphan"
           o == Listed(k)
<1>2. ~lagging /\ k \in Kind => o = obj[k]
  BY FreshReads DEF RemoveOwnerReferences, Listed
<1>3. \/ rec' = Idle /\ obj' = obj
      \/ /\ rec' = [rec EXCEPT !.kinds = rest, !.pc = pc]
         /\ \/ obj' = obj /\ (~o.exists \/ o.owner # rec.gw.uid)
            \/ obj' = [obj EXCEPT ![k].owner = 0] /\ o.exists
  BY <1>0, <1>1 DEF RemoveOwnerReferences, Retry, Rec
<1> HIDE DEF k, o
<1>4. CASE rec' = Idle /\ obj' = obj
  BY <1>1, <1>4, IdlePc
<1>5. CASE /\ rec' = [rec EXCEPT !.kinds = rest, !.pc = pc]
           /\ \/ obj' = obj /\ (~o.exists \/ o.owner # rec.gw.uid)
              \/ obj' = [obj EXCEPT ![k].owner = 0] /\ o.exists
  <2>1. rec'.gw = rec.gw /\ rec'.kinds = rest /\ rec'.pc = pc
    <3> HIDE DEF rest, pc
    <3> QED BY <1>0, <1>5 DEF Rec
  <2>2. \A j \in Kind : j # k => obj'[j] = obj[j]
    BY <1>0, <1>5
  <2>3. ~lagging /\ k \in Kind =>
           /\ obj'[k].owner # rec.gw.uid \/ ~obj'[k].exists
           /\ obj'[k] = obj[k] \/ (obj'[k] = [obj[k] EXCEPT !.owner = 0] /\ obj[k].exists)
    <3> SUFFICES ASSUME ~lagging, k \in Kind
                 PROVE  /\ obj'[k].owner # rec.gw.uid \/ ~obj'[k].exists
                        /\ \/ obj'[k] = obj[k]
                           \/ obj'[k] = [obj[k] EXCEPT !.owner = 0] /\ obj[k].exists
      OBVIOUS
    <3>1. CASE obj' = obj /\ (~o.exists \/ o.owner # rec.gw.uid)
      BY <1>2, <3>1
    <3>2. CASE obj' = [obj EXCEPT ![k].owner = 0] /\ o.exists
      <4>1. obj[k] \in Object /\ obj'[k] = [obj[k] EXCEPT !.owner = 0]
        BY <1>0, <3>2
      <4>2. obj'[k].owner = 0
        BY <4>1 DEF Object
      <4> QED BY <1>0, <1>2, <3>2, <4>1, <4>2
    <3> QED BY <1>5, <3>1, <3>2
  <2>4. k \in Kind => obj'[k] = obj[k] \/ obj'[k] = [obj[k] EXCEPT !.owner = 0]
    BY <1>0, <1>5
  <2> QED BY <1>1, <2>1, <2>2, <2>3, <2>4
<1> QED BY <1>3, <1>4, <1>5

LEMMA ListClassesFacts ==
    ASSUME TypeOK, ListClasses
    PROVE  /\ UNCHANGED Rest /\ rec.pc = "release" /\ rec'.gw = rec.gw
           /\ rec'.classes = Finalized({})
           /\ rec'.pc = IF Finalized({}) = {} THEN "removeFinalizer" ELSE "unpinAll"
           /\ ~lagging => seen = class
<1>0. rec \in Rec
  BY KeepTypes
<1>1. UNCHANGED Rest /\ rec.pc = "release" /\ (~lagging => seen = class)
  BY FreshReads DEF ListClasses, At, Rest, classvars
<1> DEFINE cs == Finalized({})
           pc == IF cs = {} THEN "removeFinalizer" ELSE "unpinAll"
<1>2. rec' = [rec EXCEPT !.classes = cs, !.pc = pc]
  BY DEF ListClasses
<1>3. rec'.gw = rec.gw /\ rec'.classes = cs /\ rec'.pc = pc
  <2> HIDE DEF cs, pc
  <2> QED BY <1>0, <1>2 DEF Rec
<1> QED BY <1>1, <1>3

LEMMA RemoveFinalizerFacts ==
    ASSUME TypeOK, RemoveFinalizer
    PROVE  /\ UNCHANGED <<class, obj, cgs, tunnel, source>>
           /\ rec.pc = "removeFinalizer" /\ rec'.pc = "idle"
           /\ gw'.uid = gw.uid /\ gw'.class = gw.class /\ ~gw'.fin
           /\ gw'.phase = IF gw.phase = "deleting" THEN "absent" ELSE gw.phase
           /\ left' = IF gw.phase = "deleting" /\ rec.gw.disabled THEN left \cup {gw.uid}
                      ELSE left
BY KeepTypes, IdlePc DEF RemoveFinalizer, At, classvars, GatewayRecord

-----------------------------------------------------------------------------
(* What the others do meanwhile: users, Kubernetes, the controller of the  *)
(* classes and faults.                                                     *)

OutsideStep == User \/ Kubernetes \/ ClassController \/ Faults \/ Requeue \/ UNCHANGED vars

\* The Gateway stays, perhaps without its source, or it is created anew.
SameGateway ==
    /\ gw'.uid = gw.uid /\ gw'.fin = gw.fin
    /\ gw.phase = "absent" => gw'.phase = "absent"
    /\ gw'.phase = "live" => gw.phase = "live"
    /\ source' = {} \/ (source' = source /\ gw'.class = gw.class)
OtherGateway == gw.phase = "absent" /\ gw'.uid = gw.uid + 1 /\ ~gw'.fin /\ source' = {}

\* Nobody else adds a finalizer to a class or to the CGS or an object, takes a
\* finalizer from a class, or ensures a tunnel.
SameClasses == \A c \in Class : /\ class'[c].fin = class[c].fin
                                /\ class[c].fin => class'[c].phase # "absent"
SameStatus == cgs'.fin => cgs.fin /\ cgs'.owner = cgs.owner
SameObjects == \A k \in Kind : obj'[k] = obj[k] \/ obj'[k] = NoObject
Outside ==
    /\ UNCHANGED <<tunnel, left>>
    /\ rec' = rec \/ rec'.pc = "idle"
    /\ SameObjects /\ SameStatus /\ SameClasses
    /\ SameGateway \/ OtherGateway

\* A class that has the finalizer exists.
ClassesExist == \A c \in Class : class[c].fin => class[c].phase # "absent"

LEMMA LaggingStep == [Next]_vars => lagging' = lagging
<1>1. User => lagging' = lagging
  BY DEF User, CreateGateway, SwitchClass, DeleteGateway, ToggleReconcile, DeleteStatus,
         EditClass, DeleteClass, CreateClass, EditConfig
<1>2. Kubernetes => lagging' = lagging
  BY DEF Kubernetes, CollectObject, SeeObject, CollectStatus, SeeGateway, SeeStatus,
         SeeGatewayClass, SeeClass
<1>3. ClassController \/ Faults \/ Requeue => lagging' = lagging
  BY DEF ClassController, ReconcileClass, PatchClass, Faults, FailCall, Restart, RestartClass,
         FailClass, FailRead, FailPatch, Requeue
<1>4. ReconcileStep => lagging' = lagging
  BY DEF ReconcileStep, Reconcile, AddFinalizer, UnpinOthers, Pin, EnsureTunnel, ApplyObject,
         FreeStatus, CreateStatus, PatchStatus, DeleteDeployments, AwaitDeployments,
         DeleteTunnel, ReleaseStatus, RemoveOwnerReferences, ListClasses, UnpinAll, Unpin,
         RemoveFinalizer
<1> QED BY <1>1, <1>2, <1>3, <1>4 DEF Next, vars

\* A class is deleted at once only without the finalizer, and its status is
\* independent of it.
LEMMA ClassFacts ==
    ASSUME TypeOK, ClassesExist, EditClass \/ ClassController \/ FailClass
    PROVE  SameClasses
<1>0. class \in [Class -> ClassRecord]
  BY DEF TypeOK, ClassTypeOK
<1>1. ASSUME class' = class PROVE SameClasses
  BY <1>1 DEF SameClasses, ClassesExist
<1>2. ASSUME NEW c \in Class, NEW b \in BOOLEAN, class' = [class EXCEPT ![c].ready = b]
      PROVE  SameClasses
  BY <1>0, <1>2 DEF SameClasses, ClassesExist, ClassRecord
<1>3. ASSUME NEW c \in Class, DeleteClass(c) PROVE SameClasses
  <2>1. CASE class[c].fin
    <3>1. class' = [class EXCEPT ![c] = [class[c] EXCEPT !.phase = "deleting"]]
      BY <1>3, <2>1 DEF DeleteClass
    <3> QED BY <1>0, <2>1, <3>1 DEF SameClasses, ClassesExist, ClassRecord
  <2>2. CASE ~class[c].fin
    <3>1. class' = [class EXCEPT ![c] = NoClass]
      BY <1>3, <2>2 DEF DeleteClass
    <3> QED BY <1>0, <2>2, <3>1 DEF SameClasses, ClassesExist, NoClass, ClassRecord
  <2> QED BY <2>1, <2>2
<1>4. ASSUME NEW c \in Class, CreateClass(c) PROVE SameClasses
  <2>1. ~class[c].fin /\ class' = [class EXCEPT ![c] = NewClass]
    BY <1>4 DEF CreateClass, ClassesExist
  <2> QED BY <1>0, <2>1 DEF SameClasses, ClassesExist, NewClass, ClassRecord
<1>5. CASE PatchClass
  <2>1. classrec.ready \in BOOLEAN /\ classrec.class \subseteq Class
    BY DEF TypeOK, ClassTypeOK
  <2>2. class' = class \/ \E c \in Class : class' = [class EXCEPT ![c].ready = classrec.ready]
    BY <1>5, <2>1 DEF PatchClass
  <2> QED BY <1>1, <1>2, <2>1, <2>2
<1>6. ASSUME NEW c \in Class, FailRead(c) PROVE SameClasses
  BY <1>1, <1>2, <1>6 DEF FailRead
<1>7. \/ class' = class
      \/ \E c \in Class : DeleteClass(c) \/ CreateClass(c) \/ FailRead(c)
      \/ PatchClass
  BY DEF EditClass, ClassController, FailClass, EditConfig, ReconcileClass, FailPatch
<1> QED BY <1>1, <1>3, <1>4, <1>5, <1>6, <1>7

LEMMA OutsideFacts ==
    ASSUME TypeOK, ClassesExist, OutsideStep
    PROVE  Outside
<1>0. gw \in GatewayRecord /\ cgs \in Status /\ obj \in [Kind -> Object]
  BY DEF TypeOK
<1>1. ASSUME UNCHANGED <<gw, source>> PROVE SameGateway
  BY <1>1 DEF SameGateway
<1>2. ASSUME class' = class PROVE SameClasses
  BY <1>2 DEF SameClasses, ClassesExist
<1>3. ASSUME cgs' = cgs PROVE SameStatus
  BY <1>3 DEF SameStatus
<1>4. ASSUME obj' = obj PROVE SameObjects
  BY <1>4 DEF SameObjects
<1>5. CASE EditClass \/ ClassController \/ FailClass
  BY <1>1, <1>3, <1>4, <1>5, ClassFacts
    DEF EditClass, ClassController, FailClass, gwvars, Outside
<1>6. ASSUME NEW c \in Class, CreateGateway(c) PROVE Outside
  <2>1. OtherGateway
    BY <1>6 DEF CreateGateway, NewGateway, OtherGateway
  <2> QED BY <1>2, <1>3, <1>4, <1>6, <2>1 DEF CreateGateway, classvars, Outside
<1>7. ASSUME NEW c \in Class, SwitchClass(c) PROVE Outside
  <2>1. SameGateway
    BY <1>0, <1>7 DEF SwitchClass, SameGateway, GatewayRecord
  <2> QED BY <1>2, <1>3, <1>4, <1>7, <2>1 DEF SwitchClass, classvars, Outside
<1>8. CASE DeleteGateway
  <2>1. SameGateway
    BY <1>0, <1>8 DEF DeleteGateway, SameGateway, GatewayRecord
  <2> QED BY <1>2, <1>3, <1>4, <1>8, <2>1 DEF DeleteGateway, classvars, Outside
<1>9. CASE ToggleReconcile
  <2>1. SameGateway
    BY <1>0, <1>9 DEF ToggleReconcile, SameGateway, GatewayRecord
  <2> QED BY <1>2, <1>3, <1>4, <1>9, <2>1 DEF ToggleReconcile, classvars, Outside
<1>10. CASE DeleteStatus \/ CollectStatus
  <2>1. cgs' = NoStatus \/ cgs' = [cgs EXCEPT !.deleting = TRUE]
    BY <1>10 DEF DeleteStatus, CollectStatus
  <2>2. SameStatus
    BY <1>0, <2>1 DEF SameStatus, Status, NoStatus
  <2> QED BY <1>1, <1>2, <1>4, <1>10, <2>2 DEF DeleteStatus, CollectStatus, classvars, Outside
<1>11. ASSUME NEW k \in Kind, CollectObject(k) PROVE Outside
  <2>1. SameObjects
    BY <1>0, <1>11 DEF CollectObject, SameObjects
  <2> QED BY <1>1, <1>2, <1>3, <1>11, <2>1 DEF CollectObject, classvars, Outside
<1>12. ASSUME UNCHANGED Rest, rec' = rec \/ rec'.pc = "idle" PROVE Outside
  BY <1>1, <1>2, <1>3, <1>4, <1>12 DEF Rest, Outside
<1>13. CASE \/ SeeGateway \/ SeeStatus \/ FailCall \/ Restart \/ Requeue \/ UNCHANGED vars
            \/ \E k \in Kind : SeeObject(k)
            \/ \E c \in Class : SeeGatewayClass(c)
  BY <1>12, <1>13, IdlePc
    DEF SeeGateway, SeeStatus, FailCall, Restart, RestartClass, Requeue, SeeObject,
        SeeGatewayClass, SeeClass, Retry, vars, gwvars, classvars, Rest
<1> QED BY <1>5, <1>6, <1>7, <1>8, <1>9, <1>10, <1>11, <1>13
      DEF OutsideStep, User, Kubernetes, Faults

\* The others do not undo what a reconcile has seen to.
LEMMA OutsideHold ==
    ASSUME TypeOK, KeepInv, HoldInv, Outside, lagging' = lagging
    PROVE  HoldInv'
<1>0. /\ gw \in GatewayRecord /\ gw.uid \in UID /\ obj \in [Kind -> Object]
      /\ left \subseteq UID /\ rec.gw.uid \in UID /\ source \subseteq Class
      /\ "Deployment" \in Kind /\ \A u \in UID : u \in Nat /\ u # 0
  BY KeepTypes DEF TypeOK, GatewayRecord, UID
<1>1. UNCHANGED <<tunnel, left, lagging>> /\ (rec' = rec \/ rec'.pc = "idle")
  BY DEF Outside
<1>2. \A k \in Kind : obj'[k] = obj[k] \/ (~obj'[k].exists /\ obj'[k].owner = 0)
  BY DEF Outside, SameObjects, NoObject
<1>3. OwnerInv /\ ConnectorInv /\ ClassInv /\ ReleaseInv
  BY DEF HoldInv
<1>4. OwnerInv'
  <2>1. \A u \in left : u <= gw'.uid /\ (u = gw'.uid => gw'.phase = "absent")
    <3>1. ASSUME NEW u \in left
          PROVE  u \in Nat /\ u <= gw.uid /\ (u = gw.uid => gw.phase = "absent")
      BY <1>0, <1>3 DEF OwnerInv
    <3>2. CASE SameGateway
      BY <3>1, <3>2 DEF SameGateway
    <3>3. CASE OtherGateway
      BY <1>0, <3>1, <3>3 DEF OtherGateway
    <3> QED BY <3>2, <3>3 DEF Outside
  <2>2. \A k \in Kind : obj'[k].exists \/ obj'[k].owner = 0
    BY <1>2, <1>3 DEF OwnerInv
  <2>3. ~lagging => \A k \in Kind : obj'[k].owner \notin left
    BY <1>0, <1>2, <1>3 DEF OwnerInv, LeftUnowned
  <2>4. CASE rec' = rec
    <3>1. rec.pc \in {"deleteDeployments", "wait", "deleteTunnel", "releaseStatus"} =>
             ~rec.gw.disabled
      BY <1>3 DEF OwnerInv
    <3>2. ~lagging /\ rec.pc = "orphan" => \A k \in Kind \ rec.kinds : obj'[k].owner # rec.gw.uid
      BY <1>0, <1>2, <1>3 DEF OwnerInv
    <3>3. ~lagging /\ rec.pc \in Releasing /\ rec.gw.disabled =>
             \A k \in Kind : obj'[k].owner # rec.gw.uid
      BY <1>0, <1>2, <1>3 DEF OwnerInv
    <3> QED BY <1>1, <2>1, <2>2, <2>3, <2>4, <3>1, <3>2, <3>3 DEF OwnerInv, LeftUnowned
  <2>5. CASE rec'.pc = "idle"
    BY <1>1, <2>1, <2>2, <2>3, <2>5 DEF OwnerInv, LeftUnowned, Releasing
  <2> QED BY <1>1, <2>4, <2>5
<1>5. ConnectorInv'
  <2>1. CASE rec' = rec
    BY <1>0, <1>1, <1>2, <1>3, <2>1 DEF ConnectorInv, ConnectorsHaveTunnel
  <2>2. CASE rec'.pc = "idle"
    BY <1>0, <1>1, <1>2, <1>3, <2>2 DEF ConnectorInv, ConnectorsHaveTunnel
  <2> QED BY <1>1, <2>1, <2>2
<1>6. ClassInv'
  <2>1. /\ \A c \in Class : class'[c].fin = class[c].fin
        /\ \A c \in Class : class'[c].fin => class'[c].phase # "absent"
    BY DEF Outside, SameClasses
  <2>2. source' \subseteq {gw'.class} /\ source' \subseteq source
    BY <1>3 DEF Outside, SameGateway, OtherGateway, ClassInv
  <2>3. ~lagging /\ tunnel = gw'.uid /\ gw'.phase = "live" => \A c \in source' : class[c].fin
    BY <1>3 DEF Outside, SameGateway, OtherGateway, ClassInv
  <2>4. rec.gw.class \in Class
    BY KeepTypes DEF GatewayRecord
  <2>5. CASE rec' = rec
    BY <1>0, <1>1, <1>3, <2>1, <2>2, <2>3, <2>4, <2>5 DEF ClassInv
  <2>6. CASE rec'.pc = "idle"
    BY <1>0, <1>1, <1>3, <2>1, <2>2, <2>3, <2>6 DEF ClassInv
  <2> QED BY <1>1, <2>5, <2>6
<1>7. ReleaseInv'
  <2>1. \A c \in Class : class'[c].fin = class[c].fin
    BY DEF Outside, SameClasses
  <2>2. cgs'.fin => cgs.fin /\ cgs'.owner = cgs.owner
    BY DEF Outside, SameStatus
  <2>3. ~lagging => /\ ~gw'.fin => /\ \A c \in Class : ~class'[c].fin
                                   /\ cgs'.fin => cgs'.owner \in left
                    /\ cgs'.fin => cgs'.owner \in left \cup {gw'.uid}
    <3>1. gw.phase = "absent" => ~gw.fin
      BY DEF KeepInv
    <3>2. CASE SameGateway
      BY <1>3, <2>1, <2>2, <3>2 DEF SameGateway, ReleaseInv
    <3>3. CASE OtherGateway
      BY <1>3, <2>1, <2>2, <3>1, <3>3 DEF OtherGateway, ReleaseInv
    <3> QED BY <3>2, <3>3 DEF Outside
  <2>4. CASE rec' = rec
    BY <1>1, <1>3, <2>1, <2>2, <2>3, <2>4 DEF ReleaseInv
  <2>5. CASE rec'.pc = "idle"
    BY <1>1, <2>3, <2>5 DEF ReleaseInv, Releasing
  <2> QED BY <1>1, <2>4, <2>5
<1> QED BY <1>4, <1>5, <1>6, <1>7 DEF HoldInv

\* Owner references are removed kind by kind, and given by a reconcile of a
\* Gateway that is there only.
LEMMA OwnerStep ==
    ASSUME TypeOK, KeepInv, OwnerInv, ReconcileStep, lagging' = lagging
    PROVE  OwnerInv'
<1>0. /\ gw \in GatewayRecord /\ gw.uid \in UID /\ obj \in [Kind -> Object]
      /\ left \subseteq UID /\ rec.gw.uid \in UID
      /\ 0 \notin UID /\ \A u \in UID : u \in Nat
  BY KeepTypes DEF TypeOK, GatewayRecord, UID
<1>a. /\ \A u : OwnedBy(u).exists /\ OwnedBy(u).owner = u
      /\ ~NoObject.exists /\ NoObject.owner = 0
  BY DEF OwnedBy, NoObject
<1>1. CASE Reconcile
  <2>1. /\ UNCHANGED <<gw, obj, left>>
        /\ rec'.pc \in {"idle", "addFinalizer", "unpin", "orphan", "deleteDeployments"}
        /\ rec'.pc = "orphan" => rec'.kinds = Kind
        /\ rec'.pc = "deleteDeployments" => ~rec'.gw.disabled
    BY <1>1, ReconcileFacts DEF Rest
  <2> QED BY <2>1 DEF OwnerInv, LeftUnowned, Releasing
<1>2. CASE AddFinalizer
  <2>1. /\ UNCHANGED <<obj, left>> /\ rec'.pc = "idle"
        /\ gw'.phase = gw.phase /\ gw'.uid = gw.uid
    BY <1>2, AddFinalizerFacts
  <2> QED BY <2>1 DEF OwnerInv, LeftUnowned, Releasing
<1>3. ASSUME UNCHANGED <<gw, obj, left>>,
             rec'.pc \in Working \cup {"idle"}
      PROVE  OwnerInv'
  BY <1>3 DEF OwnerInv, LeftUnowned, Releasing, Working
<1>4. CASE UnpinOthers
  <2>1. PICK c \in rec.classes : Unpin(c, "pin")
    BY <1>4 DEF UnpinOthers
  <2>2. rec.pc = "unpin"
    BY <1>4 DEF UnpinOthers, At
  <2> QED BY <1>3, <2>1, <2>2, UnpinFacts DEF Working
<1>5. CASE Pin
  BY <1>3, <1>5, PinFacts DEF Moves, Working
<1>6. CASE EnsureTunnel
  BY <1>3, <1>6, EnsureTunnelFacts DEF Moves, Working
<1>7. CASE ApplyObject
  <2>1. /\ UNCHANGED <<gw, left>> /\ rec.pc = "apply" /\ rec'.gw = rec.gw
        /\ rec'.pc \in {"apply", "freeStatus", "patchStatus", "createStatus"}
        /\ \A k \in Kind : obj'[k] = obj[k] \/ (obj'[k].exists /\ obj'[k].owner = rec.gw.uid)
    BY <1>7, <1>a, ApplyObjectFacts
  <2>2. gw.fin /\ gw.uid = rec.gw.uid /\ gw.phase # "absent"
    BY <2>1 DEF KeepInv, Working
  <2>3. rec.gw.uid \notin left
    BY <2>2 DEF OwnerInv
  <2> QED BY <2>1, <2>3 DEF OwnerInv, LeftUnowned, Releasing
<1>8. CASE FreeStatus \/ CreateStatus \/ PatchStatus
  BY <1>3, <1>8, StatusFacts DEF Moves, Working
<1>9. CASE DeleteDeployments \/ AwaitDeployments
  <2>1. /\ UNCHANGED <<gw, left>> /\ rec.pc \in {"deleteDeployments", "wait"}
        /\ rec'.pc \in {"wait", "deleteTunnel"} /\ rec'.gw = rec.gw
        /\ \A k \in Kind : obj'[k] = obj[k] \/ (~obj'[k].exists /\ obj'[k].owner = 0)
    BY <1>9, <1>a, DeleteDeploymentsFacts
  <2>2. ~rec.gw.disabled
    BY <2>1 DEF OwnerInv
  <2> QED BY <1>0, <2>1, <2>2 DEF OwnerInv, LeftUnowned, Releasing
<1>10. CASE DeleteTunnel
  <2>1. /\ UNCHANGED <<gw, obj, left>> /\ rec.pc = "deleteTunnel" /\ Moves("releaseStatus")
    BY <1>10, DeleteTunnelFacts
  <2> QED BY <2>1 DEF OwnerInv, LeftUnowned, Releasing, Moves
<1>11. CASE ReleaseStatus
  <2>1. /\ UNCHANGED <<gw, obj, left>> /\ rec.pc = "releaseStatus" /\ Moves("release")
    BY <1>11, ReleaseStatusFacts
  <2>2. ~rec.gw.disabled
    BY <2>1 DEF OwnerInv
  <2> QED BY <2>1, <2>2 DEF OwnerInv, LeftUnowned, Releasing, Moves
<1>12. CASE RemoveOwnerReferences
  <2>1. UNCHANGED <<gw, left>> /\ rec.pc = "orphan"
    BY <1>12, OrphanFacts
  <2>2. ASSUME NEW k \in Kind
        PROVE  /\ obj'[k] = obj[k] \/ obj'[k].owner = 0
               /\ obj'[k].exists \/ obj'[k].owner = 0
    <3>1. obj'[k] = obj[k] \/ obj'[k] = [obj[k] EXCEPT !.owner = 0]
      BY <1>12, OrphanFacts
    <3>2. obj[k] \in Object
      BY <1>0
    <3> QED BY <3>1, <3>2 DEF OwnerInv, Object
  <2>3. ~lagging => \A k \in Kind : obj'[k].owner \notin left
    BY <1>0, <2>2 DEF OwnerInv, LeftUnowned
  <2>4. CASE rec'.pc = "idle"
    BY <2>1, <2>2, <2>3, <2>4 DEF OwnerInv, LeftUnowned, Releasing
  <2>5. CASE rec'.pc # "idle"
    <3>1. PICK k : /\ rec'.gw = rec.gw /\ rec'.kinds = rec.kinds \ {k}
                   /\ rec'.pc = IF rec.kinds \ {k} = {} THEN "release" ELSE "orphan"
                   /\ ~lagging /\ k \in Kind => obj'[k].owner # rec.gw.uid \/ ~obj'[k].exists
      BY <1>12, <2>5, OrphanFacts
    <3>2. ~lagging => \A j \in Kind \ rec'.kinds : obj'[j].owner # rec.gw.uid
      BY <1>0, <2>1, <2>2, <3>1 DEF OwnerInv
    <3>3. rec'.pc \in {"release", "orphan"}
      BY <3>1
    <3>4. rec'.pc = "release" => rec'.kinds = {}
      BY <3>1
    <3> QED BY <2>1, <2>2, <2>3, <3>1, <3>2, <3>3, <3>4 DEF OwnerInv, LeftUnowned, Releasing
  <2> QED BY <2>4, <2>5
<1>13. ASSUME UNCHANGED <<gw, obj, left>>, rec'.gw = rec.gw \/ rec'.pc = "idle",
              rec.pc \in Releasing, rec'.pc \in Releasing \cup {"idle"}
       PROVE  OwnerInv'
  BY <1>13 DEF OwnerInv, LeftUnowned, Releasing
<1>14. CASE ListClasses
  BY <1>13, <1>14, ListClassesFacts DEF Rest, Releasing
<1>15. CASE UnpinAll
  <2>1. PICK c \in rec.classes : Unpin(c, "removeFinalizer")
    BY <1>15 DEF UnpinAll
  <2>2. rec.pc = "unpinAll"
    BY <1>15 DEF UnpinAll, At
  <2> QED BY <1>13, <2>1, <2>2, UnpinFacts DEF Releasing
<1>16. CASE RemoveFinalizer
  <2>1. /\ obj' = obj /\ rec.pc = "removeFinalizer" /\ rec'.pc = "idle" /\ gw'.uid = gw.uid
        /\ gw'.phase = IF gw.phase = "deleting" THEN "absent" ELSE gw.phase
        /\ left' = IF gw.phase = "deleting" /\ rec.gw.disabled THEN left \cup {gw.uid} ELSE left
    BY <1>16, RemoveFinalizerFacts
  <2>2. gw.phase = "deleting" => rec.gw.uid = gw.uid
    BY <2>1 DEF KeepInv, Cleaned
  <2>3. ~lagging => \A k \in Kind : obj[k].owner \notin left'
    BY <2>1, <2>2 DEF OwnerInv, LeftUnowned, Releasing
  <2>4. \A u \in left' : u <= gw.uid /\ (u = gw.uid => gw'.phase = "absent")
    BY <1>0, <2>1 DEF OwnerInv
  <2> QED BY <2>1, <2>3, <2>4 DEF OwnerInv, LeftUnowned, Releasing
<1> QED BY <1>1, <1>2, <1>4, <1>5, <1>6, <1>7, <1>8, <1>9, <1>10, <1>11, <1>12, <1>14, <1>15, <1>16
      DEF ReconcileStep

\* Deployments come after the tunnel and go before it.
LEMMA ConnectorStep ==
    ASSUME TypeOK, KeepInv, ConnectorInv, ReconcileStep, lagging' = lagging
    PROVE  ConnectorInv'
<1>0. obj \in [Kind -> Object] /\ "Deployment" \in Kind /\ rec.gw.uid # 0
  BY KeepTypes DEF TypeOK, GatewayRecord, UID
<1>1. ASSUME UNCHANGED tunnel, obj'["Deployment"].exists = obj["Deployment"].exists,
             rec'.pc \notin {"apply", "wait", "deleteTunnel"}
      PROVE  ConnectorInv'
  BY <1>1 DEF ConnectorInv, ConnectorsHaveTunnel
<1>2. CASE Reconcile
  BY <1>1, <1>2, ReconcileFacts DEF Rest
<1>3. CASE AddFinalizer
  BY <1>1, <1>3, AddFinalizerFacts
<1>4. CASE UnpinOthers
  <2>1. PICK c \in rec.classes : Unpin(c, "pin")
    BY <1>4 DEF UnpinOthers
  <2>2. rec.pc = "unpin"
    BY <1>4 DEF UnpinOthers, At
  <2> QED BY <1>1, <2>1, <2>2, UnpinFacts
<1>5. CASE Pin
  BY <1>1, <1>5, PinFacts DEF Moves
<1>6. CASE EnsureTunnel
  BY <1>0, <1>6, EnsureTunnelFacts DEF Moves, ConnectorInv, ConnectorsHaveTunnel
<1>7. CASE ApplyObject
  <2>1. /\ tunnel' = tunnel /\ rec.pc = "apply" /\ rec'.gw = rec.gw
        /\ rec'.pc \in {"apply", "freeStatus", "patchStatus", "createStatus"}
    BY <1>7, ApplyObjectFacts
  <2> QED BY <1>0, <2>1 DEF ConnectorInv, ConnectorsHaveTunnel
<1>8. CASE FreeStatus \/ CreateStatus \/ PatchStatus
  BY <1>1, <1>8, StatusFacts DEF Moves
<1>9. CASE DeleteDeployments \/ AwaitDeployments
  <2>1. /\ tunnel' = tunnel /\ rec'.pc \in {"wait", "deleteTunnel"}
        /\ ~lagging => ~obj'["Deployment"].exists \/ (obj' = obj /\ rec.pc = "wait")
    BY <1>9, DeleteDeploymentsFacts
  <2> QED BY <2>1 DEF ConnectorInv, ConnectorsHaveTunnel
<1>10. CASE DeleteTunnel
  BY <1>10, DeleteTunnelFacts DEF Moves, ConnectorInv, ConnectorsHaveTunnel
<1>11. CASE ReleaseStatus
  BY <1>1, <1>11, ReleaseStatusFacts DEF Moves
<1>12. CASE RemoveOwnerReferences
  <2>1. tunnel' = tunnel /\ rec'.pc \in {"idle", "release", "orphan"}
    BY <1>12, OrphanFacts
  <2>2. obj'["Deployment"].exists = obj["Deployment"].exists
    <3>1. \/ obj'["Deployment"] = obj["Deployment"]
          \/ obj'["Deployment"] = [obj["Deployment"] EXCEPT !.owner = 0]
      BY <1>0, <1>12, OrphanFacts
    <3>2. obj["Deployment"] \in Object
      BY <1>0
    <3> QED BY <3>1, <3>2 DEF Object
  <2> QED BY <1>1, <2>1, <2>2
<1>13. CASE ListClasses
  BY <1>1, <1>13, ListClassesFacts DEF Rest
<1>14. CASE UnpinAll
  <2>1. PICK c \in rec.classes : Unpin(c, "removeFinalizer")
    BY <1>14 DEF UnpinAll
  <2>2. rec.pc = "unpinAll"
    BY <1>14 DEF UnpinAll, At
  <2> QED BY <1>1, <2>1, <2>2, UnpinFacts
<1>15. CASE RemoveFinalizer
  BY <1>1, <1>15, RemoveFinalizerFacts
<1> QED BY <1>2, <1>3, <1>4, <1>5, <1>6, <1>7, <1>8, <1>9, <1>10, <1>11, <1>12, <1>13, <1>14, <1>15
      DEF ReconcileStep

\* The class of a live tunnel keeps the finalizer: another class loses it before
\* the tunnel is ensured, all of them only when the Gateway is being deleted.
LEMMA ClassStep ==
    ASSUME TypeOK, KeepInv, OwnerInv, ClassInv, ReconcileStep, lagging' = lagging
    PROVE  ClassInv'
<1>0. /\ class \in [Class -> ClassRecord] /\ source \subseteq Class /\ rec.gw.class \in Class
      /\ gw.uid # 0
  BY KeepTypes DEF TypeOK, ClassTypeOK, GatewayRecord
<1>1. ASSUME UNCHANGED class, gw'.class = gw.class, gw'.uid = gw.uid,
             gw'.phase = "live" => gw.phase = "live",
             tunnel' \in {0, tunnel}, source' = source,
             rec'.pc \notin {"unpin", "ensureTunnel"}
      PROVE  ClassInv'
  BY <1>0, <1>1 DEF ClassInv
<1>2. CASE Reconcile
  <2>1. /\ UNCHANGED <<class, gw, tunnel, source>> /\ rec'.pc # "ensureTunnel"
        /\ rec'.pc = "unpin" => /\ rec'.gw = cache.gw
                                /\ rec'.classes = Finalized({cache.gw.class})
        /\ ~lagging => cache.gw = gw
    BY <1>2, ReconcileFacts DEF Rest
  <2>2. cache.gw.class \notin Finalized({cache.gw.class})
    BY DEF Finalized
  <2> QED BY <2>1, <2>2 DEF ClassInv
<1>3. CASE AddFinalizer
  BY <1>1, <1>3, AddFinalizerFacts
<1>4. ASSUME NEW c \in Class, \/ class' = class
                              \/ class' = [class EXCEPT ![c] = IF @.phase = "deleting" THEN NoClass
                                                               ELSE [@ EXCEPT !.fin = FALSE]]
      PROVE  /\ \A d \in Class : class'[d].fin => class'[d].phase # "absent"
             /\ \A d \in Class : d # c => class'[d] = class[d]
  <2>1. class[c] \in ClassRecord
    BY <1>0
  <2>2. class' # class => ~class'[c].fin
    BY <1>0, <1>4, <2>1 DEF ClassRecord, NoClass
  <2> QED BY <1>0, <1>4, <2>2 DEF ClassInv
<1>5. CASE UnpinOthers
  <2>1. PICK c \in rec.classes : Unpin(c, "pin")
    BY <1>5 DEF UnpinOthers
  <2>2. rec.pc = "unpin"
    BY <1>5 DEF UnpinOthers, At
  <2>3. /\ UNCHANGED <<gw, tunnel, source>> /\ c \in Class
        /\ \/ class' = class
           \/ class' = [class EXCEPT ![c] = IF @.phase = "deleting" THEN NoClass
                                            ELSE [@ EXCEPT !.fin = FALSE]]
        /\ \/ rec'.pc = "idle"
           \/ /\ rec'.pc \in {"unpin", "pin"} /\ rec'.gw = rec.gw
              /\ rec'.classes \subseteq rec.classes
    BY <2>1, <2>2, UnpinFacts
  <2>4. ~lagging => c # rec.gw.class /\ source \subseteq {rec.gw.class}
    BY <2>1, <2>2 DEF ClassInv
  <2>5. ~lagging => \A d \in source : class'[d] = class[d]
    BY <1>0, <1>4, <2>3, <2>4
  <2> QED BY <1>4, <2>2, <2>3, <2>4, <2>5 DEF ClassInv
<1>6. CASE Pin
  <2>1. /\ UNCHANGED <<gw, tunnel, source>>
        /\ rec'.pc = "idle" \/ (rec'.pc = "ensureTunnel" /\ rec'.gw = rec.gw)
        /\ ~lagging /\ rec'.pc = "ensureTunnel" => class'[rec.gw.class].fin
    BY <1>6, PinFacts DEF Moves
  <2>2. ASSUME NEW d \in Class
        PROVE  /\ class[d].fin => class'[d].fin
               /\ class'[d].fin => class'[d].phase # "absent"
    <3>1. \/ class' = class
          \/ /\ class[rec.gw.class].phase = "live"
             /\ class' = [class EXCEPT ![rec.gw.class].fin = TRUE]
      BY <1>6, PinFacts
    <3> QED BY <1>0, <3>1 DEF ClassInv, ClassRecord
  <2> QED BY <1>0, <2>1, <2>2 DEF ClassInv
<1>7. CASE EnsureTunnel
  <2>1. UNCHANGED <<class, gw>> /\ rec.pc = "ensureTunnel" /\ rec'.pc \in {"idle", "apply"}
    BY <1>7, EnsureTunnelFacts DEF Moves
  <2>2. CASE UNCHANGED <<tunnel, source>>
    BY <1>1, <2>1, <2>2
  <2>3. CASE source' \subseteq {gw.class} /\ (source' # {} => gw.class = rec.gw.class)
    BY <2>1, <2>3 DEF ClassInv
  <2> QED BY <1>7, <2>2, <2>3, EnsureTunnelFacts
<1>8. CASE ApplyObject
  BY <1>1, <1>8, ApplyObjectFacts
<1>9. CASE FreeStatus \/ CreateStatus \/ PatchStatus
  BY <1>1, <1>9, StatusFacts DEF Moves
<1>10. CASE DeleteDeployments \/ AwaitDeployments
  BY <1>1, <1>10, DeleteDeploymentsFacts
<1>11. CASE DeleteTunnel
  BY <1>1, <1>11, DeleteTunnelFacts DEF Moves
<1>12. CASE ReleaseStatus
  BY <1>1, <1>12, ReleaseStatusFacts DEF Moves
<1>13. CASE RemoveOwnerReferences
  BY <1>1, <1>13, OrphanFacts
<1>14. CASE ListClasses
  BY <1>1, <1>14, ListClassesFacts DEF Rest
<1>15. CASE UnpinAll
  <2>1. PICK c \in rec.classes : Unpin(c, "removeFinalizer")
    BY <1>15 DEF UnpinAll
  <2>2. rec.pc = "unpinAll"
    BY <1>15 DEF UnpinAll, At
  <2>3. /\ UNCHANGED <<gw, tunnel, source>> /\ c \in Class
        /\ \/ class' = class
           \/ class' = [class EXCEPT ![c] = IF @.phase = "deleting" THEN NoClass
                                            ELSE [@ EXCEPT !.fin = FALSE]]
        /\ rec'.pc \in {"idle", "unpinAll", "removeFinalizer"}
    BY <2>1, <2>2, UnpinFacts
  <2>4. ~(tunnel = gw.uid /\ gw.phase = "live")
    <3>1. gw.fin => gw.phase = "deleting"
      BY <2>2 DEF KeepInv, Cleaned
    <3>2. gw.uid \in left => gw.phase = "absent"
      BY DEF OwnerInv
    <3> QED BY <1>0, <3>1, <3>2 DEF KeepInv, TunnelKept
  <2> QED BY <1>4, <2>3, <2>4 DEF ClassInv
<1>16. CASE RemoveFinalizer
  BY <1>1, <1>16, RemoveFinalizerFacts
<1> QED BY <1>2, <1>3, <1>5, <1>6, <1>7, <1>8, <1>9, <1>10, <1>11, <1>12, <1>13, <1>14, <1>15, <1>16
      DEF ReconcileStep

\* The finalizers of the classes and of the CGS are gone when that of the Gateway
\* goes, and are set for a Gateway that has its own.
LEMMA ReleaseStep ==
    ASSUME TypeOK, KeepInv, ReleaseInv, ReconcileStep, lagging' = lagging
    PROVE  ReleaseInv'
<1>0. class \in [Class -> ClassRecord] /\ rec \in Rec
  BY KeepTypes DEF TypeOK, ClassTypeOK
<1>1. ASSUME UNCHANGED <<class, left>>, gw'.uid = gw.uid, gw.fin => gw'.fin,
             cgs' = cgs \/ ~cgs'.fin,
             rec'.pc \notin Releasing
      PROVE  ReleaseInv'
  BY <1>1 DEF ReleaseInv, Releasing
<1>2. CASE Reconcile
  BY <1>1, <1>2, ReconcileFacts DEF Rest, Releasing
<1>3. CASE AddFinalizer
  BY <1>1, <1>3, AddFinalizerFacts DEF Releasing
<1>4. ASSUME NEW c \in Class, ~lagging => ~class'[c].fin,
             \/ class' = class
             \/ class' = [class EXCEPT ![c] = IF @.phase = "deleting" THEN NoClass
                                              ELSE [@ EXCEPT !.fin = FALSE]]
      PROVE  ~lagging => \A d \in Class : class'[d].fin => class[d].fin /\ d # c
  BY <1>0, <1>4
<1>5. ASSUME rec.pc \in Working, UNCHANGED <<gw, cgs, left>>, rec'.pc \notin Releasing
      PROVE  ReleaseInv'
  <2>1. gw.fin
    BY <1>5 DEF KeepInv
  <2> QED BY <1>5, <2>1 DEF ReleaseInv, Releasing
<1>6. CASE UnpinOthers
  <2>1. PICK c \in rec.classes : Unpin(c, "pin")
    BY <1>6 DEF UnpinOthers
  <2>2. rec.pc = "unpin"
    BY <1>6 DEF UnpinOthers, At
  <2> QED BY <1>5, <2>1, <2>2, UnpinFacts DEF Working, Releasing
<1>7. CASE Pin
  BY <1>5, <1>7, PinFacts DEF Working, Releasing, Moves
<1>8. CASE EnsureTunnel
  BY <1>1, <1>8, EnsureTunnelFacts DEF Releasing, Moves
<1>9. CASE ApplyObject
  BY <1>1, <1>9, ApplyObjectFacts DEF Releasing
<1>10. CASE FreeStatus \/ CreateStatus \/ PatchStatus
  <2>1. /\ UNCHANGED <<class, gw, left>> /\ rec.pc \in Working /\ rec'.pc \notin Releasing
        /\ cgs'.fin => cgs' = cgs \/ cgs'.owner = rec.gw.uid
    BY <1>10, StatusFacts DEF Working, Releasing, Moves
  <2>2. gw.fin /\ gw.uid = rec.gw.uid
    BY <2>1 DEF KeepInv
  <2> QED BY <2>1, <2>2 DEF ReleaseInv, Releasing
<1>11. CASE DeleteDeployments \/ AwaitDeployments
  BY <1>1, <1>11, DeleteDeploymentsFacts DEF Releasing
<1>12. CASE DeleteTunnel
  BY <1>1, <1>12, DeleteTunnelFacts DEF Releasing, Moves
<1>13. CASE ReleaseStatus
  <2>1. /\ UNCHANGED <<class, gw, left>>
        /\ cgs' = cgs \/ ~cgs'.fin
        /\ rec'.pc \in {"idle", "release"}
        /\ ~lagging /\ rec'.pc = "release" => ~cgs'.fin
    BY <1>13, ReleaseStatusFacts DEF Moves
  <2> QED BY <2>1 DEF ReleaseInv, Releasing
<1>14. CASE RemoveOwnerReferences
  <2>1. UNCHANGED <<class, gw, cgs, left>> /\ rec.pc = "orphan"
    BY <1>14, OrphanFacts
  <2>2. rec.gw.disabled
    BY <2>1 DEF KeepInv
  <2>3. rec'.pc = "idle" \/ (rec'.pc \in {"orphan", "release"} /\ rec'.gw = rec.gw)
    BY <1>14, OrphanFacts
  <2> QED BY <2>1, <2>2, <2>3 DEF ReleaseInv, Releasing
<1>15. CASE ListClasses
  <2>1. /\ UNCHANGED <<class, gw, cgs, left>> /\ rec.pc = "release" /\ rec'.gw = rec.gw
        /\ rec'.classes = Finalized({})
        /\ rec'.pc = IF Finalized({}) = {} THEN "removeFinalizer" ELSE "unpinAll"
        /\ ~lagging => seen = class
    BY <1>15, ListClassesFacts DEF Rest
  <2>2. ~lagging => Finalized({}) = {c \in Class : class[c].fin}
    BY <2>1 DEF Finalized
  <2>3. rec'.pc \in {"removeFinalizer", "unpinAll"}
    BY <2>1
  <2>4. ~lagging /\ rec'.pc = "removeFinalizer" => \A c \in Class : ~class[c].fin
    BY <2>1, <2>2
  <2>5. ~lagging => \A c \in Class : class[c].fin => c \in rec'.classes
    BY <2>1, <2>2
  <2>6. ~lagging /\ ~rec.gw.disabled => ~cgs.fin
    BY <2>1 DEF ReleaseInv, Releasing
  <2> QED BY <2>1, <2>3, <2>4, <2>5, <2>6 DEF ReleaseInv
<1>16. CASE UnpinAll
  <2>1. PICK c \in rec.classes : Unpin(c, "removeFinalizer")
    BY <1>16 DEF UnpinAll
  <2>2. rec.pc = "unpinAll"
    BY <1>16 DEF UnpinAll, At
  <2>3. UNCHANGED <<gw, cgs, left>> /\ c \in Class
    BY <2>1, <2>2, UnpinFacts
  <2>4. CASE rec'.pc = "idle" /\ class' = class
    BY <1>1, <2>3, <2>4 DEF Releasing
  <2>5. CASE ~(rec'.pc = "idle" /\ class' = class)
    <3>1. /\ rec'.gw = rec.gw /\ rec'.classes = rec.classes \ {c}
          /\ rec'.pc = IF rec.classes \ {c} = {} THEN "removeFinalizer" ELSE "unpinAll"
          /\ ~lagging => ~class'[c].fin
          /\ \/ class' = class
             \/ class' = [class EXCEPT ![c] = IF @.phase = "deleting" THEN NoClass
                                              ELSE [@ EXCEPT !.fin = FALSE]]
      BY <2>1, <2>2, <2>5, UnpinFacts
    <3>2. ~lagging => \A d \in Class : class'[d].fin => class[d].fin /\ d # c
      BY <1>4, <2>3, <3>1
    <3>3. ~lagging => \A d \in Class : class'[d].fin => d \in rec'.classes
      BY <2>2, <3>1, <3>2 DEF ReleaseInv
    <3>4. ~lagging /\ rec'.pc = "removeFinalizer" => \A d \in Class : ~class'[d].fin
      BY <3>1, <3>3
    <3>5. ~lagging /\ ~rec.gw.disabled => ~cgs.fin
      BY <2>2 DEF ReleaseInv, Releasing
    <3>6. ~lagging /\ ~gw.fin => \A d \in Class : ~class'[d].fin
      BY <3>2 DEF ReleaseInv
    <3> QED BY <2>3, <3>1, <3>3, <3>4, <3>5, <3>6 DEF ReleaseInv
  <2> QED BY <2>4, <2>5
<1>17. CASE RemoveFinalizer
  <2>1. /\ UNCHANGED <<class, cgs>> /\ rec.pc = "removeFinalizer" /\ rec'.pc = "idle"
        /\ gw'.uid = gw.uid
        /\ left' = IF gw.phase = "deleting" /\ rec.gw.disabled THEN left \cup {gw.uid} ELSE left
    BY <1>17, RemoveFinalizerFacts
  <2>2. gw.fin => gw.phase = "deleting"
    BY <2>1 DEF KeepInv, Cleaned
  <2>3. ~lagging => (cgs.fin => cgs.owner \in left')
    <3>1. CASE ~rec.gw.disabled
      BY <2>1, <3>1 DEF ReleaseInv, Releasing
    <3>2. CASE rec.gw.disabled /\ gw.phase = "deleting"
      BY <2>1, <3>2 DEF ReleaseInv
    <3>3. CASE gw.phase # "deleting"
      BY <2>1, <2>2, <3>3 DEF ReleaseInv
    <3> QED BY <3>1, <3>2, <3>3
  <2>4. ~lagging => \A c \in Class : ~class[c].fin
    BY <2>1 DEF ReleaseInv
  <2> QED BY <2>1, <2>3, <2>4 DEF ReleaseInv, Releasing
<1> QED BY <1>2, <1>3, <1>6, <1>7, <1>8, <1>9, <1>10, <1>11, <1>12, <1>13, <1>14, <1>15, <1>16, <1>17
      DEF ReconcileStep

LEMMA HoldStep == TypeOK /\ KeepInv /\ HoldInv /\ [Next]_vars => HoldInv'
<1> SUFFICES ASSUME TypeOK, KeepInv, HoldInv, [Next]_vars PROVE HoldInv'
  OBVIOUS
<1>1. lagging' = lagging
  BY LaggingStep
<1>2. CASE ReconcileStep
  BY <1>1, <1>2, OwnerStep, ConnectorStep, ClassStep, ReleaseStep DEF HoldInv
<1>3. CASE OutsideStep
  <2>1. ClassesExist
    BY DEF HoldInv, ClassInv, ClassesExist
  <2> QED BY <1>1, <1>3, <2>1, OutsideFacts, OutsideHold
<1> QED BY <1>2, <1>3 DEF Next, OutsideStep

LEMMA HoldInit == Init => HoldInv
<1> SUFFICES ASSUME Init PROVE HoldInv
  OBVIOUS
<1>1. /\ tunnel = 0 /\ source = {} /\ left = {} /\ rec.pc = "idle"
      /\ obj = [k \in Kind |-> NoObject] /\ ~cgs.fin /\ gw.phase = "live"
  BY IdlePc DEF Init, NewGateway, NoStatus
<1>2. \A k \in Kind : ~obj[k].exists /\ obj[k].owner = 0
  BY <1>1 DEF NoObject
<1>3. \A c \in Class : ~class[c].fin
  BY DEF Init, ClassInit, NewClass
<1>4. OwnerInv
  BY <1>1, <1>2 DEF OwnerInv, LeftUnowned, Releasing
<1>5. ConnectorInv
  <2>1. ~obj["Deployment"].exists
    BY <1>2
  <2> QED BY <1>1, <2>1 DEF ConnectorInv, ConnectorsHaveTunnel
<1>6. ClassInv /\ ReleaseInv
  BY <1>1, <1>3 DEF ClassInv, ReleaseInv, Releasing
<1> QED BY <1>4, <1>5, <1>6 DEF HoldInv

\* What a reconcile has seen to is still so when it relies on it, if its reads
\* wait for the informers.
THEOREM HoldInvariant == Spec => []HoldInv
BY HoldInit, HoldStep, TypeCorrect, KeepInvariant, PTL DEF Spec

\* When reads wait for the informers, finalizeEnabled never deletes a tunnel before
\* the Deployments that connect to it, and none is applied before the tunnel is
\* there.
THEOREM ConnectorsFirst == Spec => [](~lagging => ConnectorsHaveTunnel)
<1>1. HoldInv => (~lagging => ConnectorsHaveTunnel)
  BY DEF HoldInv, ConnectorInv
<1> QED BY <1>1, HoldInvariant, PTL

\* finalizeDisabled leaves every object without an owner, and no later reconcile
\* gives one of them back to the Gateway that is gone.
THEOREM LeftForGood == Spec => []LeftUnowned
<1>1. HoldInv => LeftUnowned
  BY DEF HoldInv, OwnerInv
<1> QED BY <1>1, HoldInvariant, PTL

\* The class whose credentials made the tunnel of a live Gateway has the
\* finalizer, so it does not vanish (ensureGatewayClassFinalizer).
THEOREM ClassHeld == Spec => []ClassOutlivesTunnel
<1>1. TypeOK /\ HoldInv => ClassOutlivesTunnel
  BY DEF TypeOK, HoldInv, ClassInv, ClassOutlivesTunnel
<1> QED BY <1>1, TypeCorrect, HoldInvariant, PTL

\* When reads wait for the informers, a Gateway that is gone holds no class, and
\* its CGS only if it was left behind.
THEOREM AllReleased == Spec => [](~lagging => FinalizersReleased)
<1>1. KeepInv /\ HoldInv => (~lagging => FinalizersReleased)
  BY DEF KeepInv, HoldInv, ReleaseInv, FinalizersReleased
<1> QED BY <1>1, KeepInvariant, HoldInvariant, PTL

=============================================================================
