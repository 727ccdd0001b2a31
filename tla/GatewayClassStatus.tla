------------------------- MODULE GatewayClassStatus -------------------------
(***************************************************************************)
(* The GatewayClass controller.  A class is Ready when the Gateway API     *)
(* CRDs have a supported version and its parametersRef names a Secret with *)
(* credentials.  The controller reads the class from the informer cache    *)
(* (seen), the CRD and the Secret from the API server, and patches the     *)
(* status of the class in a second step.                                   *)
(*                                                                         *)
(* The finalizer of one Gateway on each class is part of the state here;   *)
(* GatewayLifecycle sets and removes it.                                   *)
(***************************************************************************)
EXTENDS Naturals, FiniteSets

CONSTANTS
    Class,      \* names of GatewayClasses
    Ours,       \* those whose spec.controllerName is this controller
    Lags,       \* {FALSE}: reads wait for the informers; TRUE: they may be stale
    MaxEdits,   \* bound: edits by users
    MaxFaults   \* bound: failed calls and crashes

ASSUME ClassAssumption == Ours \subseteq Class /\ Ours # {}
ASSUME LagAssumption == Lags \subseteq BOOLEAN /\ Lags # {}
ASSUME BoundAssumption == MaxEdits \in Nat /\ MaxFaults \in Nat

VARIABLES
    class,    \* class[c]: the GatewayClass in the API server
    seen,     \* seen[c]: the same in the informer cache
    config,   \* the CRD version is supported; the Secret has credentials
    classq,   \* classes with a reconcile request in the work queue
    classrec, \* the reconcile in progress: its class and the verdict it read
    lagging,  \* reads of the informer caches may be stale (never changes)
    used      \* how much of each bound was used

classvars == <<class, seen, config, classq, classrec>>

NoClass == [phase |-> "absent", fin |-> FALSE, ready |-> FALSE]
NewClass == [phase |-> "live", fin |-> FALSE, ready |-> FALSE]
ClassRecord == [phase : {"absent", "live", "deleting"}, fin : BOOLEAN, ready : BOOLEAN]

ClassIdle == [class |-> {}, ready |-> FALSE]

\* A settled installation: all classes are ready.
ClassInit ==
    /\ class = [c \in Class |-> [NewClass EXCEPT !.ready = TRUE]]
    /\ seen = class
    /\ config = [crd |-> TRUE, secret |-> TRUE]
    /\ classq = {}
    /\ classrec = ClassIdle
    /\ lagging \in Lags
    /\ used = [edits |-> 0, faults |-> 0]

ClassTypeOK ==
    /\ class \in [Class -> ClassRecord]
    /\ seen \in [Class -> ClassRecord]
    /\ config \in [crd : BOOLEAN, secret : BOOLEAN]
    /\ classq \subseteq Class
    /\ classrec \in [class : SUBSET Class, ready : BOOLEAN]
    /\ lagging \in BOOLEAN
    /\ used \in [edits : 0..MaxEdits, faults : 0..MaxFaults]

Edit == used.edits < MaxEdits /\ used' = [used EXCEPT !.edits = @ + 1]
Fault == used.faults < MaxFaults /\ used' = [used EXCEPT !.faults = @ + 1]

-----------------------------------------------------------------------------
(* Users.                                                                  *)

\* Only a finalizer keeps a deleted class.
DeleteClass(c) ==
    /\ Edit
    /\ class[c].phase = "live"
    /\ class' = [class EXCEPT ![c] = IF @.fin THEN [@ EXCEPT !.phase = "deleting"] ELSE NoClass]
    /\ UNCHANGED <<seen, config, classq, classrec, lagging>>

\* The watch delivers the removal before the creation: both are seen.
CreateClass(c) ==
    /\ Edit
    /\ class[c].phase = "absent" /\ seen[c].phase = "absent"
    /\ class' = [class EXCEPT ![c] = NewClass]
    /\ UNCHANGED <<seen, config, classq, classrec, lagging>>

\* managedGatewayClasses: an event of the CRD concerns every class of this
\* controller, an event of the Secret those that reference it (here all do).
managedGatewayClasses == {c \in Ours : seen[c].phase # "absent"}

\* The bundle version of the CRD, or the Secret, becomes valid or invalid.
EditConfig(what) ==
    /\ Edit
    /\ config' = [config EXCEPT ![what] = ~@]
    /\ classq' = classq \cup managedGatewayClasses
    /\ UNCHANGED <<class, seen, classrec, lagging>>

-----------------------------------------------------------------------------
(* The controller.                                                         *)

\* An informer event about c.  The controller's own predicate passes what bumps
\* the generation: creation, deletionTimestamp, removal.
SeeClass(c) ==
    /\ seen[c] # class[c]
    /\ seen' = [seen EXCEPT ![c] = class[c]]
    /\ classq' = IF seen[c].phase # class[c].phase THEN classq \cup {c} ELSE classq
    /\ UNCHANGED <<class, config, classrec, lagging, used>>

\* checkSupportedVersion and checkParametersRef.
Verdict == config.crd /\ config.secret

StartClass(c) == classrec = ClassIdle /\ c \in classq /\ (lagging \/ seen[c] = class[c])

\* Classes of other controllers and those being deleted are skipped.
Handled(c) == c \in Ours /\ seen[c].phase = "live"

\* There is no patch if the cached status already says so.
ReconcileClass(c) ==
    /\ StartClass(c)
    /\ classq' = classq \ {c}
    /\ classrec' = IF Handled(c) /\ seen[c].ready # Verdict
                   THEN [class |-> {c}, ready |-> Verdict] ELSE ClassIdle
    /\ UNCHANGED <<class, seen, config, lagging, used>>

\* The status patch; on an error (NotFound) the request is retried.
PatchClass ==
    /\ \E c \in classrec.class :
        IF class[c].phase = "absent"
        THEN classq' = classq \cup {c} /\ class' = class
        ELSE class' = [class EXCEPT ![c].ready = classrec.ready] /\ classq' = classq
    /\ classrec' = ClassIdle
    /\ UNCHANGED <<seen, config, lagging, used>>

\* Reading the CRD or the Secret fails: Ready=Unknown and a retry
\* (reconcileError); this patch may fail too.
FailRead(c) ==
    /\ Fault
    /\ StartClass(c) /\ Handled(c)
    /\ class' \in {class, [class EXCEPT ![c].ready = FALSE]}
    /\ UNCHANGED <<seen, config, classq, classrec, lagging>>

\* The status patch fails.
FailPatch ==
    /\ Fault
    /\ classrec # ClassIdle
    /\ classrec' = ClassIdle
    /\ classq' = classq \cup classrec.class
    /\ UNCHANGED <<class, seen, config, lagging>>

\* After a restart the informers deliver every class.
RestartClass ==
    /\ seen' = class
    /\ classq' = Class
    /\ classrec' = ClassIdle
    /\ UNCHANGED <<class, config, lagging>>
=============================================================================
