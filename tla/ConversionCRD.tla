--------------------------- MODULE ConversionCRD ---------------------------
(***************************************************************************)
(* manageCustomResourceDefinition: the operator applies the operand's CRDs *)
(* one after the other while cert-manager's CA injector writes the CA      *)
(* bundle of the conversion webhook into one of them.                      *)
(*                                                                         *)
(* The bundle is not the operator's: it reads it from the live CRD, copies *)
(* it into the manifest and hands that to ApplyCustomResourceDefinitionV1, *)
(* which reads the CRD again and stomps the whole spec when it differs.    *)
(***************************************************************************)
EXTENDS Integers, Sequences

CONSTANTS
    CrdFiles,              \* names of the CRDs, in the order of crdFiles
    Converting,            \* those whose manifest has a conversion webhook
    CAs,                   \* CA bundles cert-manager issues
    Limit,                 \* Limit[k]: how often the environment does k in a behaviour
    ConversionRemovable    \* do people install a CRD without its conversion webhook

Names == {CrdFiles[i] : i \in 1..Len(CrdFiles)}
Kinds == {"edit", "delete", "rotate", "apiFailure", "crash"}

ASSUME FilesAssumption == CrdFiles \in Seq(STRING) /\ Len(CrdFiles) > 0
ASSUME CAsAssumption == CAs # {} /\ "none" \notin CAs
ASSUME LimitAssumption == Limit \in [Kinds -> Nat] /\ ConversionRemovable \in BOOLEAN

VARIABLES
    crd,      \* crd[n]: the CRD n in the API server
    ca,       \* the CA of the webhook's certificate
    pc,       \* next step of the operator; "applied": past the CRDs without an error,
              \* "idle": no sync since the last one failed, "down": no process
    file,     \* position in CrdFiles of the CRD being applied
    bundle,   \* the CA bundle copied into the manifest
    fresh,    \* is the version ApplyCustomResourceDefinitionV1 fetched still the live one
    touched,  \* history: did anyone else write this CRD since the operator first read it
    edited,   \* history: CRDs people wrote since ApplyCustomResourceDefinitionV1 read them
    used      \* used[k]: how often the environment has done k

operatorVars == <<pc, file, bundle>>
vars == <<crd, ca, pc, file, bundle, fresh, touched, edited, used>>

Bundles == CAs \cup {"none"}
Crd == [exists: BOOLEAN, spec: {"required", "other"}, annotated: BOOLEAN,
        conversion: {"none", "webhook"}, bundle: Bundles]

Absent == [exists |-> FALSE, spec |-> "other", annotated |-> FALSE,
           conversion |-> "none", bundle |-> "none"]

\* injectCertManagerCA: the annotation of a converting manifest names the certificate whose
\* CA cert-manager writes into the bundle.
CaInjected(n) == n \in Converting

\* Fault: the manifest comes without the annotation.
RequiredUnannotated(n, b) ==
    [exists |-> TRUE, spec |-> "required", annotated |-> FALSE,
     conversion |-> IF n \in Converting THEN "webhook" ELSE "none", bundle |-> b]

\* The manifest with the namespace, the annotation and the copied bundle filled in.
Required(n, b) ==
    [exists |-> TRUE, spec |-> "required", annotated |-> CaInjected(n),
     conversion |-> IF n \in Converting THEN "webhook" ELSE "none", bundle |-> b]

\* A CRD people or an older release left: another schema, and perhaps no webhook.
Foreign(n) ==
    {d \in Crd : /\ d.exists /\ d.spec = "other"
                 /\ d.conversion = "none" => d.bundle = "none" /\ ~d.annotated
                 /\ n \notin Converting => d.conversion = "none"
                 /\ n \in Converting /\ ~ConversionRemovable => d.conversion = "webhook"}

\* EnsureObjectMeta merges annotations: it adds the required ones and removes none.
Merged(d, required) == [required EXCEPT !.annotated = @ \/ d.annotated]

Spend(k) == /\ used[k] < Limit[k]
            /\ used' = [used EXCEPT ![k] = @ + 1]

Current == CrdFiles[file]

-----------------------------------------------------------------------------
(* The operator                                                             *)

\* sync() ends with an error; the queue starts another one.
EndSync == /\ pc' = "idle"
           /\ file' = 1
           /\ bundle' = "none"

\* Fault: the loop does not end.
AppliedForever == pc' = "getCurrent" /\ file' = file + 1 /\ bundle' = "none"

\* The CRD is as required: on to the next file, and after the last one to the rest of
\* sync().
Applied ==
    /\ IF file < Len(CrdFiles)
       THEN pc' = "getCurrent" /\ file' = file + 1
       ELSE pc' = "applied" /\ file' = 1
    /\ bundle' = "none"

\* The queue or the resync starts a sync.
StartSync ==
    /\ pc \in {"idle", "applied"}
    /\ pc' = "getCurrent"
    /\ UNCHANGED <<crd, ca, file, bundle, fresh, touched, edited, used>>

\* Fault: the live bundle is not copied into the manifest.
GetCurrentForgettingBundle ==
    LET d == crd[Current] IN
    /\ pc = "getCurrent"
    /\ \/ /\ d.exists /\ Current \in Converting /\ d.conversion = "none"
          /\ pc' = "down" /\ file' = 1 /\ bundle' = "none"
          /\ UNCHANGED used
       \/ /\ ~(d.exists /\ Current \in Converting /\ d.conversion = "none")
          /\ pc' = "getExisting"
          /\ UNCHANGED <<file, bundle, used>>
       \/ Spend("apiFailure") /\ EndSync
    /\ touched' = FALSE
    /\ UNCHANGED <<crd, ca, fresh, edited>>

\* The first read copies the live bundle.  A live CRD without the webhook the manifest
\* has is a nil pointer dereference: the panic takes the process down.
GetCurrent ==
    LET d == crd[Current] IN
    /\ pc = "getCurrent"
    /\ \/ /\ d.exists /\ Current \in Converting /\ d.conversion = "none"
          /\ pc' = "down" /\ file' = 1 /\ bundle' = "none"
          /\ UNCHANGED used
       \/ /\ d.exists /\ Current \in Converting /\ d.conversion = "webhook"
          /\ pc' = "getExisting" /\ bundle' = d.bundle
          /\ UNCHANGED <<file, used>>
       \/ /\ ~d.exists \/ Current \notin Converting
          /\ pc' = "getExisting"
          /\ UNCHANGED <<file, bundle, used>>
       \/ Spend("apiFailure") /\ EndSync
    /\ touched' = FALSE
    /\ UNCHANGED <<crd, ca, fresh, edited>>

\* Fault: only the metadata is compared.
UpToDateMetadata(d, required) == d.annotated = Merged(d, required).annotated

UpToDate(d, required) == d = Merged(d, required)

\* ApplyCustomResourceDefinitionV1 reads the CRD again.
GetExisting ==
    LET d == crd[Current] IN
    /\ pc = "getExisting"
    /\ \/ /\ ~d.exists
          /\ pc' = "create"
          /\ UNCHANGED <<file, bundle, fresh, used>>
       \/ /\ d.exists /\ UpToDate(d, Required(Current, bundle))
          /\ Applied
          /\ UNCHANGED <<fresh, used>>
       \/ /\ d.exists /\ ~UpToDate(d, Required(Current, bundle))
          /\ pc' = "update"
          /\ fresh' = TRUE
          /\ UNCHANGED <<file, bundle, used>>
       \/ Spend("apiFailure") /\ EndSync /\ UNCHANGED fresh
    /\ edited' = edited \ {Current}
    /\ UNCHANGED <<crd, ca, touched>>

\* Fault: a refused write is taken for done.
WriteIgnoringConflict(accepted) ==
    LET written == [crd EXCEPT ![Current] = Merged(@, Required(Current, bundle))] IN
    /\ crd' = IF accepted THEN written ELSE crd
    /\ Applied
    /\ fresh' = FALSE
    /\ UNCHANGED <<ca, touched, edited, used>>

\* A Create or Update: done, refused, or failed with or without effect.
Write(accepted) ==
    LET written == [crd EXCEPT ![Current] = Merged(@, Required(Current, bundle))] IN
    /\ \/ /\ accepted
          /\ crd' = written
          /\ Applied
          /\ UNCHANGED used
       \/ /\ ~accepted
          /\ EndSync
          /\ UNCHANGED <<crd, used>>
       \/ /\ Spend("apiFailure")
          /\ \/ crd' = crd
             \/ accepted /\ crd' = written
          /\ EndSync
    /\ fresh' = FALSE
    /\ UNCHANGED <<ca, touched, edited>>

CreateCrd == pc = "create" /\ Write(~crd[Current].exists)
UpdateCrd == pc = "update" /\ Write(fresh)

Restart ==
    /\ pc = "down"
    /\ pc' = "idle"
    /\ UNCHANGED <<crd, ca, file, bundle, fresh, touched, edited, used>>

-----------------------------------------------------------------------------
(* The environment                                                          *)

\* Someone else stores d as the CRD n.
Touch(n, d) ==
    /\ crd' = [crd EXCEPT ![n] = d]
    /\ fresh' = (fresh /\ n # Current)
    /\ touched' = (touched \/ n = Current)

\* cert-manager's CA injector: it fills in the bundle of an annotated CRD's webhook.
InjectCA ==
    /\ \E n \in Names :
        /\ crd[n].exists /\ crd[n].annotated /\ crd[n].conversion = "webhook"
        /\ crd[n].bundle # ca
        /\ Touch(n, [crd[n] EXCEPT !.bundle = ca])
    /\ UNCHANGED <<ca, operatorVars, edited, used>>

RotateCA ==
    /\ Spend("rotate")
    /\ ca' \in CAs \ {ca}
    /\ UNCHANGED <<crd, operatorVars, fresh, touched, edited>>

EditCrd ==
    /\ Spend("edit")
    /\ \E n \in Names :
        /\ \E d \in Foreign(n) : d # crd[n] /\ Touch(n, d)
        /\ edited' = edited \cup {n}
    /\ UNCHANGED <<ca, operatorVars>>

DeleteCrd ==
    /\ Spend("delete")
    /\ \E n \in Names : crd[n].exists /\ Touch(n, Absent) /\ edited' = edited \cup {n}
    /\ UNCHANGED <<ca, operatorVars>>

Crash ==
    /\ Spend("crash")
    /\ pc # "down"
    /\ pc' = "down" /\ file' = 1 /\ bundle' = "none"
    /\ UNCHANGED <<crd, ca, fresh, touched, edited>>

-----------------------------------------------------------------------------
Init ==
    /\ crd \in {f \in [Names -> Crd] : \A n \in Names : f[n] \in Foreign(n) \cup {Absent}}
    /\ ca \in CAs
    /\ pc = "idle"
    /\ file = 1
    /\ bundle = "none"
    /\ fresh = FALSE
    /\ touched = FALSE
    /\ edited = {}
    /\ used = [k \in Kinds |-> 0]

Operator ==
    \/ StartSync \/ GetCurrent \/ GetExisting \/ CreateCrd \/ UpdateCrd \/ Restart

Next ==
    \/ Operator
    \/ InjectCA
    \/ RotateCA \/ EditCrd \/ DeleteCrd \/ Crash

\* The operator syncs at least every five minutes and the kubelet restarts it; the
\* injector watches CRDs.
Fairness == WF_vars(Operator) /\ WF_vars(InjectCA)

Spec == Init /\ [][Next]_vars
FairSpec == Spec /\ Fairness

-----------------------------------------------------------------------------
(* Properties                                                               *)

\* Type invariant.
TypeOK ==
    /\ crd \in [Names -> Crd]
    /\ ca \in CAs
    /\ pc \in {"idle", "applied", "down", "getCurrent", "getExisting", "create", "update"}
    /\ file \in 1..Len(CrdFiles)
    /\ bundle \in Bundles
    /\ fresh \in BOOLEAN
    /\ touched \in BOOLEAN
    /\ edited \subseteq Names
    /\ used \in [Kinds -> Nat]

\* The operator's Update of the CRD takes effect.
Updates == pc = "update" /\ pc' # "update" /\ crd' # crd

\* The operator changes a CA bundle only when somebody wrote the CRD between its two
\* reads: left alone, it preserves what the injector put there.
BundleLostOnlyByRace ==
    [][Updates => crd'[Current].bundle = crd[Current].bundle \/ touched]_vars

\* The operator "preserves existing CA bundle", races or not.
BundlePreserved ==
    [][Updates => crd'[Current].bundle = crd[Current].bundle]_vars

\* A success means every file: once the call returned without an error, each CRD people
\* have left alone since the operator read it is as its manifest says, but for the CA
\* bundle, which the injector may fill in at any moment.
AppliedAsRequired ==
    pc = "applied" =>
        \A n \in Names \ edited :
            crd[n].exists /\ UpToDate(crd[n], Required(n, crd[n].bundle))

\* Every bundle the operator rolls back is injected again: no CRD stays for good with
\* a bundle that does not verify the webhook.
BundleRecovers ==
    \A n \in Converting : []<>(crd[n].exists /\ crd[n].bundle = ca)

\* Foreign CRDs are overwritten, missing ones created, and an error on an early file
\* does not keep the later ones from their turn for good.
SpecsRepaired ==
    <>[](\A n \in Names : /\ crd[n].exists /\ crd[n].spec = "required"
                           /\ crd[n].conversion = "webhook" <=> n \in Converting)

\* The operator "manages the upstream LeaderWorkerSet CRD, including conversion webhook
\* configuration": a removed webhook comes back.
ConversionManaged ==
    \A n \in Converting :
        crd[n].exists /\ crd[n].conversion = "none" ~> crd[n].conversion = "webhook"

=============================================================================
