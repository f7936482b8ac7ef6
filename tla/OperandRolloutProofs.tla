------------------------ MODULE OperandRolloutProofs ------------------------
(***************************************************************************)
(* Proofs about OperandRollout for every set of objects people touch,      *)
(* every informer lag and every budget of environment steps.               *)
(***************************************************************************)
EXTENDS OperandRollout, TLAPS

-----------------------------------------------------------------------------
(* The pipeline as data                                                     *)

Calls == Objects \cup Secrets \cup {"Deployments"}

LEMMA PipelineLength == Len(Pipeline) = 24
BY DEF Pipeline

LEMMA PipelineLast == \A i \in 1..24 : Pipeline[i] = "Deployments" <=> i = 24
BY DEF Pipeline

LEMMA ObjectsFirst == \A o \in Objects : \E i \in 1..23 : Pipeline[i] = o
<1> SUFFICES ASSUME NEW o \in Objects
             PROVE  \E i \in 1..23 : Pipeline[i] = o
  OBVIOUS
<1>1. PICK i \in 1..24 : Pipeline[i] = o
  BY PipelineLength DEF Objects
<1>2. i # 24
  BY <1>1, PipelineLast DEF Objects
<1>3. QED
  BY <1>1, <1>2

LEMMA KindsApart ==
    /\ "Configmap" \in Objects
    /\ Memoized \subseteq Objects
    /\ Unstructured \subseteq Memoized
    /\ \A s \in Secrets : s \in Annotated /\ s # "Configmap" /\ s \notin Objects
    /\ "Deployments" \notin Objects \cup Secrets
<1>1. /\ Pipeline[12] = "IssuerCR" /\ Pipeline[13] = "CertificateWebhookCR"
      /\ Pipeline[15] = "CertificateMetricsCR" /\ Pipeline[17] = "Configmap"
      /\ Pipeline[21] = "MutatingWebhook" /\ Pipeline[22] = "ValidatingWebhook"
      /\ Pipeline[23] = "ServiceMonitor"
  BY DEF Pipeline
<1>2. \A i \in 1..24 : Pipeline[i] \notin Secrets \cup {"Deployments"} => Pipeline[i] \in Objects
  BY PipelineLength DEF Objects
<1>3. /\ "IssuerCR" \in Objects /\ "CertificateWebhookCR" \in Objects
      /\ "CertificateMetricsCR" \in Objects /\ "Configmap" \in Objects
      /\ "MutatingWebhook" \in Objects /\ "ValidatingWebhook" \in Objects
      /\ "ServiceMonitor" \in Objects
  BY <1>1, <1>2 DEF Secrets
<1>4. Memoized \subseteq Objects
  BY <1>3 DEF Memoized, Unstructured
<1>5. QED
  BY <1>3, <1>4 DEF Memoized, Secrets, Annotated, Objects

-----------------------------------------------------------------------------
(* Type correctness                                                         *)

LEMMA BlankTyped ==
    /\ NoVersions \in [Annotated -> Nat]
    /\ [o \in Memoized |-> 0] \in [Memoized -> Nat]
    /\ 0 \in 0..Len(Pipeline) /\ 1 \in 0..Len(Pipeline)
<1>1. NoVersions \in [Annotated -> Nat]
  BY DEF NoVersions
<1>2. QED
  BY <1>1, PipelineLength

LEMMA SpendTyped ==
    ASSUME NEW k \in EnvironmentSteps, used \in [EnvironmentSteps -> Nat], Spend(k)
    PROVE  used' \in [EnvironmentSteps -> Nat]
BY DEF Spend

LEMMA StepsNamed == {"touch", "rotate", "loseSecret", "apiFailure", "crash"} = EnvironmentSteps
BY DEF EnvironmentSteps

LEMMA DamageTyped == \A o : Damage(o) \subseteq Contents \ {"required"}
BY DEF Damage, Contents

LEMMA StoreTyped ==
    ASSUME TypeOK, NEW o \in Objects, NEW c \in {"required"} \cup Damage(o), Store(o, c)
    PROVE  /\ object' \in [Objects -> Object]
           /\ \A p \in Objects : object'[p].content \in {"required"} \cup Damage(p)
           /\ object'[o] = [content |-> c, version |-> object[o].version + 1]
           /\ \A p \in Objects \ {o} : object'[p] = object[p]
           /\ news' \in BOOLEAN
<1>1. object[o].version \in Nat /\ news \in BOOLEAN
  BY DEF TypeOK, Object
<1>2. object' \in [Objects -> Object]
  <2>1. c \in Contents
    BY DamageTyped DEF Contents
  <2>2. QED
    BY <1>1, <2>1 DEF TypeOK, Store, Object
<1>3. object'[o] = [content |-> c, version |-> object[o].version + 1]
  BY DEF TypeOK, Store
<1>4. \A p \in Objects \ {o} : object'[p] = object[p]
  BY DEF TypeOK, Store
<1>5. news' \in BOOLEAN
  BY <1>1 DEF Store
<1>6. ASSUME NEW p \in Objects PROVE object'[p].content \in {"required"} \cup Damage(p)
  <2>1. CASE p = o
    BY <1>3, <2>1
  <2>2. CASE p # o
    <3>1. object[p].content \in {"required"} \cup Damage(p)
      BY DEF TypeOK
    <3>2. QED
      BY <1>4, <2>2, <3>1
  <2>3. QED
    BY <2>1, <2>2
<1>7. QED
  BY <1>2, <1>3, <1>4, <1>5, <1>6

LEMMA StoreSecretTyped ==
    ASSUME TypeOK, NEW s \in Secrets, NEW d \in {"absent", "empty", "keys"}, StoreSecret(s, d)
    PROVE  /\ secret' \in [Secrets -> Seq(SecretVersion)]
           /\ \A t \in Secrets : Len(secret'[t]) > 0
<1>1. secret[s] \in Seq(SecretVersion) /\ Len(secret[s]) > 0
  BY DEF TypeOK
<1>2. Live(s) \in SecretVersion
  BY <1>1 DEF Live
<1>3. [data |-> d, version |-> Live(s).version + 1] \in SecretVersion
  BY <1>2 DEF SecretVersion
<1> DEFINE log == Append(secret[s], [data |-> d, version |-> Live(s).version + 1])
<1>4. log \in Seq(SecretVersion) /\ Len(log) > 0
  BY <1>1, <1>3
<1>5. secret' = [secret EXCEPT ![s] = log]
  BY DEF StoreSecret
<1>6. QED
  BY <1>4, <1>5 DEF TypeOK

LEMMA TailTyped ==
    ASSUME TypeOK, NEW s \in Secrets, Len(secret[s]) > 1,
           secret' = [secret EXCEPT ![s] = Tail(@)]
    PROVE  /\ secret' \in [Secrets -> Seq(SecretVersion)]
           /\ \A t \in Secrets : Len(secret'[t]) > 0
<1>1. secret[s] \in Seq(SecretVersion)
  BY DEF TypeOK
<1>2. Tail(secret[s]) \in Seq(SecretVersion) /\ Len(Tail(secret[s])) > 0
  BY <1>1
<1>3. QED
  BY <1>2 DEF TypeOK

LEMMA StepTyped ==
    ASSUME TypeOK, Advance \/ Fail
    PROVE  step' \in 0..Len(Pipeline) /\ retry' \in BOOLEAN
<1>1. step \in 0..24 /\ retry \in BOOLEAN
  BY PipelineLength DEF TypeOK
<1>2. CASE Advance
  BY <1>1, <1>2, PipelineLength DEF Advance
<1>3. CASE Fail
  BY <1>3, PipelineLength DEF Fail
<1>4. QED
  BY <1>2, <1>3

\* Whatever an apply does, the cache stays a function to versions.
LEMMA RememberedTyped ==
    ASSUME TypeOK, NEW o \in Objects, object' \in [Objects -> Object]
    PROVE  Remembered(o) \in [Memoized -> Nat]
<1>1. object'[o].version \in Nat
  BY DEF Object
<1>2. QED
  BY <1>1 DEF TypeOK, Remembered

LEMMA DownTyped ==
    ASSUME Down
    PROVE  /\ running' \in BOOLEAN /\ queued' \in BOOLEAN /\ retry' \in BOOLEAN
           /\ step' \in 0..Len(Pipeline)
           /\ annotations' \in [Annotated -> Nat]
           /\ cache' \in [Memoized -> Nat]
BY BlankTyped DEF Down

LEMMA ApplyTyped ==
    ASSUME TypeOK, NEW o \in Objects, Apply(o)
    PROVE  TypeOK'
<1>1. /\ object' \in [Objects -> Object] /\ news' \in BOOLEAN
      /\ \A p \in Objects : object'[p].content \in {"required"} \cup Damage(p)
  <2>1. CASE UNCHANGED <<object, news>>
    BY <2>1 DEF TypeOK
  <2>2. CASE Write(o)
    BY <2>2, StoreTyped DEF Write
  <2>3. QED
    BY <2>1, <2>2 DEF Apply, Keep
<1>2. /\ step' \in 0..Len(Pipeline) /\ retry' \in BOOLEAN
      /\ running' \in BOOLEAN /\ queued' \in BOOLEAN
  <2>1. CASE (Advance \/ Fail) /\ UNCHANGED <<running, queued>>
    BY <2>1, StepTyped DEF TypeOK
  <2>2. CASE Down
    BY <2>2, DownTyped
  <2>3. QED
    BY <2>1, <2>2 DEF Apply
<1>3. cache' \in [Memoized -> Nat]
  BY <1>1, RememberedTyped, DownTyped DEF Apply, TypeOK
<1>4. annotations' \in [Annotated -> Nat]
  BY <1>1, DownTyped DEF Apply, TypeOK, Object
<1>5. used' \in [EnvironmentSteps -> Nat]
  BY SpendTyped, StepsNamed DEF Apply, TypeOK
<1>6. UNCHANGED <<secret, template, rollouts>>
  BY DEF Apply
<1>7. QED
  BY <1>1, <1>2, <1>3, <1>4, <1>5, <1>6 DEF TypeOK

LEMMA CheckSecretTyped ==
    ASSUME TypeOK, NEW s \in Secrets, CheckSecretReady(s)
    PROVE  TypeOK'
<1>1. Cached(s).version \in Nat
  <2>1. secret[s] \in Seq(SecretVersion) /\ Len(secret[s]) > 0
    BY DEF TypeOK
  <2>2. secret[s][1] \in SecretVersion
    BY <2>1
  <2>3. QED
    BY <2>2 DEF Cached, SecretVersion
<1>2. annotations' \in [Annotated -> Nat]
  BY <1>1, KindsApart DEF CheckSecretReady, TypeOK
<1>3. step' \in 0..Len(Pipeline) /\ retry' \in BOOLEAN
  BY StepTyped DEF CheckSecretReady
<1>4. QED
  BY <1>2, <1>3 DEF CheckSecretReady, TypeOK

LEMMA ManageDeploymentsTyped ==
    ASSUME TypeOK, ManageDeployments
    PROVE  TypeOK'
<1>1. template' \in [Annotated -> Nat] /\ rollouts' \in Nat
  BY DEF ManageDeployments, TypeOK
<1>2. step' \in 0..Len(Pipeline) /\ retry' \in BOOLEAN
  BY StepTyped DEF ManageDeployments
<1>3. used' \in [EnvironmentSteps -> Nat]
  BY SpendTyped, StepsNamed DEF ManageDeployments, TypeOK
<1>4. QED
  BY <1>1, <1>2, <1>3 DEF ManageDeployments, TypeOK

\* One step per action.
LEMMA TypeStep ==
    ASSUME TypeOK, [Next]_vars
    PROVE  TypeOK'
<1>1. CASE Dequeue
  BY <1>1, BlankTyped DEF Dequeue, TypeOK
<1>2. ASSUME NEW o \in Objects, Apply(o) PROVE TypeOK'
  BY <1>2, ApplyTyped
<1>3. ASSUME NEW s \in Secrets, CheckSecretReady(s) PROVE TypeOK'
  BY <1>3, CheckSecretTyped
<1>4. CASE ManageDeployments
  BY <1>4, ManageDeploymentsTyped
<1>5. CASE RetryAfterBackoff
  BY <1>5 DEF RetryAfterBackoff, TypeOK
<1>6. CASE PeriodicResync
  BY <1>6 DEF PeriodicResync, worker, TypeOK
<1>7. CASE ConfigMapEvent
  BY <1>7 DEF ConfigMapEvent, worker, TypeOK
<1>8. CASE Crash
  <2>1. used' \in [EnvironmentSteps -> Nat]
    BY <1>8, SpendTyped, StepsNamed DEF Crash, TypeOK
  <2>2. QED
    BY <1>8, <2>1, DownTyped DEF Crash, TypeOK
<1>9. CASE Restart
  BY <1>9 DEF Restart, TypeOK
<1>10. ASSUME NEW s \in Secrets, SecretEvent(s) PROVE TypeOK'
  BY <1>10, TailTyped DEF SecretEvent, worker, TypeOK
<1>11. ASSUME NEW s \in Secrets, IssueSecret(s) PROVE TypeOK'
  BY <1>11, StoreSecretTyped DEF IssueSecret, worker, TypeOK
<1>12. ASSUME NEW s \in Secrets, RotateSecret(s) PROVE TypeOK'
  <2>1. used' \in [EnvironmentSteps -> Nat]
    BY <1>12, SpendTyped, StepsNamed DEF RotateSecret, TypeOK
  <2>2. QED
    BY <1>12, <2>1, StoreSecretTyped DEF RotateSecret, worker, TypeOK
<1>13. ASSUME NEW s \in Secrets, LoseSecret(s) PROVE TypeOK'
  <2>1. used' \in [EnvironmentSteps -> Nat]
    BY <1>13, SpendTyped, StepsNamed DEF LoseSecret, TypeOK
  <2>2. QED
    BY <1>13, <2>1, StoreSecretTyped DEF LoseSecret, worker, TypeOK
<1>14. ASSUME NEW o \in Touchable, Touch(o) PROVE TypeOK'
  <2>1. used' \in [EnvironmentSteps -> Nat]
    BY <1>14, SpendTyped, StepsNamed DEF Touch, TypeOK
  <2>2. o \in Objects /\ \E c \in Damage(o) : Store(o, c)
    BY <1>14, TouchableAssumption DEF Touch
  <2>3. /\ object' \in [Objects -> Object] /\ news' \in BOOLEAN
        /\ \A p \in Objects : object'[p].content \in {"required"} \cup Damage(p)
    BY <2>2, StoreTyped
  <2>4. QED
    BY <1>14, <2>1, <2>3 DEF Touch, worker, TypeOK
<1>15. CASE UNCHANGED vars
  BY <1>15 DEF vars, TypeOK
<1>16. QED
  BY <1>1, <1>2, <1>3, <1>4, <1>5, <1>6, <1>7, <1>8, <1>9, <1>10, <1>11, <1>12, <1>13,
     <1>14, <1>15 DEF Next, Worker

LEMMA TypeInit == Init => TypeOK
<1> SUFFICES ASSUME Init PROVE TypeOK
  OBVIOUS
<1>1. /\ object \in [Objects -> Object]
      /\ \A o \in Objects : object[o].content \in {"required"} \cup Damage(o)
  BY DEF Init, Object, Contents, Damage
<1>2. [data |-> "absent", version |-> 0] \in SecretVersion
  BY DEF SecretVersion
<1>3. secret \in [Secrets -> Seq(SecretVersion)] /\ \A s \in Secrets : Len(secret[s]) > 0
  BY <1>2 DEF Init
<1>4. used \in [EnvironmentSteps -> Nat] /\ cache \in [Memoized -> Nat]
  BY DEF Init
<1>5. QED
  BY <1>1, <1>3, <1>4, BlankTyped DEF Init, TypeOK

\* Every variable keeps its shape and the worker stays inside the pipeline.
THEOREM RolloutTypeCorrect == Spec => []TypeOK
BY TypeInit, TypeStep, PTL DEF Spec

-----------------------------------------------------------------------------
(* The cache                                                                *)

\* An object's version only grows and the cache never runs ahead of it, so a version the
\* cache knows is the one the manifest was seen at.
CacheInv ==
    \A o \in Memoized :
        /\ cache[o] <= object[o].version
        /\ object[o].version = 0 => object[o].content = "absent"
        /\ cache[o] = object[o].version /\ object[o].content # "absent"
              => object[o].content = "required"

\* What CacheInv says of one object.
Vouched(o) ==
    /\ cache[o] <= object[o].version
    /\ object[o].version = 0 => object[o].content = "absent"
    /\ cache[o] = object[o].version /\ object[o].content # "absent"
          => object[o].content = "required"

LEMMA VouchedMeans == CacheInv <=> \A o \in Memoized : Vouched(o)
BY DEF CacheInv, Vouched

LEMMA SkipIsRequired ==
    ASSUME CacheInv, NEW o \in Objects, SafeToSkip(o)
    PROVE  object[o].content = "required"
BY DEF CacheInv, SafeToSkip

\* Only a Service can differ from its manifest without an apply noticing.
LEMMA OnlyServicesOverlooked ==
    ASSUME TypeOK
    PROVE  /\ \A o \in Objects \ Services : object[o].content # "overlooked"
           /\ Memoized \cap Services = {}
           /\ "Configmap" \notin Services
<1>1. \A o \in Objects \ Services : "overlooked" \notin {"required"} \cup Damage(o)
  BY DEF Damage
<1>2. QED
  BY <1>1 DEF TypeOK, Memoized, Unstructured, Services

\* A call spoils no object.  It fails, or kills the process, or leaves its object as required,
\* a Service's ports aside.
LEMMA ApplyOutcome ==
    ASSUME TypeOK, CacheInv, NEW o \in Objects, Apply(o)
    PROVE  /\ \A p \in Objects : object[p].content = "required" => object'[p].content = "required"
           /\ \A p \in Objects \ {o} : object'[p] = object[p]
           /\ object'[o] = object[o]
              \/ object'[o] = [content |-> "required", version |-> object[o].version + 1]
           /\ \/ Fail /\ UNCHANGED cache
              \/ Down /\ UNCHANGED object
              \/ /\ Advance
                 /\ cache' = Remembered(o)
                 /\ \/ object'[o].content = "required"
                    \/ object'[o].content = "overlooked" /\ o \in Services
<1>1. CASE Keep(o) /\ Advance /\ cache' = Remembered(o)
  BY <1>1, SkipIsRequired, OnlyServicesOverlooked DEF Keep
<1>2. ASSUME Write(o)
      PROVE  /\ object'[o] = [content |-> "required", version |-> object[o].version + 1]
             /\ \A p \in Objects \ {o} : object'[p] = object[p]
             /\ object'[o].content = "required"
             /\ \A p \in Objects :
                   object[p].content = "required" => object'[p].content = "required"
  <2>1. /\ object'[o] = [content |-> "required", version |-> object[o].version + 1]
        /\ \A p \in Objects \ {o} : object'[p] = object[p]
    BY <1>2, StoreTyped DEF Write
  <2>2. object'[o].content = "required"
    BY <2>1
  <2>3. QED
    BY <2>1, <2>2
<1>3. CASE UNCHANGED object /\ Fail /\ UNCHANGED cache
  BY <1>3
<1>4. CASE UNCHANGED object /\ Down
  BY <1>4
<1>5. \/ (Keep(o) \/ Write(o)) /\ Advance /\ cache' = Remembered(o)
      \/ UNCHANGED object /\ Down
      \/ (UNCHANGED object \/ Write(o)) /\ Fail /\ UNCHANGED cache
  BY ZenonT(30) DEF Apply
<1>6. CASE (Keep(o) \/ Write(o)) /\ Advance /\ cache' = Remembered(o)
  <2>1. CASE Keep(o)
    BY <1>1, <1>6, <2>1
  <2>2. CASE Write(o)
    BY <1>2, <1>6, <2>2
  <2>3. QED
    BY <1>6, <2>1, <2>2
<1>7. CASE (UNCHANGED object \/ Write(o)) /\ Fail /\ UNCHANGED cache
  <2>1. CASE Write(o)
    BY <1>2, <1>7, <2>1
  <2>2. CASE UNCHANGED object
    BY <1>3, <1>7, <2>2
  <2>3. QED
    BY <1>7, <2>1, <2>2
<1>8. QED
  BY <1>4, <1>5, <1>6, <1>7

\* A process that starts again knows no version of anything.
LEMMA CacheDown ==
    ASSUME TypeOK, CacheInv, Down, UNCHANGED object
    PROVE  CacheInv'
<1>1. \A o \in Memoized : cache'[o] = 0
  BY DEF Down
<1>2. \A o \in Memoized : object[o].version \in Nat
  BY KindsApart DEF TypeOK, Object
<1>3. QED
  BY <1>1, <1>2 DEF CacheInv

LEMMA CacheApply ==
    ASSUME TypeOK, CacheInv, NEW o \in Objects, Apply(o)
    PROVE  CacheInv'
<1> SUFFICES ASSUME NEW p \in Memoized
             PROVE  Vouched(p)'
  BY DEF CacheInv, Vouched
<1>1. p \in Objects /\ Vouched(p)
  BY KindsApart, VouchedMeans
<1>2. object[p] \in Object /\ object'[p] \in Object /\ cache[p] \in Nat
  BY <1>1, ApplyTyped DEF TypeOK
<1>3. CASE Down /\ UNCHANGED object
  BY <1>3, CacheDown, VouchedMeans DEF CacheInv, Vouched
<1>4. CASE p # o /\ cache'[p] = cache[p]
  <2>1. object'[p] = object[p]
    BY <1>1, <1>4, ApplyOutcome
  <2>2. QED
    BY <1>1, <1>4, <2>1 DEF Vouched
<1>5. CASE p = o /\ UNCHANGED cache
  <2>1. \/ object'[p] = object[p]
        \/ object'[p] = [content |-> "required", version |-> object[p].version + 1]
    BY <1>5, ApplyOutcome
  <2>2. CASE object'[p] = object[p]
    BY <1>1, <1>5, <2>2 DEF Vouched
  <2>3. CASE object'[p] = [content |-> "required", version |-> object[p].version + 1]
    <3>1. object'[p].content = "required" /\ object'[p].version = object[p].version + 1
      BY <2>3
    <3>2. QED
      BY <1>1, <1>2, <1>5, <3>1 DEF Vouched, Object
  <2>4. QED
    BY <2>1, <2>2, <2>3
<1>6. CASE p = o /\ cache' = Remembered(o) /\ object'[o].content = "required" /\ ~SafeToSkip(o)
  <2>1. cache'[p] \in {0, object'[p].version}
    BY <1>6 DEF Remembered, TypeOK
  <2>2. object'[p].version # 0
    <3>1. CASE object'[p] = object[p]
      BY <1>1, <1>6, <3>1 DEF Vouched
    <3>2. CASE object'[p] = [content |-> "required", version |-> object[p].version + 1]
      BY <1>2, <3>2 DEF Object
    <3>3. QED
      BY <1>6, <3>1, <3>2, ApplyOutcome
  <2>3. QED
    BY <1>2, <1>6, <2>1, <2>2 DEF Vouched, Object
<1>7. CASE p = o /\ SafeToSkip(o) /\ cache' = Remembered(o)
  BY <1>5, <1>7 DEF Remembered
<1>8. cache' = Remembered(o) /\ p # o => cache'[p] = cache[p]
  BY DEF Remembered, TypeOK
<1>9. p \notin Services
  BY OnlyServicesOverlooked
<1>10. QED
  BY <1>3, <1>4, <1>5, <1>6, <1>7, <1>8, <1>9, ApplyOutcome

LEMMA CacheTouch ==
    ASSUME TypeOK, CacheInv, NEW o \in Touchable, Touch(o)
    PROVE  CacheInv'
<1> SUFFICES ASSUME NEW p \in Memoized
             PROVE  Vouched(p)'
  BY DEF CacheInv, Vouched
<1>1. p \in Objects /\ o \in Objects /\ Vouched(p) /\ UNCHANGED cache
  BY KindsApart, VouchedMeans, TouchableAssumption DEF Touch, worker
<1>2. object[p] \in Object /\ cache[p] \in Nat
  BY <1>1 DEF TypeOK
<1>3. PICK c \in Damage(o) : Store(o, c)
  BY DEF Touch
<1>4. CASE p = o
  <2>1. object'[p].version = object[p].version + 1
    <3>1. object'[o] = [content |-> c, version |-> object[o].version + 1]
      BY <1>1, <1>3, StoreTyped
    <3>2. QED
      BY <1>4, <3>1
  <2>2. cache'[p] < object'[p].version /\ object'[p].version # 0
    BY <1>1, <1>2, <2>1 DEF Vouched, Object
  <2>3. cache'[p] \in Nat /\ object'[p].version \in Nat
    BY <1>1, <1>2, <2>1 DEF Object
  <2>4. QED
    BY <2>2, <2>3 DEF Vouched
<1>5. CASE p # o
  <2>1. object'[p] = object[p]
    BY <1>1, <1>3, <1>5, StoreTyped
  <2>2. QED
    BY <1>1, <2>1 DEF Vouched
<1>6. QED
  BY <1>4, <1>5

LEMMA CacheStep ==
    ASSUME TypeOK, CacheInv, [Next]_vars
    PROVE  CacheInv'
<1>1. ASSUME NEW o \in Objects, Apply(o) PROVE CacheInv'
  BY <1>1, CacheApply
<1>2. ASSUME NEW o \in Touchable, Touch(o) PROVE CacheInv'
  BY <1>2, CacheTouch
<1>3. CASE Crash
  BY <1>3, CacheDown DEF Crash
<1>4. ASSUME UNCHANGED <<object, cache>> PROVE CacheInv'
  BY <1>4 DEF CacheInv
<1>5. QED
  BY <1>1, <1>2, <1>3, <1>4
  DEF Next, Worker, Dequeue, CheckSecretReady, ManageDeployments, RetryAfterBackoff,
      PeriodicResync, ConfigMapEvent, Restart, SecretEvent, IssueSecret, RotateSecret,
      LoseSecret, worker, vars

LEMMA CacheInit == Init => CacheInv
<1> SUFFICES ASSUME Init PROVE CacheInv
  OBVIOUS
<1>1. \A o \in Memoized : /\ cache[o] = 0
                         /\ object[o] = [content |-> "absent", version |-> 0]
  BY KindsApart DEF Init
<1>2. QED
  BY <1>1 DEF CacheInv

\* The resource cache never makes an apply skip an object that drifted.
THEOREM CacheIsSound == Spec => []SkipsAreSound
<1>1. TypeOK /\ CacheInv /\ [Next]_vars => CacheInv'
  BY CacheStep
<1>2. CacheInv => SkipsAreSound
  BY SkipIsRequired DEF SkipsAreSound
<1>3. QED
  BY <1>1, <1>2, CacheInit, RolloutTypeCorrect, PTL DEF Spec

-----------------------------------------------------------------------------
(* The barrier                                                              *)

\* While nobody touches the objects, the worker leaves only required ones behind it, and
\* the first rollout finds all of them behind it.
Barrier ==
    used["touch"] = 0 =>
        /\ \A o \in Objects : object[o].content \in {"absent", "required"}
        /\ \A i \in 1..23 :
              i < step /\ Pipeline[i] \in Objects => object[Pipeline[i]].content = "required"
        /\ rollouts > 0 => \A o \in Objects : object[o].content = "required"

LEMMA BarrierApply ==
    ASSUME TypeOK, CacheInv, Barrier, NEW o \in Objects, Apply(o)
    PROVE  Barrier'
<1> SUFFICES ASSUME used'["touch"] = 0
             PROVE  /\ \A p \in Objects : object'[p].content \in {"absent", "required"}
                    /\ \A i \in 1..23 : i < step' /\ Pipeline[i] \in Objects
                                          => object'[Pipeline[i]].content = "required"
                    /\ rollouts' > 0 => \A p \in Objects : object'[p].content = "required"
  BY DEF Barrier
<1>1. used["touch"] = 0
  BY DEF Apply, Spend, TypeOK, EnvironmentSteps
<1>2. \A p \in Objects : object'[p].content \in {"absent", "required"}
  <2>1. object'[o].content \in {"absent", "required"}
    <3>1. CASE object'[o] = object[o]
      BY <1>1, <3>1 DEF Barrier
    <3>2. CASE object'[o] = [content |-> "required", version |-> object[o].version + 1]
      BY <3>2
    <3>3. QED
      BY <3>1, <3>2, ApplyOutcome
  <2>2. QED
    BY <1>1, <2>1, ApplyOutcome DEF Barrier
<1>3. rollouts' > 0 => \A p \in Objects : object'[p].content = "required"
  BY <1>1, ApplyOutcome DEF Barrier, Apply
<1>4. ASSUME NEW i \in 1..23, i < step', Pipeline[i] \in Objects
      PROVE  object'[Pipeline[i]].content = "required"
  <2>1. Advance /\ object'[o].content = "required"
    <3>1. ~Fail /\ ~Down
      BY <1>4 DEF Fail, Down
    <3>2. object'[o].content # "overlooked"
      BY <1>2
    <3>3. QED
      BY <3>1, <3>2, ApplyOutcome
  <2>2. Pipeline[step] = o
    BY DEF Apply, At
  <2>3. step \in 0..24
    BY PipelineLength DEF TypeOK
  <2>4. i < step \/ i = step
    BY <1>4, <2>1, <2>3, PipelineLength DEF Advance
  <2>5. QED
    BY <1>1, <1>4, <2>1, <2>2, <2>4, ApplyOutcome DEF Barrier
<1>5. QED
  BY <1>2, <1>3, <1>4

LEMMA BarrierDeployments ==
    ASSUME TypeOK, Barrier, ManageDeployments
    PROVE  Barrier'
<1> SUFFICES ASSUME used'["touch"] = 0
             PROVE  /\ \A p \in Objects : object'[p].content \in {"absent", "required"}
                    /\ \A i \in 1..23 : i < step' /\ Pipeline[i] \in Objects
                                          => object'[Pipeline[i]].content = "required"
                    /\ rollouts' > 0 => \A p \in Objects : object'[p].content = "required"
  BY DEF Barrier
<1>1. used["touch"] = 0 /\ object' = object
  BY DEF ManageDeployments, Spend, TypeOK, EnvironmentSteps
<1>2. step = 24
  <2>1. step \in 1..24 /\ Pipeline[step] = "Deployments"
    BY PipelineLength DEF ManageDeployments, At, TypeOK
  <2>2. QED
    BY <2>1, PipelineLast
<1>3. step' = 0
  BY <1>2, PipelineLength DEF ManageDeployments, Advance, Fail
<1>4. \A p \in Objects : object[p].content = "required"
  <2> SUFFICES ASSUME NEW p \in Objects
               PROVE  object[p].content = "required"
    OBVIOUS
  <2>1. PICK i \in 1..23 : Pipeline[i] = p
    BY ObjectsFirst
  <2>2. QED
    BY <1>1, <1>2, <2>1 DEF Barrier
<1>5. QED
  BY <1>1, <1>3, <1>4

LEMMA BarrierStep ==
    ASSUME TypeOK, CacheInv, Barrier, [Next]_vars
    PROVE  Barrier'
<1>1. ASSUME NEW o \in Objects, Apply(o) PROVE Barrier'
  BY <1>1, BarrierApply
<1>2. CASE ManageDeployments
  BY <1>2, BarrierDeployments
<1>3. ASSUME NEW o \in Touchable, Touch(o) PROVE Barrier'
  <2>1. used'["touch"] = used["touch"] + 1 /\ used["touch"] \in Nat
    BY <1>3 DEF Touch, Spend, TypeOK, EnvironmentSteps
  <2>2. QED
    BY <2>1 DEF Barrier
<1>4. ASSUME NEW s \in Secrets, CheckSecretReady(s) PROVE Barrier'
  <2>1. Pipeline[step] = s /\ s \notin Objects
    BY <1>4, KindsApart DEF CheckSecretReady, At
  <2>2. UNCHANGED <<object, used, rollouts>>
    BY <1>4 DEF CheckSecretReady
  <2>3. step \in 0..24
    BY PipelineLength DEF TypeOK
  <2>4. step' = 0 \/ step' = step + 1
    BY <1>4, <2>3, PipelineLength DEF CheckSecretReady, Advance, Fail
  <2>5. QED
    BY <2>1, <2>2, <2>3, <2>4 DEF Barrier
<1>5. CASE Dequeue
  BY <1>5 DEF Dequeue, Barrier
<1>6. CASE Crash
  <2>1. used'["touch"] = used["touch"]
    BY <1>6 DEF Crash, Spend, TypeOK, EnvironmentSteps
  <2>2. QED
    BY <1>6, <2>1 DEF Crash, Down, Barrier
<1>7. ASSUME UNCHANGED <<object, step, rollouts>>, used'["touch"] = used["touch"]
      PROVE  Barrier'
  BY <1>7 DEF Barrier
<1>8. ASSUME NEW s \in Secrets, RotateSecret(s) \/ LoseSecret(s) PROVE Barrier'
  BY <1>7, <1>8 DEF RotateSecret, LoseSecret, worker, Spend, TypeOK, EnvironmentSteps
<1>9. QED
  BY <1>1, <1>2, <1>3, <1>4, <1>5, <1>6, <1>7, <1>8
  DEF Next, Worker, RetryAfterBackoff, PeriodicResync, ConfigMapEvent, Restart,
      SecretEvent, IssueSecret, worker, vars

\* As long as people leave the objects alone, the Deployment comes after all of them.
THEOREM DeploymentIsLast == Spec => []DeploymentComesLast
<1>1. Init => Barrier
  BY DEF Init, Barrier
<1>2. TypeOK /\ CacheInv /\ [Next]_vars => CacheInv'
  BY CacheStep
<1>3. TypeOK /\ CacheInv /\ Barrier /\ [Next]_vars => Barrier'
  BY BarrierStep
<1>4. Barrier => DeploymentComesLast
  BY DEF Barrier, DeploymentComesLast
<1>5. QED
  BY <1>1, <1>2, <1>3, <1>4, CacheInit, RolloutTypeCorrect, PTL DEF Spec

-----------------------------------------------------------------------------
(* No change is missed                                                      *)

Position == [a \in Annotated |-> CASE a = "WebhookSecret" -> 14
                                   [] a = "MetricsSecret" -> 16
                                   [] a = "Configmap" -> 17]

\* Version v is the one that the informer shows for a Secret, or the live one of a
\* ConfigMap of which no event is on its way, and it is usable.
Current(a, v) ==
    IF a = "Configmap"
    THEN ~news => v = object[a].version /\ object[a].content = "required"
    ELSE v = Cached(a).version /\ Cached(a).data = "keys"

\* Unless the key is queued or waits out a backoff, the pod template is current when the
\* worker is idle, and what it has collected so far is current when it is not.
QuietInv ==
    running /\ ~queued /\ ~retry =>
        \A a \in Annotated :
            /\ step = 0 => Current(a, template[a])
            /\ step > Position[a] => Current(a, annotations[a])

LEMMA PositionFacts ==
    /\ \A a \in Annotated : Position[a] \in {14, 16, 17} /\ Pipeline[Position[a]] = a
    /\ \A i \in 1..24, a \in Annotated : Pipeline[i] = a <=> i = Position[a]
<1>1. \A a \in Annotated : Position[a] \in {14, 16, 17} /\ Pipeline[Position[a]] = a
  BY DEF Position, Annotated, Secrets, Pipeline
<1>2. /\ \A i \in 1..24 : Pipeline[i] = "WebhookSecret" <=> i = 14
      /\ \A i \in 1..24 : Pipeline[i] = "MetricsSecret" <=> i = 16
      /\ \A i \in 1..24 : Pipeline[i] = "Configmap" <=> i = 17
  BY DEF Pipeline
<1>3. QED
  BY <1>1, <1>2 DEF Position, Annotated, Secrets

\* What leaves the ConfigMap, or its news flag, and the Secrets' cached copies alone.
LEMMA CurrentKept ==
    ASSUME NEW a \in Annotated, NEW v, Current(a, v),
           a # "Configmap" => Cached(a)' = Cached(a),
           a = "Configmap" => news' \/ (news' = news /\ object'[a] = object[a])
    PROVE  Current(a, v)'
<1>1. CASE a = "Configmap"
  BY <1>1 DEF Current
<1>2. CASE a # "Configmap"
  BY <1>2 DEF Current
<1>3. QED
  BY <1>1, <1>2

\* Storing an object announces it when it is the ConfigMap.
LEMMA StoreAnnounces ==
    ASSUME TypeOK, NEW o \in Objects, NEW c \in {"required"} \cup Damage(o), Store(o, c)
    PROVE  news' \/ (news' = news /\ object'["Configmap"] = object["Configmap"])
<1>1. CASE o = "Configmap"
  BY <1>1 DEF Store
<1>2. CASE o # "Configmap"
  <2>1. object'["Configmap"] = object["Configmap"]
    BY <1>2, StoreTyped, KindsApart
  <2>2. news' = news
    BY <1>2 DEF Store, TypeOK
  <2>3. QED
    BY <2>1, <2>2
<1>3. QED
  BY <1>1, <1>2

\* Everything the inductive step is about stays, whatever else the action does.
LEMMA QuietKept ==
    ASSUME QuietInv, UNCHANGED <<template, running, step, annotations>>,
           queued' = queued, retry' = retry,
           \A s \in Secrets : Cached(s)' = Cached(s),
           news' \/ (news' = news /\ object'["Configmap"] = object["Configmap"])
    PROVE  QuietInv'
<1> SUFFICES ASSUME running, ~queued, ~retry, NEW a \in Annotated
             PROVE  /\ step = 0 => Current(a, template[a])'
                    /\ step > Position[a] => Current(a, annotations[a])'
  BY DEF QuietInv
<1>1. a # "Configmap" => Cached(a)' = Cached(a)
  BY DEF Annotated
<1>2. ASSUME NEW v, Current(a, v) PROVE Current(a, v)'
  BY <1>1, <1>2, CurrentKept
<1>3. template'[a] = template[a] /\ annotations'[a] = annotations[a]
  OBVIOUS
<1>4. QED
  BY <1>2, <1>3 DEF QuietInv, Current

\* Storing a Secret appends to the log and leaves the informer's copy.
LEMMA StoreSecretKeepsCached ==
    ASSUME TypeOK, NEW s \in Secrets, NEW d \in {"absent", "empty", "keys"}, StoreSecret(s, d)
    PROVE  \A t \in Secrets : Cached(t)' = Cached(t)
<1> DEFINE new == [data |-> d, version |-> Live(s).version + 1]
<1>1. secret[s] \in Seq(SecretVersion) /\ Len(secret[s]) > 0
  BY DEF TypeOK
<1>2. Append(secret[s], new)[1] = secret[s][1]
  <2>1. Live(s) \in SecretVersion
    BY <1>1 DEF Live
  <2>2. new \in SecretVersion
    BY <2>1 DEF SecretVersion
  <2>3. QED
    BY <1>1, <2>2
<1>3. /\ secret'[s] = Append(secret[s], new)
      /\ \A t \in Secrets \ {s} : secret'[t] = secret[t]
  BY DEF StoreSecret, TypeOK
<1>4. QED
  BY <1>2, <1>3 DEF Cached


LEMMA QuietApply ==
    ASSUME TypeOK, CacheInv, QuietInv, NEW o \in Objects, Apply(o)
    PROVE  QuietInv'
<1>1. CASE Fail
  BY <1>1 DEF Fail, QuietInv
<1>2. CASE /\ Keep(o) \/ Write(o)
           /\ UNCHANGED <<running, queued>>
           /\ annotations' = IF o \in Annotated
                             THEN [annotations EXCEPT ![o] = object'[o].version]
                             ELSE annotations
           /\ Advance
  <2> SUFFICES ASSUME running, ~queued, ~retry, NEW a \in Annotated
               PROVE  /\ step' = 0 => Current(a, template[a])'
                      /\ step' > Position[a] => Current(a, annotations[a])'
    BY <1>2 DEF QuietInv, Apply, Advance
  <2>1. step \in 1..23 /\ Pipeline[step] = o
    <3>1. step \in 1..24 /\ Pipeline[step] = o
      BY PipelineLength DEF Apply, At, TypeOK
    <3>2. QED
      BY <3>1, PipelineLast, KindsApart
  <2>2. step' = step + 1
    BY <1>2, <2>1, PipelineLength DEF Advance
  <2>3. news' \/ (news' = news /\ object'["Configmap"] = object["Configmap"])
    <3>1. CASE Keep(o)
      BY <3>1 DEF Keep
    <3>2. CASE Write(o)
      BY <3>2, StoreAnnounces DEF Write
    <3>3. QED
      BY <1>2, <3>1, <3>2
  <2>4. o = "Configmap" => object'[o].content = "required"
    <3>1. CASE Keep(o)
      BY <3>1, SkipIsRequired, OnlyServicesOverlooked DEF Keep
    <3>2. CASE Write(o)
      <4>1. object'[o] = [content |-> "required", version |-> object[o].version + 1]
        BY <3>2, StoreTyped DEF Write
      <4>2. QED
        BY <4>1
    <3>3. QED
      BY <1>2, <3>1, <3>2
  <2>5. CASE a = o
    <3>1. a = "Configmap"
      BY <2>5, KindsApart DEF Annotated
    <3>2. annotations'[a] = object'[a].version
      BY <1>2, <2>5 DEF TypeOK
    <3>3. QED
      BY <2>1, <2>2, <2>4, <2>5, <3>1, <3>2 DEF Current
  <2>6. CASE a # o
    <3>1. step > Position[a] \/ ~(step' > Position[a])
      BY <2>1, <2>2, <2>6, PositionFacts
    <3>2. annotations'[a] = annotations[a]
      BY <1>2, <2>6 DEF TypeOK
    <3>3. a # "Configmap" => Cached(a)' = Cached(a)
      BY DEF Apply, Cached
    <3>4. step > Position[a] => Current(a, annotations[a])
      BY DEF QuietInv
    <3>5. step > Position[a] => Current(a, annotations[a])'
      BY <2>3, <3>2, <3>3, <3>4, CurrentKept DEF Current
    <3>6. QED
      BY <2>1, <2>2, <3>1, <3>5
  <2>7. QED
    BY <2>5, <2>6
<1>3. CASE Down
  BY <1>3 DEF Down, QuietInv
<1>4. QED
  BY <1>1, <1>2, <1>3 DEF Apply

LEMMA QuietCheckSecret ==
    ASSUME TypeOK, QuietInv, NEW s \in Secrets, CheckSecretReady(s)
    PROVE  QuietInv'
<1>1. CASE Fail
  BY <1>1 DEF Fail, QuietInv
<1>2. CASE /\ Cached(s).data = "keys"
           /\ annotations' = [annotations EXCEPT ![s] = Cached(s).version]
           /\ Advance
  <2> SUFFICES ASSUME running, ~queued, ~retry, NEW a \in Annotated
               PROVE  /\ step' = 0 => Current(a, template[a])'
                      /\ step' > Position[a] => Current(a, annotations[a])'
    BY <1>2 DEF QuietInv, CheckSecretReady, Advance
  <2>1. step \in 1..23 /\ Pipeline[step] = s
    <3>1. step \in 1..24 /\ Pipeline[step] = s
      BY PipelineLength DEF CheckSecretReady, At, TypeOK
    <3>2. QED
      BY <3>1, PipelineLast DEF Secrets
  <2>2. step' = step + 1
    BY <1>2, <2>1, PipelineLength DEF Advance
  <2>3. UNCHANGED <<object, news, secret>>
    BY DEF CheckSecretReady
  <2>4. CASE a = s
    <3>1. annotations'[a] = Cached(a).version /\ a # "Configmap"
      BY <1>2, <2>4, KindsApart DEF TypeOK
    <3>2. QED
      BY <1>2, <2>1, <2>2, <2>3, <2>4, <3>1 DEF Current, Cached
  <2>5. CASE a # s
    <3>1. step > Position[a] \/ ~(step' > Position[a])
      BY <2>1, <2>2, <2>5, PositionFacts
    <3>2. annotations'[a] = annotations[a]
      BY <1>2, <2>5 DEF TypeOK
    <3>3. step > Position[a] => Current(a, annotations[a])
      BY DEF QuietInv
    <3>4. QED
      BY <2>1, <2>2, <2>3, <3>1, <3>2, <3>3 DEF Current, Cached
  <2>6. QED
    BY <2>4, <2>5
<1>3. QED
  BY <1>1, <1>2 DEF CheckSecretReady

LEMMA QuietDeployments ==
    ASSUME TypeOK, QuietInv, ManageDeployments
    PROVE  QuietInv'
<1>1. CASE Fail
  BY <1>1 DEF Fail, QuietInv
<1>2. CASE template' = annotations /\ Advance
  <2>1. step = 24
    <3>1. step \in 1..24 /\ Pipeline[step] = "Deployments"
      BY PipelineLength DEF ManageDeployments, At, TypeOK
    <3>2. QED
      BY <3>1, PipelineLast
  <2>2. step' = 0
    BY <1>2, <2>1, PipelineLength DEF Advance
  <2>3. UNCHANGED <<object, secret, news>>
    BY DEF ManageDeployments
  <2>4. running /\ ~queued /\ ~retry => \A a \in Annotated : Current(a, annotations[a])
    BY <2>1, PositionFacts DEF QuietInv
  <2>5. template' = annotations /\ UNCHANGED <<running, queued, retry>>
    BY <1>2 DEF ManageDeployments, Advance
  <2>6. \A a \in Annotated : ~(step' > Position[a])
    BY <2>2, PositionFacts
  <2>7. QED
    BY <2>3, <2>4, <2>5, <2>6 DEF QuietInv, Current, Cached
<1>3. QED
  BY <1>1, <1>2 DEF ManageDeployments

LEMMA QuietStep ==
    ASSUME TypeOK, CacheInv, QuietInv, [Next]_vars
    PROVE  QuietInv'
<1>1. ASSUME NEW o \in Objects, Apply(o) PROVE QuietInv'
  BY <1>1, QuietApply
<1>2. ASSUME NEW s \in Secrets, CheckSecretReady(s) PROVE QuietInv'
  BY <1>2, QuietCheckSecret
<1>3. CASE ManageDeployments
  BY <1>3, QuietDeployments
<1>4. CASE Dequeue
  BY <1>4, PositionFacts DEF Dequeue, QuietInv
<1>5. CASE RetryAfterBackoff \/ PeriodicResync \/ ConfigMapEvent \/ Restart
  BY <1>5 DEF RetryAfterBackoff, PeriodicResync, ConfigMapEvent, Restart, QuietInv
<1>6. CASE Crash
  BY <1>6 DEF Crash, Down, QuietInv
<1>7. ASSUME NEW s \in Secrets, SecretEvent(s) PROVE QuietInv'
  BY <1>7 DEF SecretEvent, QuietInv
<1>8. ASSUME NEW s \in Secrets, IssueSecret(s) \/ RotateSecret(s) \/ LoseSecret(s)
      PROVE  QuietInv'
  <2>1. \E d \in {"absent", "empty", "keys"} : StoreSecret(s, d)
    BY <1>8 DEF IssueSecret, RotateSecret, LoseSecret
  <2>2. \A t \in Secrets : Cached(t)' = Cached(t)
    BY <2>1, StoreSecretKeepsCached
  <2>3. UNCHANGED <<template, running, step, annotations, queued, retry, news, object>>
    BY <1>8 DEF IssueSecret, RotateSecret, LoseSecret, worker
  <2>4. QED
    BY <2>2, <2>3, QuietKept
<1>9. ASSUME NEW o \in Touchable, Touch(o) PROVE QuietInv'
  <2>1. o \in Objects /\ \E c \in Damage(o) : Store(o, c)
    BY <1>9, TouchableAssumption DEF Touch
  <2>2. news' \/ (news' = news /\ object'["Configmap"] = object["Configmap"])
    BY <2>1, StoreAnnounces
  <2>3. UNCHANGED <<template, running, step, annotations, queued, retry, secret>>
    BY <1>9 DEF Touch, worker
  <2>4. QED
    BY <2>2, <2>3, QuietKept DEF Cached
<1>10. CASE UNCHANGED vars
  BY <1>10, QuietKept DEF vars, Cached
<1>11. QED
  BY <1>1, <1>2, <1>3, <1>4, <1>5, <1>6, <1>7, <1>8, <1>9, <1>10 DEF Next, Worker

\* No certificate or configuration change is missed, in whatever order Secrets are rotated,
\* lost and reissued, events arrive, calls fail and the process restarts.
THEOREM NothingMissed == Spec => []RolledOut
<1>1. Init => QuietInv
  BY DEF Init, QuietInv
<1>2. TypeOK /\ CacheInv /\ [Next]_vars => CacheInv'
  BY CacheStep
<1>3. TypeOK /\ CacheInv /\ QuietInv /\ [Next]_vars => QuietInv'
  BY QuietStep
<1>4. TypeOK /\ QuietInv => RolledOut
  <2> SUFFICES ASSUME TypeOK, QuietInv, Settled
               PROVE  /\ template = CurrentVersions
                      /\ \A s \in Secrets : Live(s).data = "keys"
                      /\ object["Configmap"].content = "required"
    BY DEF RolledOut
  <2>1. \A a \in Annotated : Current(a, template[a])
    BY DEF QuietInv, Settled
  <2>2. \A s \in Secrets : Live(s) = Cached(s)
    BY DEF Settled, Live, Cached
  <2>3. \A s \in Secrets : template[s] = Live(s).version /\ Live(s).data = "keys"
    BY <2>1, <2>2, KindsApart DEF Current
  <2>4. /\ template["Configmap"] = object["Configmap"].version
        /\ object["Configmap"].content = "required"
    BY <2>1 DEF Current, Annotated, Settled
  <2>5. \A a \in Annotated : template[a] = CurrentVersions[a]
    BY <2>3, <2>4 DEF CurrentVersions, Annotated, Secrets
  <2>6. QED
    BY <2>3, <2>4, <2>5 DEF TypeOK, CurrentVersions
<1>5. QED
  BY <1>1, <1>2, <1>3, <1>4, CacheInit, RolloutTypeCorrect, PTL DEF Spec

=============================================================================
