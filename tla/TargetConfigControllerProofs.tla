--------------------- MODULE TargetConfigControllerProofs ---------------------
(***************************************************************************)
(* Proofs about TargetConfigController for every set of configurations,    *)
(* every budget of environment steps and every bound on the informers' lag.*)
(***************************************************************************)
EXTENDS TargetConfigController, TLAPS, SequenceTheorems

USE ConfigsAssumption, ReplicasAssumption, LimitAssumption

-----------------------------------------------------------------------------
(* The version logs                                                         *)

\* A write keeps the informer's copy, makes the written object the API server's and
\* adds no other version.
LEMMA StoredFacts ==
    ASSUME NEW S, NEW log \in Seq(S), Len(log) > 0, NEW v \in S
    PROVE  /\ Stored(log, v) \in Seq(S)
           /\ Len(Stored(log, v)) > 0
           /\ Live(Stored(log, v)) = v
           /\ Cached(Stored(log, v)) = Cached(log)
           /\ Versions(Stored(log, v)) \subseteq Versions(log) \cup {v}
<1>1. CASE v = Live(log)
  BY <1>1 DEF Stored
<1>2. CASE v # Live(log)
  <2>1. Stored(log, v) = Append(log, v)
    BY <1>2 DEF Stored
  <2>2. /\ Append(log, v) \in Seq(S)
        /\ Len(Append(log, v)) = Len(log) + 1
        /\ Append(log, v)[Len(log) + 1] = v
        /\ \A i \in 1..Len(log) : Append(log, v)[i] = log[i]
    OBVIOUS
  <2>3. Len(log) \in Nat
    OBVIOUS
  <2>4. Versions(Append(log, v)) \subseteq Versions(log) \cup {v}
    BY <2>2, <2>3 DEF Versions
  <2>5. QED
    BY <2>1, <2>2, <2>3, <2>4 DEF Live, Cached
<1>3. QED
  BY <1>1, <1>2

\* Delivering an event drops the informer's copy and nothing else.
LEMMA TailFacts ==
    ASSUME NEW S, NEW log \in Seq(S), Len(log) > 1
    PROVE  /\ Tail(log) \in Seq(S)
           /\ Len(Tail(log)) > 0
           /\ Live(Tail(log)) = Live(log)
           /\ Versions(Tail(log)) \subseteq Versions(log)
<1>1. /\ Tail(log) \in Seq(S)
      /\ Len(Tail(log)) = Len(log) - 1
      /\ \A i \in 1..Len(log) - 1 : Tail(log)[i] = log[i + 1]
  OBVIOUS
<1>2. Len(log) \in Nat
  OBVIOUS
<1>3. QED
  BY <1>1, <1>2 DEF Live, Versions

\* The API server's and the informer's copies are versions.
LEMMA CopiesAreVersions ==
    ASSUME NEW S, NEW log \in Seq(S), Len(log) > 0
    PROVE  /\ Live(log) \in S /\ Live(log) \in Versions(log)
           /\ Cached(log) \in S /\ Cached(log) \in Versions(log)
           /\ Versions(log) \subseteq S
  BY DEF Live, Cached, Versions

\* The constants' default values have the types of the data they stand for.
LEMMA DefaultsTyped ==
    /\ (CHOOSE c \in Configs : TRUE) \in Configs
    /\ EmptyStatus \in StatusRecord
    /\ NoCall \in CallRecord
    /\ NoDeployment \in DepVersion
    /\ NoOperator \in [config: Configs, generation: Int]
    /\ \A c \in Configs : Required(c) \in DeploymentSpec
<1>1. (CHOOSE c \in Configs : TRUE) \in Configs
  OBVIOUS
<1>2. EmptyStatus \in StatusRecord
  BY DEF EmptyStatus, StatusRecord, Condition
<1>3. \A c \in Configs : Required(c) \in DeploymentSpec
  BY DEF Required, DeploymentSpec
<1>4. QED
  BY <1>1, <1>2, <1>3 DEF NoCall, CallRecord, Sites, NoDeployment, DepVersion, NoOperator

-----------------------------------------------------------------------------
(* Type correctness                                                         *)

\* UpdateStatus runs on behalf of one of sync()'s three calls.
CallInProgress ==
    pc \in {"readStatus", "readQuorum", "getForUpdate", "putStatus"} => call.site \in Sites

TypeInv == TypeOK /\ CallInProgress

LEMMA UpdatedTyped ==
    ASSUME NEW site \in Sites, NEW s \in StatusRecord, NEW d \in DepVersion
    PROVE  Updated(site, s, d) \in StatusRecord
<1>1. AvailableCondition(d) \in Condition /\ "True" \in Condition /\ "False" \in Condition
  BY DEF AvailableCondition, Condition
<1>2. d.generation \in Int /\ d.available \in Int
  BY DEF DepVersion
<1>3. CASE site = "available"
  BY <1>1, <1>3 DEF Updated, StatusRecord
<1>4. CASE site = "missing"
  BY <1>1, <1>4 DEF Updated, StatusRecord
<1>5. CASE site = "final"
  BY <1>1, <1>2, <1>5 DEF Updated, StatusRecord
<1>6. QED
  BY <1>3, <1>4, <1>5 DEF Sites

\* The types of the worker's variables except fetched.
WorkerOK ==
    /\ pc \in Steps
    /\ call \in CallRecord
    /\ operator \in [config: Configs, generation: Int]
    /\ deployment \in DepVersion
    /\ syncFailed \in BOOLEAN
    /\ CallInProgress

LEMMA ReturnTyped ==
    ASSUME NEW failed \in BOOLEAN, Return(failed)
    PROVE  WorkerOK'
  BY DefaultsTyped DEF Return, WorkerOK, Steps, CallInProgress

LEMMA BeginTyped ==
    ASSUME NEW site \in Sites, NEW d \in DepVersion, BeginUpdateStatus(site, d),
           operator' \in [config: Configs, generation: Int], syncFailed' \in BOOLEAN
    PROVE  WorkerOK'
<1>1. call' = [NoCall EXCEPT !.site = site]
  BY DEF BeginUpdateStatus
<1>2. call' \in CallRecord /\ call'.site \in Sites
  BY <1>1, DefaultsTyped DEF CallRecord
<1>3. QED
  BY <1>2 DEF BeginUpdateStatus, WorkerOK, Steps, CallInProgress

LEMMA AfterTyped ==
    ASSUME NEW failed \in BOOLEAN, WorkerOK, AfterUpdateStatus(failed)
    PROVE  WorkerOK'
<1>1. CASE call.site = "available" /\ ~failed
  BY <1>1, DefaultsTyped DEF AfterUpdateStatus, WorkerOK, Steps, CallInProgress
<1>2. CASE call.site = "available" /\ failed
  <2>1. Return(TRUE)
    BY <1>2 DEF AfterUpdateStatus
  <2>2. QED
    BY <2>1, ReturnTyped
<1>3. CASE call.site = "missing"
  <2>1. Return(TRUE)
    BY <1>3 DEF AfterUpdateStatus
  <2>2. QED
    BY <2>1, ReturnTyped
<1>4. CASE call.site = "final"
  <2>1. Return(failed)
    BY <1>4 DEF AfterUpdateStatus
  <2>2. QED
    BY <2>1, ReturnTyped
<1>5. QED
  BY <1>1, <1>2, <1>3, <1>4 DEF AfterUpdateStatus

LEMMA ComputeTyped ==
    ASSUME TypeOK, CallInProgress, pc \in {"readStatus", "readQuorum"},
           NEW position \in 1..Len(crLog), Compute(position)
    PROVE  WorkerOK'
<1> DEFINE v == crLog[position]
           new == Updated(call.site, v.status, deployment)
<1>1. /\ WorkerOK
      /\ v.status \in StatusRecord
      /\ position \in Nat
  <2>1. v \in CrVersion /\ position \in Nat
    BY DEF TypeOK
  <2>2. v.status \in StatusRecord
    BY <2>1 DEF CrVersion
  <2>3. QED
    BY <2>1, <2>2 DEF TypeOK, WorkerOK
<1>2. new \in StatusRecord
  BY <1>1, UpdatedTyped DEF CallInProgress, WorkerOK
<1>3. CASE new = v.status
  <2>1. AfterUpdateStatus(FALSE)
    BY <1>3 DEF Compute
  <2>2. QED
    BY <2>1, <1>1, AfterTyped
<1>4. CASE new # v.status
  <2>1. /\ pc' = "getForUpdate"
        /\ call' = [call EXCEPT !.previous = position, !.given = position, !.status = new]
        /\ UNCHANGED <<operator, deployment, syncFailed>>
    BY <1>4 DEF Compute
  <2>2. call' \in CallRecord /\ call'.site = call.site
    <3> HIDE DEF new
    <3>1. call \in CallRecord
      BY <1>1 DEF WorkerOK
    <3>2. QED
      BY <3>1, <2>1, <1>1, <1>2 DEF CallRecord
  <2>3. QED
    BY <2>1, <2>2, <1>1 DEF WorkerOK, Steps, CallInProgress
<1>5. QED
  BY <1>3, <1>4

\* The types of everything else.
ApiOK ==
    /\ crLog \in Seq(CrVersion) /\ Len(crLog) > 0
    /\ depLog \in Seq(DepVersion) /\ Len(depLog) > 0
    /\ certManager \in BOOLEAN

RestOK ==
    /\ fetched \in Nat
    /\ queued \in BOOLEAN
    /\ retry \in BOOLEAN
    /\ lateWrites \in Nat
    /\ used \in [Kinds -> Nat]

LEMMA TypeInvParts == TypeInv <=> ApiOK /\ WorkerOK /\ RestOK
  BY DEF TypeInv, TypeOK, ApiOK, WorkerOK, RestOK

LEMMA SpendTyped ==
    ASSUME NEW k \in Kinds, used \in [Kinds -> Nat], Spend(k)
    PROVE  used' \in [Kinds -> Nat]
  BY DEF Spend

\* The objects the API server is asked to store.
LEMMA ObjectsTyped ==
    ASSUME ApiOK, WorkerOK
    PROVE  /\ \A s \in StatusRecord : [Live(crLog) EXCEPT !.status = s] \in CrVersion
           /\ \A s \in Condition :
                [Live(crLog) EXCEPT !.status.syncDegraded = s] \in CrVersion
           /\ \A m \in ManagementStates, c \in Configs :
                [Live(crLog) EXCEPT !.management = m, !.config = c] \in CrVersion
           /\ Rendered(Live(depLog)) \in DepVersion
           /\ \A r \in Nat : [Live(depLog) EXCEPT !.spec.replicas = r, !.generation = @ + 1]
                                \in DepVersion
           /\ \A n \in Nat : [Live(depLog) EXCEPT !.available = n] \in DepVersion
<1> DEFINE cr == Live(crLog)
           d  == Live(depLog)
<1>1. cr \in CrVersion /\ d \in DepVersion
  BY CopiesAreVersions DEF ApiOK
<1> HIDE DEF cr, d
<1>2. /\ \A s \in StatusRecord : [cr EXCEPT !.status = s] \in CrVersion
      /\ \A m \in ManagementStates, c \in Configs :
            [cr EXCEPT !.management = m, !.config = c] \in CrVersion
  BY <1>1 DEF CrVersion
<1>3. ASSUME NEW s \in Condition
      PROVE  [cr EXCEPT !.status.syncDegraded = s] \in CrVersion
  <2>1. cr.status \in StatusRecord
    BY <1>1 DEF CrVersion
  <2>2. [cr.status EXCEPT !.syncDegraded = s] \in StatusRecord
    BY <2>1 DEF StatusRecord
  <2>3. QED
    BY <1>1, <2>2 DEF CrVersion
<1>4. Rendered(d) \in DepVersion
  <2>1. operator.config \in Configs /\ Required(operator.config) \in DeploymentSpec
    BY DefaultsTyped DEF WorkerOK
  <2>2. d.generation \in Nat /\ d.available \in Nat
    BY <1>1 DEF DepVersion
  <2> DEFINE g == IF ~d.exists THEN 1
                  ELSE IF d.spec # Required(operator.config)
                  THEN d.generation + 1 ELSE d.generation
             a == IF d.exists THEN d.available ELSE 0
             q == Required(operator.config)
  <2>3. g \in Nat /\ a \in Nat
    BY <2>2
  <2>4. Rendered(d) = [d EXCEPT !.exists = TRUE, !.generation = g, !.spec = q,
                                !.hash = operator.config, !.available = a]
    BY DEF Rendered
  <2>5. q \in DeploymentSpec
    BY <2>1
  <2> HIDE DEF g, a, q
  <2>6. QED
    BY <1>1, <2>1, <2>3, <2>4, <2>5 DEF DepVersion
<1>5. ASSUME NEW r \in Nat
      PROVE  [d EXCEPT !.spec.replicas = r, !.generation = @ + 1] \in DepVersion
  <2>1. d.spec \in DeploymentSpec /\ d.generation \in Nat
    BY <1>1 DEF DepVersion
  <2>2. [d.spec EXCEPT !.replicas = r] \in DeploymentSpec
    BY <2>1 DEF DeploymentSpec
  <2>3. d.generation + 1 \in Nat
    BY <2>1
  <2>4. QED
    BY <1>1, <2>2, <2>3 DEF DepVersion
<1>6. \A n \in Nat : [d EXCEPT !.available = n] \in DepVersion
  BY <1>1 DEF DepVersion
<1>7. QED
  BY <1>2, <1>3, <1>4, <1>5, <1>6 DEF cr, d

LEMMA TypeInit == Init => TypeInv
<1> SUFFICES ASSUME Init PROVE ApiOK /\ WorkerOK /\ RestOK
  BY TypeInvParts
<1>1. PICK c \in Configs :
        crLog = <<[management |-> "Managed", config |-> c, status |-> EmptyStatus]>>
  BY DEF Init
<1>2. [management |-> "Managed", config |-> c, status |-> EmptyStatus] \in CrVersion
  BY DefaultsTyped DEF CrVersion
<1>3. crLog \in Seq(CrVersion) /\ Len(crLog) > 0
  BY <1>1, <1>2
<1>4. depLog \in Seq(DepVersion) /\ Len(depLog) > 0
  BY DefaultsTyped DEF Init
<1>5. ApiOK
  BY <1>3, <1>4 DEF Init, ApiOK
<1>6. WorkerOK
  BY DefaultsTyped DEF Init, WorkerOK, Steps, CallInProgress
<1>7. RestOK
  BY DEF Init, RestOK
<1>8. QED
  BY <1>5, <1>6, <1>7

LEMMA TypeStep == TypeInv /\ [Next]_vars => TypeInv'
<1> SUFFICES ASSUME ApiOK, WorkerOK, RestOK, TypeOK, CallInProgress, [Next]_vars
             PROVE  ApiOK' /\ WorkerOK' /\ RestOK'
  BY DEF TypeInv, TypeOK, ApiOK, WorkerOK, RestOK
<1> USE DEF api, queue, worker
<1>a. "apiFailure" \in Kinds /\ "crash" \in Kinds /\ "edit" \in Kinds /\ "scale" \in Kinds
      /\ "delete" \in Kinds /\ "podFailure" \in Kinds /\ "dependency" \in Kinds
  BY DEF Kinds
<1>b. used' = used => used' \in [Kinds -> Nat]
  BY DEF RestOK
<1>c. \A k \in Kinds : Spend(k) => used' \in [Kinds -> Nat]
  BY SpendTyped DEF RestOK
<1>d. Len(crLog) \in 1..Len(crLog) /\ 1 \in 1..Len(crLog)
  BY DEF ApiOK
<1>e. Cached(depLog) \in DepVersion /\ Live(depLog) \in DepVersion
  BY CopiesAreVersions DEF ApiOK
<1>1. CASE ReadOperatorState
  <2>1. UNCHANGED <<crLog, depLog, certManager, fetched, queued, retry, lateWrites, used>>
    BY <1>1 DEF ReadOperatorState
  <2>2. WorkerOK'
    <3>1. CASE Compute(1)
      BY <3>1, <1>1, <1>d, ComputeTyped DEF ReadOperatorState
    <3>2. CASE pc' = "readQuorum" /\ UNCHANGED <<call, operator, deployment, syncFailed>>
      BY <3>2, <1>1 DEF ReadOperatorState, WorkerOK, CallInProgress, Steps
    <3>3. QED
      BY <1>1, <3>1, <3>2 DEF ReadOperatorState
  <2>3. QED
    BY <2>1, <2>2 DEF ApiOK, RestOK
<1>2. CASE GetOperatorStateWithQuorum
  <2>1. UNCHANGED <<crLog, depLog, certManager, fetched, queued, retry, lateWrites>>
        /\ used' \in [Kinds -> Nat]
    BY <1>2, <1>a, <1>b, <1>c DEF GetOperatorStateWithQuorum
  <2>2. WorkerOK'
    BY <1>2, <1>d, ComputeTyped, AfterTyped DEF GetOperatorStateWithQuorum
  <2>3. QED
    BY <2>1, <2>2 DEF ApiOK, RestOK
<1>3. CASE GetForUpdate
  <2>1. UNCHANGED <<crLog, depLog, certManager, fetched, queued, retry, lateWrites>>
        /\ used' \in [Kinds -> Nat]
    BY <1>3, <1>a, <1>b, <1>c DEF GetForUpdate
  <2>2. WorkerOK'
    <3>1. ASSUME NEW i \in 1..Len(crLog), call' = [call EXCEPT !.target = i],
                 pc' = "putStatus", UNCHANGED <<operator, deployment, syncFailed>>
          PROVE  WorkerOK'
      <4>a. i \in Nat /\ call \in CallRecord
        BY DEF WorkerOK
      <4>1. call' \in CallRecord /\ call'.site = call.site
        BY <4>a, <3>1 DEF CallRecord
      <4>2. call.site \in Sites
        BY <1>3 DEF GetForUpdate, CallInProgress
      <4>3. QED
        BY <3>1, <4>1, <4>2 DEF WorkerOK, Steps, CallInProgress
    <3>2. QED
      BY <1>3, <3>1, AfterTyped DEF GetForUpdate
  <2>3. QED
    BY <2>1, <2>2 DEF ApiOK, RestOK
<1>4. CASE PutStatus
  <2> DEFINE written == Stored(crLog, [Live(crLog) EXCEPT !.status = call.status])
  <2>1. call.status \in StatusRecord /\ call.site \in Sites
    BY <1>4 DEF WorkerOK, CallRecord, PutStatus, CallInProgress
  <2>2. written \in Seq(CrVersion) /\ Len(written) > 0
    <3>1. [Live(crLog) EXCEPT !.status = call.status] \in CrVersion
      BY <2>1, ObjectsTyped
    <3>2. QED
      BY <3>1, StoredFacts DEF ApiOK
  <2>3. crLog' \in {crLog, written}
    BY <1>4 DEF PutStatus
  <2>4. UNCHANGED <<depLog, certManager, fetched, queued, retry, lateWrites>>
        /\ used' \in [Kinds -> Nat]
    BY <1>4, <1>a, <1>b, <1>c DEF PutStatus
  <2>5. WorkerOK'
    <3>1. ASSUME call' = [NoCall EXCEPT !.site = call.site, !.tries = call.tries + 1,
                                        !.previous = call.previous],
                 pc' = "readStatus", UNCHANGED <<operator, deployment, syncFailed>>
          PROVE  WorkerOK'
      <4>1. call' \in CallRecord /\ call'.site = call.site
        <5>1. call.tries + 1 \in Nat /\ call.previous \in Nat
          BY DEF WorkerOK, CallRecord
        <5>2. QED
          BY <5>1, <3>1, <2>1, DefaultsTyped DEF CallRecord
      <4>2. QED
        BY <3>1, <4>1, <2>1 DEF WorkerOK, Steps, CallInProgress
    <3>2. QED
      BY <1>4, <3>1, AfterTyped DEF PutStatus
  <2>6. QED
    BY <2>2, <2>3, <2>4, <2>5 DEF ApiOK, RestOK
<1>5. CASE Dequeue
  BY <1>5, <1>b DEF Dequeue, ApiOK, WorkerOK, RestOK, Steps, CallInProgress
<1>6. CASE CheckManagementState
  <2>1. UNCHANGED <<crLog, depLog, certManager, fetched, queued, retry, lateWrites, used>>
    BY <1>6 DEF CheckManagementState
  <2>2. WorkerOK'
    <3>1. CASE BeginUpdateStatus("available", Cached(depLog)) /\ UNCHANGED <<operator, syncFailed>>
      <4>1. "available" \in Sites
        BY DEF Sites
      <4>2. QED
        BY <3>1, <4>1, <1>e, BeginTyped DEF WorkerOK
    <3>2. CASE Return(FALSE)
      BY <3>2, ReturnTyped
    <3>3. QED
      BY <1>6, <3>1, <3>2 DEF CheckManagementState
  <2>3. QED
    BY <2>1, <2>2 DEF ApiOK, RestOK
<1>7. CASE CheckCertManager
  <2>1. UNCHANGED <<crLog, depLog, certManager, fetched, queued, retry, lateWrites>>
        /\ used' \in [Kinds -> Nat]
    BY <1>7, <1>a, <1>b, <1>c DEF CheckCertManager
  <2>2. WorkerOK'
    <3>1. CASE BeginUpdateStatus("missing", NoDeployment) /\ UNCHANGED <<operator, syncFailed>>
      <4>1. "missing" \in Sites
        BY DEF Sites
      <4>2. QED
        BY <3>1, <4>1, DefaultsTyped, BeginTyped DEF WorkerOK
    <3>2. CASE Return(TRUE)
      BY <3>2, ReturnTyped
    <3>3. CASE pc' = "getOperator" /\ UNCHANGED <<call, operator, deployment, syncFailed>>
      BY <3>3 DEF WorkerOK, Steps, CallInProgress
    <3>4. QED
      BY <1>7, <3>1, <3>2, <3>3 DEF CheckCertManager
  <2>3. QED
    BY <2>1, <2>2 DEF ApiOK, RestOK
<1>8. CASE GetOperator
  <2>1. UNCHANGED <<crLog, depLog, certManager, fetched, queued, retry, lateWrites>>
        /\ used' \in [Kinds -> Nat]
    BY <1>8, <1>a, <1>b, <1>c DEF GetOperator
  <2>2. WorkerOK'
    <3>1. CASE Return(TRUE)
      BY <3>1, ReturnTyped
    <3>2. CASE /\ operator' = [config |-> Live(crLog).config,
                               generation |-> Live(crLog).status.generation]
               /\ pc' = "prerequisites"
               /\ UNCHANGED <<call, deployment, syncFailed>>
      <4>1. Live(crLog) \in CrVersion
        BY CopiesAreVersions DEF ApiOK
      <4>2. operator' \in [config: Configs, generation: Int]
        BY <3>2, <4>1 DEF CrVersion, StatusRecord
      <4>3. QED
        BY <3>2, <4>2 DEF WorkerOK, Steps, CallInProgress
    <3>3. QED
      BY <1>8, <3>1, <3>2 DEF GetOperator
  <2>3. QED
    BY <2>1, <2>2 DEF ApiOK, RestOK
<1>9. CASE ManagePrerequisites
  <2>1. UNCHANGED <<crLog, depLog, certManager, fetched, queued, retry, lateWrites>>
        /\ used' \in [Kinds -> Nat]
    BY <1>9, <1>a, <1>b, <1>c DEF ManagePrerequisites
  <2>2. WorkerOK'
    <3>1. CASE Return(TRUE)
      BY <3>1, ReturnTyped
    <3>2. CASE pc' = "getDeployment" /\ UNCHANGED <<call, operator, deployment, syncFailed>>
      BY <3>2 DEF WorkerOK, Steps, CallInProgress
    <3>3. QED
      BY <1>9, <3>1, <3>2 DEF ManagePrerequisites
  <2>3. QED
    BY <2>1, <2>2 DEF ApiOK, RestOK
<1>10. CASE GetDeployment
  <2>1. UNCHANGED <<crLog, depLog, certManager, queued, retry, lateWrites>>
        /\ used' \in [Kinds -> Nat] /\ fetched' \in Nat
    <3>1. Len(depLog) \in Nat /\ fetched \in Nat
      BY DEF ApiOK, RestOK
    <3>2. QED
      BY <3>1, <1>10, <1>a, <1>b, <1>c DEF GetDeployment
  <2>2. WorkerOK'
    <3>1. CASE BeginUpdateStatus("final", Live(depLog)) /\ UNCHANGED <<operator, syncFailed>>
      <4>1. "final" \in Sites
        BY DEF Sites
      <4>2. QED
        BY <3>1, <4>1, <1>e, BeginTyped DEF WorkerOK
    <3>2. CASE Return(TRUE)
      BY <3>2, ReturnTyped
    <3>3. CASE /\ pc' \in {"updateDeployment", "createDeployment"}
               /\ UNCHANGED <<call, operator, deployment, syncFailed>>
      BY <3>3 DEF WorkerOK, Steps, CallInProgress
    <3>4. QED
      BY <1>10, <3>1, <3>2, <3>3 DEF GetDeployment
  <2>3. QED
    BY <2>1, <2>2 DEF ApiOK, RestOK
<1>11. ASSUME NEW accepted \in BOOLEAN, WriteDeployment(accepted)
       PROVE  ApiOK' /\ WorkerOK' /\ RestOK'
  <2> DEFINE written == Stored(depLog, Rendered(Live(depLog)))
  <2>1. written \in Seq(DepVersion) /\ Len(written) > 0 /\ Live(written) \in DepVersion
    <3>1. Rendered(Live(depLog)) \in DepVersion
      BY ObjectsTyped
    <3>2. QED
      BY <3>1, StoredFacts DEF ApiOK
  <2>2. depLog' \in {depLog, written}
    BY <1>11 DEF WriteDeployment
  <2>3. /\ UNCHANGED <<crLog, certManager, queued, retry>>
        /\ used' \in [Kinds -> Nat]
        /\ fetched' = 0
        /\ lateWrites' \in {lateWrites, lateWrites + 1}
    BY <1>11, <1>a, <1>b, <1>c DEF WriteDeployment
  <2>4. WorkerOK'
    <3>1. CASE BeginUpdateStatus("final", Live(written)) /\ UNCHANGED <<operator, syncFailed>>
      <4>1. "final" \in Sites
        BY DEF Sites
      <4>2. QED
        BY <3>1, <4>1, <2>1, BeginTyped DEF WorkerOK
    <3>2. CASE Return(TRUE)
      BY <3>2, ReturnTyped
    <3>3. QED
      BY <1>11, <3>1, <3>2 DEF WriteDeployment
  <2>5. lateWrites' \in Nat
    BY <2>3 DEF RestOK
  <2>6. QED
    BY <2>1, <2>2, <2>3, <2>4, <2>5 DEF ApiOK, RestOK
<1>12. CASE CreateDeployment
  BY <1>11, <1>12 DEF CreateDeployment
<1>13. CASE UpdateDeployment
  BY <1>11, <1>13 DEF UpdateDeployment
<1>14. CASE ReportDegraded
  <2> DEFINE condition == IF syncFailed THEN "True" ELSE "False"
             written == Stored(crLog, [Live(crLog) EXCEPT !.status.syncDegraded = condition])
  <2>1. written \in Seq(CrVersion) /\ Len(written) > 0
    <3>1. condition \in Condition
      BY DEF Condition
    <3>2. [Live(crLog) EXCEPT !.status.syncDegraded = condition] \in CrVersion
      BY <3>1, ObjectsTyped
    <3>3. QED
      BY <3>2, StoredFacts DEF ApiOK
  <2>2. crLog' \in {crLog, written}
    BY <1>14 DEF ReportDegraded, ApplyOperatorStatus, WithSyncDegraded
  <2>3. /\ UNCHANGED <<depLog, certManager, fetched, queued, lateWrites>>
        /\ used' \in [Kinds -> Nat]
        /\ retry' \in BOOLEAN
    BY <1>14, <1>a, <1>b, <1>c DEF ReportDegraded, ApplyOperatorStatus, WithSyncDegraded, RestOK, WorkerOK
  <2>4. WorkerOK'
    BY <1>14 DEF ReportDegraded, ApplyOperatorStatus, WithSyncDegraded, WorkerOK, Steps, CallInProgress
  <2>5. QED
    BY <2>1, <2>2, <2>3, <2>4 DEF ApiOK, RestOK
<1>15. CASE RetryAfterBackoff \/ PeriodicResync
  BY <1>15 DEF RetryAfterBackoff, PeriodicResync, ApiOK, WorkerOK, RestOK, CallInProgress
<1>16. CASE CrEvent
  <2>1. crLog' \in Seq(CrVersion) /\ Len(crLog') > 0
    BY <1>16, TailFacts DEF CrEvent, ApiOK
  <2>2. /\ UNCHANGED <<depLog, certManager, pc, operator, deployment, fetched, syncFailed,
                       retry, used>>
        /\ queued' = TRUE
        /\ lateWrites' \in {0, lateWrites}
    BY <1>16 DEF CrEvent
  <2>3. call' \in CallRecord /\ call'.site = call.site
    <3>1. call \in CallRecord
      BY DEF WorkerOK
    <3>2. \A n \in Nat : Moved(n) \in Nat
      BY DEF Moved
    <3>3. Moved(call.previous) \in Nat /\ Moved(call.given) \in Nat /\ Moved(call.target) \in Nat
      BY <3>1, <3>2 DEF CallRecord
    <3>4. call' = [call EXCEPT !.previous = Moved(call.previous), !.given = Moved(call.given),
                               !.target = Moved(call.target)]
      BY <1>16 DEF CrEvent
    <3>5. QED
      BY <3>1, <3>3, <3>4 DEF CallRecord
  <2>4. QED
    BY <2>1, <2>2, <2>3 DEF ApiOK, WorkerOK, RestOK, CallInProgress
<1>17. CASE DeploymentEvent
  <2>1. depLog' \in Seq(DepVersion) /\ Len(depLog') > 0
    BY <1>17, TailFacts DEF DeploymentEvent, ApiOK
  <2>2. fetched' \in Nat
    BY <1>17 DEF DeploymentEvent, RestOK, Moved
  <2>3. QED
    BY <1>17, <2>1, <2>2 DEF DeploymentEvent, ApiOK, WorkerOK, RestOK, CallInProgress
<1>18. CASE Crash
  <2>1. used' \in [Kinds -> Nat]
    BY <1>18, <1>a, <1>c DEF Crash
  <2>2. QED
    BY <1>18, <2>1, DefaultsTyped
       DEF Crash, ApiOK, WorkerOK, RestOK, CallInProgress, Steps
<1>19. CASE Restart
  BY <1>19 DEF Restart, ApiOK, WorkerOK, RestOK, CallInProgress, Steps
<1>20. CASE EditSpec
  <2>1. used' \in [Kinds -> Nat]
    BY <1>20, <1>a, <1>c DEF EditSpec
  <2>2. PICK m \in ManagementStates, c \in Configs :
          crLog' = Stored(crLog, [Live(crLog) EXCEPT !.management = m, !.config = c])
    BY <1>20 DEF EditSpec
  <2>3. [Live(crLog) EXCEPT !.management = m, !.config = c] \in CrVersion
    BY ObjectsTyped
  <2>4. crLog' \in Seq(CrVersion) /\ Len(crLog') > 0
    BY <2>2, <2>3, StoredFacts DEF ApiOK
  <2>5. QED
    BY <1>20, <2>1, <2>4 DEF EditSpec, ApiOK, WorkerOK, RestOK, CallInProgress
<1>21. ASSUME NEW d \in DepVersion, depLog' = Stored(depLog, d), used' \in [Kinds -> Nat],
              UNCHANGED <<crLog, certManager, worker, queue, lateWrites>>
       PROVE  ApiOK' /\ WorkerOK' /\ RestOK'
  <2>1. depLog' \in Seq(DepVersion) /\ Len(depLog') > 0
    BY <1>21, StoredFacts DEF ApiOK
  <2>2. QED
    BY <1>21, <2>1 DEF ApiOK, WorkerOK, RestOK, CallInProgress
<1>22. CASE ScaleDeployment
  <2>1. PICK r \in ScaleTargets :
          depLog' = Stored(depLog, [Live(depLog) EXCEPT !.spec.replicas = r, !.generation = @ + 1])
    BY <1>22 DEF ScaleDeployment
  <2>2. r \in Nat
    OBVIOUS
  <2>3. [Live(depLog) EXCEPT !.spec.replicas = r, !.generation = @ + 1] \in DepVersion
    BY <2>2, ObjectsTyped
  <2>4. used' \in [Kinds -> Nat]
    BY <1>22, <1>a, <1>c DEF ScaleDeployment
  <2>5. QED
    BY <1>22, <1>21, <2>1, <2>3, <2>4 DEF ScaleDeployment
<1>23. CASE DeleteDeployment
  <2>1. used' \in [Kinds -> Nat]
    BY <1>23, <1>a, <1>c DEF DeleteDeployment
  <2>2. QED
    BY <1>23, <1>21, <2>1, DefaultsTyped DEF DeleteDeployment
<1>24. CASE PodsBecomeAvailable
  <2>1. Live(depLog).spec.replicas \in Nat
    BY <1>e DEF DepVersion, DeploymentSpec
  <2>2. [Live(depLog) EXCEPT !.available = Live(depLog).spec.replicas] \in DepVersion
    BY <2>1, ObjectsTyped
  <2>3. QED
    BY <1>24, <1>21, <2>2, <1>b DEF PodsBecomeAvailable
<1>25. CASE PodsFail
  <2>1. [Live(depLog) EXCEPT !.available = 0] \in DepVersion
    BY ObjectsTyped
  <2>2. used' \in [Kinds -> Nat]
    BY <1>25, <1>a, <1>c DEF PodsFail
  <2>3. QED
    BY <1>25, <1>21, <2>1, <2>2 DEF PodsFail
<1>26. CASE InstallOrRemoveCertManager
  <2>1. used' \in [Kinds -> Nat]
    BY <1>26, <1>a, <1>c DEF InstallOrRemoveCertManager
  <2>2. QED
    BY <1>26, <2>1 DEF InstallOrRemoveCertManager, ApiOK, WorkerOK, RestOK, CallInProgress
<1>27. CASE UNCHANGED vars
  BY <1>27 DEF vars, ApiOK, WorkerOK, RestOK, CallInProgress
<1>28. QED
  BY <1>1, <1>2, <1>3, <1>4, <1>5, <1>6, <1>7, <1>8, <1>9, <1>10, <1>12, <1>13, <1>14, <1>15,
     <1>16, <1>17, <1>18, <1>19, <1>20, <1>22, <1>23, <1>24, <1>25, <1>26, <1>27
  DEF Next, Worker, UpdateStatusStep, Environment

\* Every behaviour keeps the types, whatever the constants.
THEOREM TypeCorrect == Spec => []TypeOK
<1>1. Spec => []TypeInv
  BY TypeInit, TypeStep, PTL DEF Spec
<1>2. TypeInv => TypeOK
  BY DEF TypeInv
<1>3. QED
  BY <1>1, <1>2, PTL

-----------------------------------------------------------------------------
(* Recorded generations                                                     *)

\* Every generation that a version of the CR records or that the worker may yet record.
Recorded ==
    {v.status.generation : v \in Versions(crLog)}
        \cup {operator.generation, call.status.generation}
        \cup {g \in {deployment.generation} : call.site = "final"}

\* Generation g of Deployment d, if it is d's present one, was given to it by a write of
\* the operator and nobody has changed the spec since.
Vouched(d, g) ==
    \/ g = -1
    \/ /\ d.exists
       /\ g <= d.generation
       /\ g = d.generation => d.spec = Required(d.hash)

\* The inductive invariant behind GenerationSound: the property itself says nothing of the
\* generations in the worker's locals, which a step may put into the CR, nor that no
\* recorded generation is ahead of the Deployment's, which an edit would then make equal.
GenerationInv ==
    used["delete"] = 0 => \A g \in Recorded : Vouched(Live(depLog), g)

LEMMA RecordedTyped ==
    ASSUME TypeOK
    PROVE  Recorded \subseteq Int
<1>1. \A v \in Versions(crLog) : v.status.generation \in Int
  <2>1. \A v \in Versions(crLog) : v \in CrVersion
    BY CopiesAreVersions DEF TypeOK
  <2>2. QED
    BY <2>1 DEF CrVersion, StatusRecord
<1>2. operator.generation \in Int /\ call.status.generation \in Int
      /\ deployment.generation \in Int
  BY DEF TypeOK, CallRecord, StatusRecord, DepVersion
<1>3. QED
  BY <1>1, <1>2 DEF Recorded

\* What a step has to do to keep the invariant.
LEMMA GenerationKept ==
    ASSUME TypeOK, GenerationInv,
           used'["delete"] = 0 => used["delete"] = 0,
           \A g \in Int : Vouched(Live(depLog), g) => Vouched(Live(depLog'), g),
           \A g \in Recorded' : g \in Recorded \cup {-1} \/ Vouched(Live(depLog'), g)
    PROVE  GenerationInv'
  BY RecordedTyped DEF GenerationInv, Vouched

\* A step that touches neither object nor the worker's copies.
LEMMA RecordedUnchanged ==
    ASSUME UNCHANGED <<crLog, operator, call, deployment>>
    PROVE  Recorded' = Recorded
  BY DEF Recorded

\* A write of the CR's status adds the generation it puts there.
LEMMA RecordedAfterWrite ==
    ASSUME TypeOK, NEW v \in CrVersion, crLog' \in {crLog, Stored(crLog, v)},
           operator'.generation \in {operator.generation, -1},
           call'.status.generation \in {call.status.generation, -1},
           call'.site = "none" \/ UNCHANGED <<call, deployment>>,
           v.status.generation \in Recorded
    PROVE  \A g \in Recorded' : g \in Recorded \cup {-1}
<1>1. Versions(crLog') \subseteq Versions(crLog) \cup {v}
  BY StoredFacts DEF TypeOK
<1>2. {w.status.generation : w \in Versions(crLog')} \subseteq Recorded
  BY <1>1 DEF Recorded
<1>3. QED
  BY <1>2 DEF Recorded

LEMMA ReturnForgets ==
    ASSUME NEW failed, Return(failed)
    PROVE  operator'.generation = -1 /\ call'.status.generation = -1 /\ call'.site = "none"
  BY DEF Return, NoOperator, NoCall, EmptyStatus

LEMMA AfterForgets ==
    ASSUME NEW failed, AfterUpdateStatus(failed)
    PROVE  /\ operator'.generation \in {operator.generation, -1}
           /\ call'.status.generation = -1 /\ call'.site = "none"
<1>1. CASE call' = NoCall /\ UNCHANGED operator
  BY <1>1 DEF NoCall, EmptyStatus
<1>2. CASE Return(TRUE) \/ Return(failed)
  BY <1>2, ReturnForgets
<1>3. QED
  BY <1>1, <1>2 DEF AfterUpdateStatus

\* The new status carries the generation of the status it is computed from or, at the end
\* of sync(), that of the Deployment ApplyDeployment returned.
LEMMA ComputeRecords ==
    ASSUME TypeInv, pc \in {"readStatus", "readQuorum"},
           NEW position \in 1..Len(crLog), Compute(position), UNCHANGED crLog
    PROVE  \A g \in Recorded' : g \in Recorded \cup {-1}
<1> DEFINE v == crLog[position]
           new == Updated(call.site, v.status, deployment)
<1>1. CASE new = v.status
  <2>1. AfterUpdateStatus(FALSE)
    BY <1>1 DEF Compute
  <2>2. QED
    BY <2>1, AfterForgets DEF Recorded
<1>2. CASE new # v.status
  <2>1. /\ call' = [call EXCEPT !.previous = position, !.given = position, !.status = new]
        /\ UNCHANGED <<operator, deployment>>
    BY <1>2 DEF Compute
  <2>2. v \in CrVersion /\ v \in Versions(crLog)
    BY DEF TypeInv, TypeOK, Versions
  <2>3. v.status \in StatusRecord /\ v.status.generation \in Recorded
    BY <2>2 DEF CrVersion, Recorded
  <2>4. call.site \in Sites
    BY DEF TypeInv, CallInProgress
  <2>5. new.generation \in Recorded
    <3>1. CASE call.site = "final"
      BY <2>3, <3>1 DEF Updated, StatusRecord, Recorded
    <3>2. CASE call.site \in {"available", "missing"}
      BY <2>3, <3>2 DEF Updated, StatusRecord
    <3>3. QED
      BY <2>4, <3>1, <3>2 DEF Sites
  <2>6. call'.status.generation = new.generation /\ call'.site = call.site
    <3> HIDE DEF new
    <3>1. QED
      BY <2>1 DEF TypeInv, TypeOK, CallRecord
  <2>7. QED
    BY <2>1, <2>5, <2>6 DEF Recorded
<1>3. QED
  BY <1>1, <1>2

\* Deletions are counted and never forgotten.
LEMMA DeletionsCounted ==
    ASSUME TypeOK, [Next]_vars, used'["delete"] = 0
    PROVE  used["delete"] = 0 /\ ~DeleteDeployment
<1>1. used \in [Kinds -> Nat] /\ "delete" \in Kinds
  BY DEF TypeOK, Kinds
<1>2. \A k \in Kinds : Spend(k) => used'["delete"] >= used["delete"]
  BY <1>1 DEF Spend
<1>3. Spend("delete") => used'["delete"] > 0
  BY <1>1 DEF Spend
<1>4. used' = used \/ \E k \in Kinds : Spend(k)
  <2>a. "apiFailure" \in Kinds /\ "crash" \in Kinds /\ "edit" \in Kinds /\ "scale" \in Kinds
        /\ "delete" \in Kinds /\ "podFailure" \in Kinds /\ "dependency" \in Kinds
    BY DEF Kinds
  <2>1. CASE Worker
    BY <2>1, <2>a
    DEF Worker, UpdateStatusStep, ReadOperatorState, GetOperatorStateWithQuorum, GetForUpdate,
        PutStatus, Dequeue, CheckManagementState, CheckCertManager, GetOperator,
        ManagePrerequisites, GetDeployment, CreateDeployment, UpdateDeployment,
        WriteDeployment, ReportDegraded
  <2>2. CASE Environment
    BY <2>2, <2>a
    DEF Environment, EditSpec, ScaleDeployment, DeleteDeployment, PodsBecomeAvailable,
        PodsFail, InstallOrRemoveCertManager, Crash
  <2>3. CASE RetryAfterBackoff \/ PeriodicResync \/ CrEvent \/ DeploymentEvent \/ Restart
    BY <2>3 DEF RetryAfterBackoff, PeriodicResync, CrEvent, DeploymentEvent, Restart
  <2>4. CASE UNCHANGED vars
    BY <2>4 DEF vars
  <2>5. QED
    BY <2>1, <2>2, <2>3, <2>4 DEF Next
<1>5. used["delete"] \in Nat /\ used'["delete"] >= used["delete"]
  BY <1>1, <1>2, <1>4
<1>6. ~DeleteDeployment
  BY <1>3 DEF DeleteDeployment
<1>7. QED
  BY <1>5, <1>6

\* The Deployment as the operator writes it: its generation never goes back, and the
\* written spec is the one its hash annotation names.
LEMMA RenderedVouches ==
    ASSUME TypeOK
    PROVE  LET d == Live(depLog)
               n == Rendered(d) IN
           /\ n.exists /\ Vouched(n, n.generation)
           /\ \A g \in Int : Vouched(d, g) => Vouched(n, g)
<1> DEFINE d == Live(depLog)
           n == Rendered(d)
           q == Required(operator.config)
<1>1. d \in DepVersion
  BY CopiesAreVersions DEF TypeOK
<1>2. d.generation \in Nat
  BY <1>1 DEF DepVersion
<1>3. /\ n.exists = TRUE
      /\ n.spec = q
      /\ n.hash = operator.config
      /\ n.generation = IF ~d.exists THEN 1
                        ELSE IF d.spec # q THEN d.generation + 1 ELSE d.generation
  BY <1>1 DEF Rendered, DepVersion
<1>4. n.spec = Required(n.hash)
  BY <1>3
<1>5. n.generation \in Nat /\ (d.exists => n.generation >= d.generation)
  BY <1>2, <1>3
<1> HIDE DEF n, q
<1>6. Vouched(n, n.generation)
  BY <1>3, <1>4, <1>5 DEF Vouched
<1>7. ASSUME NEW g \in Int, Vouched(d, g)
      PROVE  Vouched(n, g)
  BY <1>2, <1>3, <1>4, <1>5, <1>7 DEF Vouched
<1> USE DEF n
<1>8. QED
  BY <1>3, <1>6, <1>7

LEMMA GenerationStep == TypeInv /\ GenerationInv /\ [Next]_vars => GenerationInv'
<1> SUFFICES ASSUME TypeInv, TypeOK, GenerationInv, [Next]_vars, used'["delete"] = 0
             PROVE  GenerationInv'
  BY DEF GenerationInv, TypeInv
<1> USE DEF api, queue, worker
<1> DEFINE Forward == \A g \in Int : Vouched(Live(depLog), g) => Vouched(Live(depLog'), g)
           Known   == \A g \in Recorded' : g \in Recorded \cup {-1} \/ Vouched(Live(depLog'), g)
<1>a. SUFFICES Forward /\ Known
  BY DeletionsCounted, GenerationKept
<1>b. used["delete"] = 0 /\ ~DeleteDeployment
  BY DeletionsCounted
<1>c. UNCHANGED depLog => Forward
  OBVIOUS
<1>d. Len(crLog) \in 1..Len(crLog) /\ 1 \in 1..Len(crLog) /\ Live(depLog) \in DepVersion
      /\ WorkerOK /\ ApiOK
  BY CopiesAreVersions, TypeInvParts DEF ApiOK, TypeInv
<1>e. UNCHANGED <<crLog, operator, call, deployment>> => Known
  BY RecordedUnchanged
<1>f. /\ \A failed : Return(failed) /\ UNCHANGED crLog => Known
      /\ \A failed : AfterUpdateStatus(failed) /\ UNCHANGED crLog => Known
  <2>1. ASSUME NEW failed, Return(failed), UNCHANGED crLog
        PROVE  Known
    BY <2>1, ReturnForgets DEF Recorded
  <2>2. ASSUME NEW failed, AfterUpdateStatus(failed), UNCHANGED crLog
        PROVE  Known
    BY <2>2, AfterForgets DEF Recorded
  <2>3. QED
    BY <2>1, <2>2
<1>1. CASE ReadOperatorState
  <2>1. UNCHANGED <<crLog, depLog>>
    BY <1>1 DEF ReadOperatorState
  <2>2. CASE Compute(1)
    BY <1>1, <2>1, <2>2, <1>c, <1>d, ComputeRecords DEF ReadOperatorState
  <2>3. CASE UNCHANGED <<call, operator, deployment>>
    BY <2>1, <2>3, <1>c, <1>e
  <2>4. QED
    BY <1>1, <2>2, <2>3 DEF ReadOperatorState
<1>2. CASE GetOperatorStateWithQuorum
  <2>1. UNCHANGED <<crLog, depLog>>
    BY <1>2 DEF GetOperatorStateWithQuorum
  <2>2. CASE Compute(Len(crLog))
    BY <1>2, <2>1, <2>2, <1>c, <1>d, ComputeRecords DEF GetOperatorStateWithQuorum
  <2>3. CASE AfterUpdateStatus(TRUE)
    BY <2>1, <2>3, <1>c, <1>f
  <2>4. QED
    BY <1>2, <2>2, <2>3 DEF GetOperatorStateWithQuorum
<1>3. CASE GetForUpdate
  <2>1. UNCHANGED <<crLog, depLog>>
    BY <1>3 DEF GetForUpdate
  <2>2. ASSUME NEW i \in 1..Len(crLog), call' = [call EXCEPT !.target = i],
               UNCHANGED <<operator, deployment>>
        PROVE  Known
    <3>1. call'.status = call.status /\ call'.site = call.site
      BY <2>2 DEF TypeOK, CallRecord
    <3>2. QED
      BY <2>1, <2>2, <3>1 DEF Recorded
  <2>3. QED
    BY <1>3, <2>1, <2>2, <1>c, <1>f DEF GetForUpdate
<1>4. CASE PutStatus
  <2> DEFINE v == [Live(crLog) EXCEPT !.status = call.status]
  <2>1. depLog' = depLog /\ crLog' \in {crLog, Stored(crLog, v)}
    BY <1>4 DEF PutStatus
  <2>2. call.status \in StatusRecord
    BY DEF TypeOK, CallRecord
  <2>3. v \in CrVersion /\ v.status = call.status
    <3>1. Live(crLog) \in CrVersion
      BY CopiesAreVersions DEF TypeOK
    <3>2. QED
      BY <3>1, <2>2 DEF CrVersion
  <2>4. v.status.generation \in Recorded
    BY <2>3 DEF Recorded
  <2>5. CASE AfterUpdateStatus(TRUE) \/ AfterUpdateStatus(FALSE)
    <3>1. /\ operator'.generation \in {operator.generation, -1}
          /\ call'.status.generation = -1 /\ call'.site = "none"
      BY <2>5, AfterForgets
    <3>2. Known
      BY <2>1, <2>3, <2>4, <3>1, RecordedAfterWrite
    <3>3. QED
      BY <2>1, <3>2, <1>c
  <2>6. CASE /\ call' = [NoCall EXCEPT !.site = call.site, !.tries = call.tries + 1,
                                       !.previous = call.previous]
             /\ UNCHANGED <<crLog, operator, deployment>>
    <3>1. call'.status.generation = -1 /\ call'.site = call.site
      BY <2>6 DEF NoCall, EmptyStatus
    <3>2. QED
      BY <2>1, <2>6, <3>1, <1>c DEF Recorded
  <2>7. QED
    BY <1>4, <2>5, <2>6 DEF PutStatus
<1>5. CASE Dequeue \/ RetryAfterBackoff \/ PeriodicResync \/ Restart \/ InstallOrRemoveCertManager
           \/ ManagePrerequisites
  BY <1>5, <1>c, <1>e, <1>f DEF Dequeue, RetryAfterBackoff, PeriodicResync, Restart,
     InstallOrRemoveCertManager, ManagePrerequisites
<1>6. ASSUME NEW site \in {"available", "missing"}, NEW d, BeginUpdateStatus(site, d),
             UNCHANGED <<crLog, operator>>
      PROVE  Known
  <2>1. call'.status.generation = -1 /\ call'.site # "final"
    BY <1>6 DEF BeginUpdateStatus, NoCall, EmptyStatus
  <2>2. QED
    BY <1>6, <2>1 DEF Recorded
<1>7. CASE CheckManagementState
  BY <1>7, <1>6, <1>c, <1>f DEF CheckManagementState
<1>8. CASE CheckCertManager
  BY <1>8, <1>6, <1>c, <1>e, <1>f DEF CheckCertManager
<1>9. CASE GetOperator
  <2>1. UNCHANGED <<crLog, depLog>>
    BY <1>9 DEF GetOperator
  <2>2. CASE /\ operator' = [config |-> Live(crLog).config,
                             generation |-> Live(crLog).status.generation]
             /\ UNCHANGED <<call, deployment>>
    <3>1. Live(crLog) \in Versions(crLog)
      BY CopiesAreVersions DEF TypeOK
    <3>2. operator'.generation \in Recorded
      BY <2>2, <3>1 DEF Recorded
    <3>3. QED
      BY <2>1, <2>2, <3>2, <1>c DEF Recorded
  <2>3. CASE Return(TRUE)
    BY <2>1, <2>3, <1>c, <1>f
  <2>4. QED
    BY <1>9, <2>2, <2>3 DEF GetOperator
<1>10. ASSUME NEW d, BeginUpdateStatus("final", d), UNCHANGED <<crLog, operator>>,
              Vouched(Live(depLog'), d.generation)
       PROVE  Known
  <2>1. call'.status.generation = -1 /\ call'.site = "final" /\ deployment' = d
    BY <1>10 DEF BeginUpdateStatus, NoCall, EmptyStatus
  <2>2. QED
    BY <1>10, <2>1 DEF Recorded
<1>11. CASE GetDeployment
  <2>1. UNCHANGED <<crLog, depLog>>
    BY <1>11 DEF GetDeployment
  <2>2. CASE UpToDate(Live(depLog)) /\ BeginUpdateStatus("final", Live(depLog))
             /\ UNCHANGED operator
    <3>1. operator.generation \in Recorded
      BY DEF Recorded
    <3>2. Vouched(Live(depLog), Live(depLog).generation)
      BY <2>2, <3>1, <1>b DEF GenerationInv, UpToDate
    <3>3. QED
      BY <2>1, <2>2, <3>2, <1>c, <1>10
  <2>3. QED
    BY <1>11, <2>1, <2>2, <1>c, <1>e, <1>f DEF GetDeployment
<1>12. ASSUME NEW accepted \in BOOLEAN, WriteDeployment(accepted)
       PROVE  Forward /\ Known
  <2> DEFINE n == Rendered(Live(depLog))
             written == Stored(depLog, n)
  <2>1. Live(written) = n
    <3>1. n \in DepVersion
      BY <1>d, ObjectsTyped
    <3>2. QED
      BY <3>1, StoredFacts DEF TypeOK
  <2>2. depLog' \in {depLog, written} /\ UNCHANGED crLog
    BY <1>12 DEF WriteDeployment
  <2>3. n.exists /\ Vouched(n, n.generation)
        /\ \A g \in Int : Vouched(Live(depLog), g) => Vouched(n, g)
    BY RenderedVouches
  <2>4. Forward
    BY <2>1, <2>2, <2>3
  <2>5. Known
    <3>1. CASE depLog' = written /\ BeginUpdateStatus("final", Live(written)) /\ UNCHANGED operator
      BY <2>1, <2>2, <2>3, <3>1, <1>10
    <3>2. CASE Return(TRUE)
      BY <2>2, <3>2, <1>f
    <3>3. QED
      BY <1>12, <3>1, <3>2 DEF WriteDeployment
  <2>6. QED
    BY <2>4, <2>5
<1>13. CASE CreateDeployment \/ UpdateDeployment
  BY <1>13, <1>12 DEF CreateDeployment, UpdateDeployment
<1>14. CASE ReportDegraded
  <2> DEFINE condition == IF syncFailed THEN "True" ELSE "False"
             v == [Live(crLog) EXCEPT !.status.syncDegraded = condition]
  <2>1. /\ depLog' = depLog /\ crLog' \in {crLog, Stored(crLog, v)}
        /\ UNCHANGED <<call, operator, deployment>>
    BY <1>14 DEF ReportDegraded, ApplyOperatorStatus, WithSyncDegraded
  <2>2. v \in CrVersion
    BY <1>d, ObjectsTyped DEF Condition
  <2>3. Live(crLog) \in CrVersion /\ Live(crLog) \in Versions(crLog)
    BY CopiesAreVersions DEF TypeOK
  <2>4. v.status.generation = Live(crLog).status.generation
    BY <2>3 DEF CrVersion, StatusRecord
  <2>5. v.status.generation \in Recorded
    BY <2>3, <2>4 DEF Recorded
  <2>6. Known
    BY <2>1, <2>2, <2>5, RecordedAfterWrite
  <2>7. QED
    BY <2>1, <2>6, <1>c
<1>15. CASE CrEvent
  <2>1. /\ depLog' = depLog /\ UNCHANGED <<operator, deployment>>
        /\ crLog' = Tail(crLog) /\ Len(crLog) > 1
        /\ call' = [call EXCEPT !.previous = Moved(call.previous),
                                !.given = Moved(call.given), !.target = Moved(call.target)]
    BY <1>15 DEF CrEvent
  <2>2. call'.status = call.status /\ call'.site = call.site
    BY <2>1 DEF TypeOK, CallRecord
  <2>3. Versions(crLog') \subseteq Versions(crLog)
    BY <2>1, TailFacts DEF TypeOK
  <2>4. QED
    BY <2>1, <2>2, <2>3, <1>c DEF Recorded
<1>16. CASE DeploymentEvent
  <2>1. Live(depLog') = Live(depLog)
    BY <1>16, TailFacts DEF DeploymentEvent, TypeOK
  <2>2. QED
    BY <1>16, <2>1, <1>e DEF DeploymentEvent
<1>17. CASE Crash
  <2>1. /\ UNCHANGED <<crLog, depLog>>
        /\ operator'.generation = -1 /\ call'.status.generation = -1 /\ call'.site = "none"
    BY <1>17 DEF Crash, NoOperator, NoCall, EmptyStatus
  <2>2. QED
    BY <2>1, <1>c DEF Recorded
<1>18. CASE EditSpec
  <2>1. /\ UNCHANGED <<depLog, call, operator, deployment>>
        /\ \E m \in ManagementStates, c \in Configs :
              crLog' = Stored(crLog, [Live(crLog) EXCEPT !.management = m, !.config = c])
    BY <1>18 DEF EditSpec
  <2>2. PICK m \in ManagementStates, c \in Configs :
          crLog' = Stored(crLog, [Live(crLog) EXCEPT !.management = m, !.config = c])
    BY <2>1
  <2> DEFINE v == [Live(crLog) EXCEPT !.management = m, !.config = c]
  <2>3. Live(crLog) \in CrVersion /\ Live(crLog) \in Versions(crLog)
    BY CopiesAreVersions DEF TypeOK
  <2>4. v \in CrVersion /\ v.status = Live(crLog).status
    BY <2>3 DEF CrVersion
  <2>5. v.status.generation \in Recorded
    BY <2>3, <2>4 DEF Recorded
  <2>6. Known
    BY <2>1, <2>2, <2>4, <2>5, RecordedAfterWrite
  <2>7. QED
    BY <2>1, <2>6, <1>c
<1>19. ASSUME NEW d \in DepVersion, depLog' = Stored(depLog, d),
              UNCHANGED <<crLog, operator, call, deployment>>,
              \A g \in Int : Vouched(Live(depLog), g) => Vouched(d, g)
       PROVE  Forward /\ Known
  <2>1. Live(depLog') = d
    BY <1>19, StoredFacts DEF TypeOK
  <2>2. QED
    BY <1>19, <2>1, <1>e
<1>20. CASE ScaleDeployment
  <2>1. PICK r \in ScaleTargets :
          depLog' = Stored(depLog, [Live(depLog) EXCEPT !.spec.replicas = r, !.generation = @ + 1])
    BY <1>20 DEF ScaleDeployment
  <2> DEFINE d == Live(depLog)
             n == [d EXCEPT !.spec.replicas = r, !.generation = @ + 1]
  <2>2. n \in DepVersion
    <3>1. r \in Nat
      OBVIOUS
    <3>2. QED
      BY <3>1, <1>d, ObjectsTyped
  <2>3. d.generation \in Nat /\ n.generation = d.generation + 1 /\ n.exists = d.exists
    BY <1>d DEF DepVersion
  <2>4. \A g \in Int : Vouched(d, g) => Vouched(n, g)
    BY <2>3 DEF Vouched
  <2>5. QED
    BY <1>20, <1>19, <2>1, <2>2, <2>4 DEF ScaleDeployment
<1>21. ASSUME NEW a \in Nat, depLog' = Stored(depLog, [Live(depLog) EXCEPT !.available = a]),
              UNCHANGED <<crLog, operator, call, deployment>>
       PROVE  Forward /\ Known
  <2> DEFINE d == Live(depLog)
             n == [d EXCEPT !.available = a]
  <2>1. n \in DepVersion
    BY <1>d, ObjectsTyped
  <2>2. /\ n.generation = d.generation /\ n.exists = d.exists
        /\ n.spec = d.spec /\ n.hash = d.hash
    BY <1>d DEF DepVersion
  <2>3. \A g \in Int : Vouched(d, g) => Vouched(n, g)
    BY <2>2 DEF Vouched
  <2>4. QED
    BY <1>19, <1>21, <2>1, <2>3
<1>22. CASE PodsBecomeAvailable
  <2>1. Live(depLog).spec.replicas \in Nat
    BY <1>d DEF DepVersion, DeploymentSpec
  <2>2. QED
    BY <1>22, <1>21, <2>1 DEF PodsBecomeAvailable
<1>23. CASE PodsFail
  BY <1>23, <1>21 DEF PodsFail
<1>24. CASE UNCHANGED vars
  BY <1>24, <1>c, <1>e DEF vars
<1>25. QED
  BY <1>b, <1>1, <1>2, <1>3, <1>4, <1>5, <1>7, <1>8, <1>9, <1>11, <1>13, <1>14, <1>15, <1>16,
     <1>17, <1>18, <1>20, <1>22, <1>23, <1>24
  DEF Next, Worker, UpdateStatusStep, Environment

LEMMA GenerationInit == Init => GenerationInv
<1> SUFFICES ASSUME Init PROVE \A g \in Recorded : g = -1
  BY DEF GenerationInv, Vouched
<1>1. PICK c \in Configs :
        crLog = <<[management |-> "Managed", config |-> c, status |-> EmptyStatus]>>
  BY DEF Init
<1>2. \A v \in Versions(crLog) : v.status.generation = -1
  BY <1>1 DEF Versions, EmptyStatus
<1>3. operator.generation = -1 /\ call.status.generation = -1 /\ call.site = "none"
  BY DEF Init, NoOperator, NoCall, EmptyStatus
<1>4. QED
  BY <1>2, <1>3 DEF Recorded

LEMMA GenerationAlways == Spec => [](TypeInv /\ GenerationInv)
<1>1. TypeInv /\ GenerationInv /\ [Next]_vars => (TypeInv /\ GenerationInv)'
  BY TypeStep, GenerationStep
<1>2. QED
  BY <1>1, TypeInit, GenerationInit, PTL DEF Spec

\* A recorded generation that is the Deployment's own vouches for its spec: what drift
\* detection by generation relies on.
THEOREM GenerationIsSound == Spec => []GenerationSound
<1>1. TypeInv /\ GenerationInv => GenerationSound
  <2> SUFFICES ASSUME TypeOK, GenerationInv, used["delete"] = 0,
                      NEW v \in Versions(crLog),
                      v.status.generation = Live(depLog).generation
               PROVE  Live(depLog).spec = Required(Live(depLog).hash)
    BY DEF GenerationSound, TypeInv
  <2>1. Live(depLog) \in DepVersion
    BY CopiesAreVersions DEF TypeOK
  <2>2. Live(depLog).generation \in Nat
    BY <2>1 DEF DepVersion
  <2>3. v.status.generation \in Recorded
    BY DEF Recorded
  <2>4. QED
    BY <2>2, <2>3 DEF GenerationInv, Vouched
<1>2. QED
  BY <1>1, GenerationAlways, PTL

\* sync() keeps the Deployment as it is only when it is the one the CR asks for.
THEOREM KeptIsRequired == Spec => KeptDeploymentIsRequired
<1>1. TypeInv /\ GenerationInv /\ [Next]_vars
        => [KeepsDeployment /\ used["delete"] = 0
              => Live(depLog).spec = Required(operator.config)]_vars
  <2> SUFFICES ASSUME TypeInv, TypeOK, GenerationInv, [Next]_vars, KeepsDeployment,
                      used["delete"] = 0
               PROVE  Live(depLog).spec = Required(operator.config)
    BY DEF TypeInv
  <2>1. UpToDate(Live(depLog))
    BY DEF KeepsDeployment, Next, Worker, UpdateStatusStep, Environment, ReadOperatorState,
       GetOperatorStateWithQuorum, GetForUpdate, PutStatus, Dequeue, CheckManagementState,
       CheckCertManager, GetOperator, ManagePrerequisites, GetDeployment, CreateDeployment,
       UpdateDeployment, WriteDeployment, ReportDegraded, RetryAfterBackoff, PeriodicResync,
       CrEvent, DeploymentEvent, Crash, Restart, EditSpec, ScaleDeployment, DeleteDeployment,
       PodsBecomeAvailable, PodsFail, InstallOrRemoveCertManager, worker, vars, Return
  <2>2. Live(depLog).generation \in Nat
    <3>1. Live(depLog) \in DepVersion
      BY CopiesAreVersions DEF TypeOK
    <3>2. QED
      BY <3>1 DEF DepVersion
  <2>3. operator.generation \in Recorded
    BY DEF Recorded
  <2>4. QED
    BY <2>1, <2>2, <2>3 DEF GenerationInv, Vouched, UpToDate
<1>2. QED
  BY <1>1, GenerationAlways, PTL DEF Spec, KeptDeploymentIsRequired

-----------------------------------------------------------------------------
(* At most one write after the lister shows the CR unmanaged                *)

\* A sync that has made its late write only finishes: it reports the final status.
Finishing ==
    \/ pc \in {"idle", "down", "start", "report"}
    \/ call.site = "final" /\ pc \in {"readStatus", "readQuorum", "getForUpdate", "putStatus"}

LateInv ==
    /\ lateWrites \in {0, 1}
    /\ IsManaged(Cached(crLog)) => lateWrites = 0
    /\ lateWrites = 1 => Finishing

LEMMA FinishingAfter ==
    ASSUME NEW failed, Finishing, pc \notin {"idle", "down", "start", "report"},
           AfterUpdateStatus(failed) \/ Return(failed)
    PROVE  Finishing'
BY DEF Finishing, AfterUpdateStatus, Return

LEMMA FinishingCompute ==
    ASSUME TypeOK, NEW i, Finishing, pc \notin {"idle", "down", "start", "report"}, Compute(i)
    PROVE  Finishing'
<1> DEFINE v == crLog[i]
           new == Updated(call.site, v.status, deployment)
<1>1. CASE AfterUpdateStatus(FALSE)
  BY <1>1, FinishingAfter
<1>2. CASE /\ pc' = "getForUpdate"
           /\ call' = [call EXCEPT !.previous = i, !.given = i, !.status = new]
  <2>1. call'.site = call.site
    BY <1>2 DEF TypeOK, CallRecord
  <2>2. QED
    BY <1>2, <2>1 DEF Finishing
<1>3. QED
  BY <1>1, <1>2 DEF Compute

LEMMA LateStep == TypeInv /\ LateInv /\ [Next]_vars => LateInv'
<1> SUFFICES ASSUME TypeInv, TypeOK, LateInv, [Next]_vars
             PROVE  LateInv'
  BY DEF TypeInv
<1> USE DEF api, queue, worker
<1> DEFINE Same == UNCHANGED lateWrites /\ Cached(crLog') = Cached(crLog)
<1>a. ASSUME Same, Finishing => Finishing'
      PROVE  LateInv'
  BY <1>a DEF LateInv, IsManaged
<1>b. \A v \in CrVersion : Cached(Stored(crLog, v)) = Cached(crLog)
  BY StoredFacts DEF TypeOK
<1>c. Live(crLog) \in CrVersion
  BY CopiesAreVersions DEF TypeOK
<1>1. CASE ReadOperatorState
  <2>1. Same
    BY <1>1 DEF ReadOperatorState
  <2>2. Finishing => Finishing'
    BY <1>1, FinishingCompute DEF ReadOperatorState, Finishing
  <2>3. QED
    BY <2>1, <2>2, <1>a
<1>2. CASE GetOperatorStateWithQuorum
  <2>1. Same
    BY <1>2 DEF GetOperatorStateWithQuorum
  <2>2. Finishing => Finishing'
    BY <1>2, FinishingCompute, FinishingAfter DEF GetOperatorStateWithQuorum
  <2>3. QED
    BY <2>1, <2>2, <1>a
<1>3. CASE GetForUpdate
  <2>1. Same
    BY <1>3 DEF GetForUpdate
  <2>2. ASSUME Finishing, NEW i, call' = [call EXCEPT !.target = i], pc' = "putStatus"
        PROVE  Finishing'
    <3>1. call'.site = call.site
      BY <2>2 DEF TypeOK, CallRecord
    <3>2. QED
      BY <1>3, <2>2, <3>1 DEF Finishing, GetForUpdate
  <2>3. Finishing => Finishing'
    BY <1>3, <2>2, FinishingAfter DEF GetForUpdate
  <2>4. QED
    BY <2>1, <2>3, <1>a
<1>4. CASE PutStatus
  <2> DEFINE v == [Live(crLog) EXCEPT !.status = call.status]
  <2>1. v \in CrVersion
    <3>1. call.status \in StatusRecord
      BY DEF TypeOK, CallRecord
    <3>2. QED
      BY <3>1, <1>c DEF CrVersion
  <2>2. UNCHANGED lateWrites /\ crLog' \in {crLog, Stored(crLog, v)}
    BY <1>4 DEF PutStatus
  <2>3. Same
    BY <2>1, <2>2, <1>b
  <2>4. ASSUME Finishing, pc' = "readStatus",
               call' = [NoCall EXCEPT !.site = call.site, !.tries = call.tries + 1,
                                      !.previous = call.previous]
        PROVE  Finishing'
    <3>1. call'.site = call.site
      BY <2>4 DEF NoCall
    <3>2. QED
      BY <1>4, <2>4, <3>1 DEF Finishing, PutStatus
  <2>5. Finishing => Finishing'
    BY <1>4, <2>4, FinishingAfter DEF PutStatus
  <2>6. QED
    BY <2>3, <2>5, <1>a
<1>5. CASE Dequeue
  BY <1>5, <1>a DEF Dequeue, Finishing
<1>6. CASE CheckManagementState
  <2>1. Same
    BY <1>6 DEF CheckManagementState
  <2>2. CASE IsManaged(Cached(crLog))
    <3>1. lateWrites' = 0
      BY <2>1, <2>2 DEF LateInv
    <3>2. QED
      BY <3>1 DEF LateInv
  <2>3. CASE Return(FALSE)
    BY <2>1, <2>3, <1>a DEF Return, Finishing
  <2>4. QED
    BY <1>6, <2>2, <2>3 DEF CheckManagementState
<1>7. CASE CheckCertManager
  BY <1>7, <1>a DEF CheckCertManager, Finishing
<1>8. CASE GetOperator
  BY <1>8, <1>a DEF GetOperator, Finishing
<1>9. CASE ManagePrerequisites
  BY <1>9, <1>a DEF ManagePrerequisites, Finishing
<1>10. CASE GetDeployment
  BY <1>10, <1>a DEF GetDeployment, Finishing
<1>11. CASE CreateDeployment \/ UpdateDeployment
  <2>1. PICK accepted : WriteDeployment(accepted)
    BY <1>11 DEF CreateDeployment, UpdateDeployment
  <2>2. lateWrites = 0
    BY <1>11 DEF LateInv, Finishing, CreateDeployment, UpdateDeployment
  <2>3. UNCHANGED crLog
    BY <2>1 DEF WriteDeployment
  <2>4. lateWrites' \in {0, 1} /\ (IsManaged(Cached(crLog)) => lateWrites' = 0)
    BY <2>1, <2>2 DEF WriteDeployment
  <2>5. Finishing'
    BY <2>1 DEF WriteDeployment, BeginUpdateStatus, Return, Finishing, NoCall
  <2>6. IsManaged(Cached(crLog))' => lateWrites' = 0
    BY <2>3, <2>4 DEF IsManaged
  <2>7. QED
    BY <2>4, <2>5, <2>6 DEF LateInv
<1>12. CASE ReportDegraded
  <2> DEFINE v == [Live(crLog) EXCEPT !.status.syncDegraded =
                                         IF syncFailed THEN "True" ELSE "False"]
  <2>1. v \in CrVersion
    <3>1. ApiOK /\ WorkerOK
      BY TypeInvParts
    <3>2. QED
      BY <3>1, <1>c, ObjectsTyped DEF Condition
  <2>2. UNCHANGED lateWrites /\ crLog' \in {crLog, Stored(crLog, v)} /\ pc' = "idle"
    BY <1>12 DEF ReportDegraded, ApplyOperatorStatus, WithSyncDegraded
  <2>3. Same
    BY <2>1, <2>2, <1>b
  <2>4. QED
    BY <2>2, <2>3, <1>a DEF Finishing
<1>13. CASE CrEvent
  <2>1. /\ lateWrites' = IF IsManaged(Cached(crLog')) THEN 0 ELSE lateWrites
        /\ pc' = pc
        /\ call' = [call EXCEPT !.previous = Moved(call.previous),
                                !.given = Moved(call.given), !.target = Moved(call.target)]
    BY <1>13 DEF CrEvent
  <2>2. call'.site = call.site
    BY <2>1 DEF TypeOK, CallRecord
  <2>3. QED
    BY <2>1, <2>2 DEF LateInv, Finishing, IsManaged
<1>14. CASE Crash
  BY <1>14, <1>a DEF Crash, Finishing
<1>15. CASE Restart
  BY <1>15, <1>a DEF Restart, Finishing
<1>16. CASE EditSpec
  <2>1. PICK m \in ManagementStates, c \in Configs :
          crLog' = Stored(crLog, [Live(crLog) EXCEPT !.management = m, !.config = c])
    BY <1>16 DEF EditSpec
  <2>2. [Live(crLog) EXCEPT !.management = m, !.config = c] \in CrVersion
    BY <1>c DEF CrVersion
  <2>3. Same
    BY <1>16, <2>1, <2>2, <1>b DEF EditSpec
  <2>4. QED
    BY <1>16, <2>3, <1>a DEF EditSpec, Finishing
<1>17. CASE UNCHANGED <<crLog, pc, call, lateWrites>>
  BY <1>17, <1>a DEF Finishing
<1>18. ASSUME \/ RetryAfterBackoff \/ PeriodicResync \/ DeploymentEvent
              \/ ScaleDeployment \/ DeleteDeployment \/ PodsBecomeAvailable \/ PodsFail
              \/ InstallOrRemoveCertManager \/ UNCHANGED vars
       PROVE  UNCHANGED <<crLog, pc, call, lateWrites>>
  BY <1>18 DEF RetryAfterBackoff, PeriodicResync, DeploymentEvent, ScaleDeployment,
     DeleteDeployment, PodsBecomeAvailable, PodsFail, InstallOrRemoveCertManager, vars
<1>19. QED
  BY <1>1, <1>2, <1>3, <1>4, <1>5, <1>6, <1>7, <1>8, <1>9, <1>10, <1>11, <1>12, <1>13, <1>14,
     <1>15, <1>16, <1>17, <1>18
  DEF Next, Worker, UpdateStatusStep, Environment

\* Once the lister shows the CR in another state than Managed, only the sync already
\* under way may still write the Deployment.
THEOREM LateWriteOnce == Spec => []AtMostOneLateWrite
<1>1. Init => LateInv
  BY DEF Init, LateInv, Finishing
<1>2. TypeInv /\ LateInv /\ [Next]_vars => (TypeInv /\ LateInv)'
  BY TypeStep, LateStep
<1>3. LateInv => AtMostOneLateWrite
  BY DEF LateInv, AtMostOneLateWrite
<1>4. QED
  BY <1>1, <1>2, <1>3, TypeInit, PTL DEF Spec

=============================================================================
