---------------------------- MODULE SettledProofs ----------------------------
(***************************************************************************)
(* Proofs that TargetConfigController never settles on the wrong state: a  *)
(* controller with nothing left to do has reported its last sync's success *)
(* and left a Deployment and a status that are right.  And that it does    *)
(* not run in circles: what is right it leaves alone.                      *)
(***************************************************************************)
EXTENDS TargetConfigControllerProofs

-----------------------------------------------------------------------------
(* Success is reported                                                      *)

\* The worker goes idle with the key neither queued nor in backoff only after a sync that
\* it reported as good, and an edit of the CR keeps the report.
ReportInv ==
    pc = "idle" /\ ~queued /\ ~retry => Live(crLog).status.syncDegraded = "False"

\* The worker goes idle only by reporting, or by being started.
LEMMA IdleMeans ==
    ASSUME [Next]_vars, pc' = "idle"
    PROVE  \/ pc = "idle" /\ ~Dequeue
           \/ ReportDegraded
           \/ Restart
  BY DEF Next, Worker, UpdateStatusStep, Environment, ReadOperatorState, Compute,
         AfterUpdateStatus, Return, BeginUpdateStatus, GetOperatorStateWithQuorum,
         GetForUpdate, PutStatus, Dequeue, CheckManagementState, CheckCertManager,
         GetOperator, ManagePrerequisites, GetDeployment, CreateDeployment,
         UpdateDeployment, WriteDeployment, Crash, RetryAfterBackoff, PeriodicResync,
         CrEvent, DeploymentEvent, EditSpec, ScaleDeployment, DeleteDeployment,
         PodsBecomeAvailable, PodsFail, InstallOrRemoveCertManager, worker, vars

LEMMA ReportStep ==
    ASSUME TypeInv, ReportInv, [Next]_vars
    PROVE  ReportInv'
<1> SUFFICES ASSUME pc' = "idle", ~queued', ~retry', ApiOK, WorkerOK
             PROVE  Live(crLog').status.syncDegraded = "False"
  BY TypeInvParts DEF ReportInv
<1>d. Live(crLog) \in CrVersion
  BY CopiesAreVersions DEF ApiOK
<1>1. CASE ReportDegraded
  <2>1. ~syncFailed /\ crLog' = ApplyOperatorStatus("False")
    BY <1>1 DEF ReportDegraded
  <2> DEFINE reported == [Live(crLog) EXCEPT !.status.syncDegraded = "False"]
  <2>2. reported \in CrVersion
    BY ObjectsTyped DEF Condition
  <2>3. Live(crLog') = reported
    BY <2>1, <2>2, StoredFacts DEF ApiOK, ApplyOperatorStatus, WithSyncDegraded
  <2>4. reported.status.syncDegraded = "False"
    BY <1>d DEF CrVersion, StatusRecord
  <2>5. QED
    BY <2>3, <2>4
<1>2. CASE EditSpec /\ pc = "idle"
  <2>1. PICK m \in ManagementStates, c \in Configs :
           crLog' = Stored(crLog, [Live(crLog) EXCEPT !.management = m, !.config = c])
    BY <1>2 DEF EditSpec
  <2> DEFINE edited == [Live(crLog) EXCEPT !.management = m, !.config = c]
  <2>2. edited \in CrVersion /\ edited.status = Live(crLog).status
    BY <1>d, ObjectsTyped DEF CrVersion
  <2> HIDE DEF edited
  <2>3. Live(Stored(crLog, edited)) = edited
    BY <2>2, StoredFacts DEF ApiOK
  <2>4. Live(crLog') = edited
    BY <2>1, <2>3 DEF edited
  <2>5. UNCHANGED <<queued, retry>>
    BY <1>2 DEF EditSpec, queue
  <2>6. QED
    BY <1>2, <2>2, <2>4, <2>5 DEF ReportInv
<1>3. CASE Restart
  BY <1>3 DEF Restart
<1>4. ASSUME pc = "idle", UNCHANGED <<crLog, queued, retry>>
      PROVE  Live(crLog').status.syncDegraded = "False"
  BY <1>4 DEF ReportInv
<1>5. CASE pc = "idle" /\ ~Dequeue /\ ~EditSpec
  BY <1>4, <1>5
  DEF Next, Worker, UpdateStatusStep, Environment, ReadOperatorState,
      GetOperatorStateWithQuorum, GetForUpdate, PutStatus, CheckManagementState,
      CheckCertManager, GetOperator, ManagePrerequisites, GetDeployment, CreateDeployment,
      UpdateDeployment, ReportDegraded, Crash, Restart, RetryAfterBackoff, PeriodicResync,
      CrEvent, DeploymentEvent, ScaleDeployment, DeleteDeployment, PodsBecomeAvailable,
      PodsFail, InstallOrRemoveCertManager, worker, queue, api, vars
<1>6. QED
  BY <1>1, <1>2, <1>3, <1>5, IdleMeans

\* A controller with nothing left to do has reported success, whatever its own status
\* updates wrote over from a stale lister.
THEOREM NoFailureForgotten == Spec => []SettledReportsSuccess
<1>1. Init => ReportInv
  BY DEF Init, ReportInv
<1>2. ReportInv => SettledReportsSuccess
  BY DEF ReportInv, SettledReportsSuccess, Settled
<1>3. TypeInv /\ ReportInv /\ [Next]_vars => TypeInv' /\ ReportInv'
  BY TypeStep, ReportStep
<1>4. QED
  BY <1>1, <1>2, <1>3, TypeInit, PTL DEF Spec

-----------------------------------------------------------------------------
(* While nothing moves                                                      *)

\* A log that is still of length one after a write has stored nothing ...
LEMMA StoredShort ==
    ASSUME NEW S, NEW log \in Seq(S), Len(log) > 0, NEW v, Len(Stored(log, v)) = 1
    PROVE  Stored(log, v) = log
<1>1. CASE v # Live(log)
  <2>1. Len(Append(log, v)) = Len(log) + 1
    OBVIOUS
  <2>2. QED
    BY <1>1, <2>1 DEF Stored
<1>2. QED
  BY <1>1 DEF Stored

\* ... because what was written was there already.
LEMMA NothingStored ==
    ASSUME NEW S, NEW log \in Seq(S), NEW v, Stored(log, v) = log
    PROVE  v = Live(log)
<1>1. Len(Append(log, v)) # Len(log)
  OBVIOUS
<1>2. QED
  BY <1>1 DEF Stored

LEMMA CrLogMoves ==
    ASSUME [Next]_vars
    PROVE  crLog' = crLog \/ queued' \/ \E v : crLog' = Stored(crLog, v)
<1>1. CASE PutStatus
  BY <1>1 DEF PutStatus
<1>2. CASE ReportDegraded
  BY <1>2 DEF ReportDegraded, ApplyOperatorStatus, WithSyncDegraded
<1>3. CASE EditSpec
  BY <1>3 DEF EditSpec
<1>4. CASE CrEvent
  BY <1>4 DEF CrEvent
<1>5. QED
  BY <1>1, <1>2, <1>3, <1>4
  DEF Next, Worker, UpdateStatusStep, Environment, ReadOperatorState,
      GetOperatorStateWithQuorum, GetForUpdate, Dequeue, CheckManagementState,
      CheckCertManager, GetOperator, ManagePrerequisites, GetDeployment, CreateDeployment,
      UpdateDeployment, WriteDeployment, Crash, Restart, RetryAfterBackoff, PeriodicResync,
      DeploymentEvent, ScaleDeployment, DeleteDeployment, PodsBecomeAvailable,
      PodsFail, InstallOrRemoveCertManager, worker, queue, api, vars

LEMMA DepLogMoves ==
    ASSUME [Next]_vars
    PROVE  depLog' = depLog \/ queued' \/ \E v : depLog' = Stored(depLog, v)
<1>1. CASE CreateDeployment \/ UpdateDeployment
  BY <1>1 DEF CreateDeployment, UpdateDeployment, WriteDeployment
<1>2. CASE ScaleDeployment
  BY <1>2 DEF ScaleDeployment
<1>3. CASE DeleteDeployment
  BY <1>3 DEF DeleteDeployment
<1>4. CASE PodsBecomeAvailable \/ PodsFail
  BY <1>4 DEF PodsBecomeAvailable, PodsFail
<1>5. CASE DeploymentEvent
  BY <1>5 DEF DeploymentEvent
<1>6. QED
  BY <1>1, <1>2, <1>3, <1>4, <1>5
  DEF Next, Worker, UpdateStatusStep, Environment, ReadOperatorState,
      GetOperatorStateWithQuorum, GetForUpdate, PutStatus, Dequeue, CheckManagementState,
      CheckCertManager, GetOperator, ManagePrerequisites, GetDeployment, ReportDegraded,
      Crash, Restart, RetryAfterBackoff, PeriodicResync, CrEvent, EditSpec,
      InstallOrRemoveCertManager, worker, queue, api, vars

LEMMA QueueMoves ==
    ASSUME [Next]_vars, ~queued'
    PROVE  (~queued /\ (~retry' => ~retry)) \/ Dequeue \/ Crash
  BY DEF Next, Worker, UpdateStatusStep, Environment, ReadOperatorState,
         GetOperatorStateWithQuorum, GetForUpdate, PutStatus, CheckManagementState,
         CheckCertManager, GetOperator, ManagePrerequisites, GetDeployment,
         CreateDeployment, UpdateDeployment, WriteDeployment, ReportDegraded,
         Restart, RetryAfterBackoff, PeriodicResync, CrEvent, DeploymentEvent,
         EditSpec, ScaleDeployment, DeleteDeployment, PodsBecomeAvailable, PodsFail,
         InstallOrRemoveCertManager, worker, queue, api, vars

\* A step that ends unmoved began so and left both objects alone, but for the dequeue and
\* the crash.
LEMMA UnmovedStep ==
    ASSUME TypeInv, [Next]_vars, Unmoved'
    PROVE  (Unmoved /\ UNCHANGED <<crLog, depLog>>) \/ Dequeue \/ Crash
<1>1. ~queued \/ Dequeue \/ Crash
  BY QueueMoves DEF Unmoved
<1>2. crLog' = crLog
  <2>1. crLog' = crLog \/ \E v : crLog' = Stored(crLog, v)
    BY CrLogMoves DEF Unmoved
  <2>2. QED
    BY <2>1, StoredShort DEF Unmoved, TypeInv, TypeOK
<1>3. depLog' = depLog
  <2>1. depLog' = depLog \/ \E v : depLog' = Stored(depLog, v)
    BY DepLogMoves DEF Unmoved
  <2>2. QED
    BY <2>1, StoredShort DEF Unmoved, TypeInv, TypeOK
<1>4. QED
  BY <1>1, <1>2, <1>3 DEF Unmoved

LEMMA OnlyVersion ==
    ASSUME ApiOK, Unmoved
    PROVE  /\ Cached(crLog) = Live(crLog) /\ crLog[1] = Live(crLog)
           /\ Cached(depLog) = Live(depLog)
  BY DEF Unmoved, ApiOK, Cached, Live

UpdateSteps == {"readStatus", "readQuorum", "getForUpdate", "putStatus"}

\* While nothing moves, what the worker holds is what is there: the CR it fetched, the
\* Deployment its update function looks at and the status it is about to put.
CopiesInv ==
    Unmoved =>
        /\ pc \in Rendering =>
              /\ operator.config = Live(crLog).config
              /\ operator.generation = Live(crLog).status.generation
        /\ pc \in UpdateSteps /\ call.site # "missing" => deployment = Live(depLog)
        /\ pc \in {"getForUpdate", "putStatus"} =>
              call.status = Updated(call.site, Live(crLog).status, Live(depLog))

LEMMA NothingHeld ==
    ASSUME pc' \notin Rendering, pc' \notin UpdateSteps
    PROVE  CopiesInv'
  BY DEF CopiesInv, UpdateSteps

LEMMA AfterHeld ==
    ASSUME NEW failed, AfterUpdateStatus(failed)
    PROVE  pc' \in {"discover", "report"}
  BY DEF AfterUpdateStatus, Return

LEMMA ComputeHeld ==
    ASSUME ApiOK, WorkerOK, Unmoved, CopiesInv, pc \in UpdateSteps, Compute(1),
           UNCHANGED <<crLog, depLog>>
    PROVE  CopiesInv'
<1> DEFINE new == Updated(call.site, crLog[1].status, deployment)
<1>1. crLog[1] = Live(crLog)
  BY OnlyVersion
<1>2. CASE new = crLog[1].status
  <2>1. pc' \in {"discover", "report"}
    BY <1>2, AfterHeld DEF Compute
  <2>2. QED
    BY <2>1, NothingHeld DEF Rendering, UpdateSteps
<1>3. CASE new # crLog[1].status
  <2>1. /\ pc' = "getForUpdate"
        /\ call' = [call EXCEPT !.previous = 1, !.given = 1, !.status = new]
        /\ deployment' = deployment
    BY <1>3 DEF Compute
  <2>2. call'.site = call.site /\ call'.status = new
    <3> HIDE DEF new
    <3>1. QED
      BY <2>1 DEF WorkerOK, CallRecord
  <2>3. call.site # "missing" => deployment = Live(depLog)
    BY DEF CopiesInv
  <2>4. new = Updated(call.site, Live(crLog).status, Live(depLog))
    <3>1. CASE call.site = "missing"
      BY <1>1, <3>1 DEF Updated
    <3>2. QED
      BY <1>1, <2>3, <3>1
  <2>5. QED
    BY <2>1, <2>2, <2>3, <2>4 DEF CopiesInv, Rendering
<1>4. QED
  BY <1>2, <1>3

LEMMA HeldUnchanged ==
    ASSUME CopiesInv, Unmoved,
           UNCHANGED <<crLog, depLog, pc, call, operator, deployment>>
    PROVE  CopiesInv'
  BY DEF CopiesInv, Unmoved

LEMMA CopiesStep ==
    ASSUME TypeInv, CopiesInv, [Next]_vars
    PROVE  CopiesInv'
<1> SUFFICES ASSUME Unmoved', ApiOK, WorkerOK
             PROVE  CopiesInv'
  BY TypeInvParts DEF CopiesInv
<1> USE DEF api, queue, worker
<1>1. CASE Dequeue \/ Crash
  BY <1>1, NothingHeld DEF Dequeue, Crash, Rendering, UpdateSteps
<1> SUFFICES ASSUME Unmoved, UNCHANGED <<crLog, depLog>> PROVE CopiesInv'
  BY <1>1, UnmovedStep
<1>f. ASSUME NEW failed, AfterUpdateStatus(failed) PROVE CopiesInv'
  BY <1>f, AfterHeld, NothingHeld DEF Rendering, UpdateSteps
<1>r. ASSUME NEW failed, Return(failed) PROVE CopiesInv'
  BY <1>r, NothingHeld DEF Return, Rendering, UpdateSteps
<1>b. ASSUME NEW site \in Sites, NEW d, BeginUpdateStatus(site, d),
             site # "missing" => d = Live(depLog)
      PROVE  CopiesInv'
  <2>1. pc' = "readStatus" /\ call'.site = site /\ deployment' = d
    BY <1>b DEF BeginUpdateStatus, NoCall
  <2>2. QED
    BY <1>b, <2>1 DEF CopiesInv, Rendering
<1>2. CASE ReadOperatorState
  <2>1. CASE Compute(1)
    BY <1>2, <2>1, ComputeHeld DEF ReadOperatorState, UpdateSteps
  <2>2. CASE pc' = "readQuorum" /\ UNCHANGED <<call, operator, deployment>>
    BY <1>2, <2>2 DEF ReadOperatorState, CopiesInv, Rendering, UpdateSteps
  <2>3. QED
    BY <1>2, <2>1, <2>2 DEF ReadOperatorState
<1>3. CASE GetOperatorStateWithQuorum
  BY <1>3, <1>f, ComputeHeld DEF GetOperatorStateWithQuorum, UpdateSteps, Unmoved
<1>4. CASE GetForUpdate
  <2>1. CASE \E i \in 1..Len(crLog) :
                /\ call' = [call EXCEPT !.target = i]
                /\ pc' = "putStatus"
                /\ UNCHANGED <<operator, deployment>>
    <3>1. call'.site = call.site /\ call'.status = call.status
      BY <2>1 DEF WorkerOK, CallRecord
    <3>2. QED
      BY <1>4, <2>1, <3>1 DEF GetForUpdate, CopiesInv, Rendering, UpdateSteps
  <2>2. QED
    BY <1>4, <1>f, <2>1 DEF GetForUpdate
<1>5. CASE PutStatus
  <2>1. CASE /\ call' = [NoCall EXCEPT !.site = call.site, !.tries = call.tries + 1,
                                       !.previous = call.previous]
             /\ pc' = "readStatus"
             /\ UNCHANGED <<operator, deployment>>
    <3>1. call'.site = call.site /\ pc = "putStatus"
      BY <1>5, <2>1 DEF NoCall, PutStatus
    <3>2. QED
      BY <2>1, <3>1 DEF CopiesInv, Rendering, UpdateSteps
  <2>2. QED
    BY <1>5, <1>f, <2>1 DEF PutStatus
<1>6. CASE CheckManagementState
  BY <1>6, <1>b, <1>r, OnlyVersion DEF CheckManagementState, Sites
<1>7. CASE CheckCertManager
  <2>1. CASE pc' = "getOperator"
    BY <2>1, NothingHeld DEF Rendering, UpdateSteps
  <2>2. QED
    BY <1>7, <1>b, <1>r, <2>1 DEF CheckCertManager, Sites
<1>8. CASE GetOperator
  <2>1. CASE /\ operator' = [config |-> Live(crLog).config,
                             generation |-> Live(crLog).status.generation]
             /\ pc' = "prerequisites"
    BY <2>1 DEF CopiesInv, UpdateSteps
  <2>2. QED
    BY <1>8, <1>r, <2>1 DEF GetOperator
<1>9. CASE ManagePrerequisites
  <2>1. CASE pc' = "getDeployment" /\ UNCHANGED operator
    BY <1>9, <2>1 DEF ManagePrerequisites, CopiesInv, Rendering, UpdateSteps
  <2>2. QED
    BY <1>9, <1>r, <2>1 DEF ManagePrerequisites
<1>10. CASE GetDeployment
  <2>1. CASE pc' \in {"updateDeployment", "createDeployment"} /\ UNCHANGED operator
    BY <1>10, <2>1 DEF GetDeployment, CopiesInv, Rendering, UpdateSteps
  <2>2. QED
    BY <1>10, <1>b, <1>r, <2>1 DEF GetDeployment, Sites
<1>11. CASE CreateDeployment \/ UpdateDeployment
  BY <1>11, <1>b, <1>r DEF CreateDeployment, UpdateDeployment, WriteDeployment, Sites
<1>12. CASE ReportDegraded
  BY <1>12, NothingHeld DEF ReportDegraded, Rendering, UpdateSteps
<1>13. CASE RetryAfterBackoff \/ PeriodicResync \/ CrEvent \/ DeploymentEvent \/ Restart
  BY <1>13 DEF RetryAfterBackoff, PeriodicResync, CrEvent, DeploymentEvent, Restart, Unmoved
<1>14. CASE \/ EditSpec \/ ScaleDeployment \/ DeleteDeployment \/ PodsBecomeAvailable
            \/ PodsFail \/ InstallOrRemoveCertManager
  BY <1>14, HeldUnchanged
  DEF EditSpec, ScaleDeployment, DeleteDeployment, PodsBecomeAvailable, PodsFail,
      InstallOrRemoveCertManager
<1>15. CASE UNCHANGED vars
  BY <1>15, HeldUnchanged DEF vars
<1>16. QED
  BY <1>1, <1>2, <1>3, <1>4, <1>5, <1>6, <1>7, <1>8, <1>9, <1>10, <1>11, <1>12, <1>13, <1>14,
     <1>15
  DEF Next, Worker, UpdateStatusStep, Environment

-----------------------------------------------------------------------------
(* What is right is left alone                                              *)

\* The spec-hash annotation is the hash of the configuration that was rendered last; people
\* scale the Deployment without touching it.
HashInv == Live(depLog).hash = Live(depLog).spec.config

LEMMA WrittenHash ==
    ASSUME TypeInv, NEW v \in DepVersion, v.hash = v.spec.config,
           depLog' \in {depLog, Stored(depLog, v)}, HashInv
    PROVE  HashInv'
<1>1. Live(Stored(depLog, v)) = v
  BY StoredFacts DEF TypeInv, TypeOK
<1>2. QED
  BY <1>1 DEF HashInv

LEMMA HashStep ==
    ASSUME TypeInv, HashInv, [Next]_vars
    PROVE  HashInv'
<1> DEFINE d == Live(depLog)
<1>1. ApiOK /\ WorkerOK /\ d \in DepVersion
  BY TypeInvParts, CopiesAreVersions DEF ApiOK
<1>2. CASE CreateDeployment \/ UpdateDeployment
  <2>1. Rendered(d) \in DepVersion
    BY <1>1, ObjectsTyped
  <2>2. Rendered(d).hash = operator.config /\ Rendered(d).spec = Required(operator.config)
    BY <1>1 DEF Rendered, DepVersion
  <2>3. depLog' \in {depLog, Stored(depLog, Rendered(d))}
    BY <1>2 DEF CreateDeployment, UpdateDeployment, WriteDeployment
  <2>4. QED
    BY <2>1, <2>2, <2>3, WrittenHash DEF Required
<1>3. CASE ScaleDeployment
  <2>1. PICK r \in ScaleTargets :
          depLog' = Stored(depLog, [d EXCEPT !.spec.replicas = r, !.generation = @ + 1])
    BY <1>3 DEF ScaleDeployment
  <2> DEFINE v == [d EXCEPT !.spec.replicas = r, !.generation = @ + 1]
  <2>2. v \in DepVersion
    <3>1. r \in Nat
      BY ReplicasAssumption
    <3>2. QED
      BY <1>1, <3>1, ObjectsTyped
  <2>3. v.hash = d.hash /\ v.spec.config = d.spec.config
    BY <1>1 DEF DepVersion, DeploymentSpec
  <2>4. QED
    BY <2>1, <2>2, <2>3, WrittenHash DEF HashInv
<1>4. CASE DeleteDeployment
  BY <1>4, DefaultsTyped, WrittenHash DEF DeleteDeployment, NoDeployment, Required
<1>5. CASE PodsBecomeAvailable \/ PodsFail
  <2>1. PICK n \in Nat : depLog' = Stored(depLog, [d EXCEPT !.available = n])
    BY <1>1, <1>5 DEF PodsBecomeAvailable, PodsFail, DepVersion, DeploymentSpec
  <2>2. /\ [d EXCEPT !.available = n] \in DepVersion
        /\ [d EXCEPT !.available = n].hash = [d EXCEPT !.available = n].spec.config
    BY <1>1, ObjectsTyped DEF HashInv, DepVersion
  <2>3. QED
    BY <2>1, <2>2, WrittenHash
<1>6. CASE DeploymentEvent
  <2>1. depLog' = Tail(depLog) /\ Len(depLog) > 1
    BY <1>6 DEF DeploymentEvent
  <2>2. QED
    BY <1>1, <2>1, TailFacts DEF HashInv, ApiOK
<1>7. ASSUME depLog' = depLog PROVE HashInv'
  BY <1>7 DEF HashInv
<1>8. QED
  BY <1>2, <1>3, <1>4, <1>5, <1>6, <1>7
  DEF Next, Worker, UpdateStatusStep, Environment, ReadOperatorState,
      GetOperatorStateWithQuorum, GetForUpdate, PutStatus, Dequeue, CheckManagementState,
      CheckCertManager, GetOperator, ManagePrerequisites, GetDeployment, ReportDegraded,
      Crash, Restart, RetryAfterBackoff, PeriodicResync, CrEvent, EditSpec,
      InstallOrRemoveCertManager, worker, queue, api, vars

\* An update function that looks at a Deployment a right status describes returns that
\* very status.
LEMMA RightStatusKept ==
    ASSUME ApiOK, StatusRight, NEW site \in {"available", "final"}
    PROVE  Updated(site, Live(crLog).status, Live(depLog)) = Live(crLog).status
<1> DEFINE s == Live(crLog).status
           d == Live(depLog)
           a == AvailableCondition(d)
<1>1. s \in StatusRecord
  <2>1. Live(crLog) \in CrVersion
    BY CopiesAreVersions DEF ApiOK
  <2>2. QED
    BY <2>1 DEF CrVersion
<1>2. /\ s.generation = d.generation /\ s.readyReplicas = d.available
      /\ s.available = a /\ s.degraded = "False"
  BY DEF StatusRight
<1>3. Updated(site, s, d) =
          IF site = "available" THEN [s EXCEPT !.available = a]
          ELSE [s EXCEPT !.generation = d.generation, !.readyReplicas = d.available,
                         !.available = a, !.degraded = "False"]
  BY DEF Updated
<1> HIDE DEF s, d, a
<1>4. Updated(site, s, d) = s
  <2>1. [s EXCEPT !.available = a] = s
    BY <1>1, <1>2 DEF StatusRecord
  <2>2. [s EXCEPT !.generation = d.generation, !.readyReplicas = d.available,
                  !.available = a, !.degraded = "False"] = s
    BY <1>1, <1>2 DEF StatusRecord
  <2>3. QED
    BY <1>3, <2>1, <2>2
<1>5. QED
  BY <1>4 DEF s, d

\* Rendering the right Deployment once more gives the same Deployment.
LEMMA RightDeploymentKept ==
    ASSUME ApiOK, HashInv, OperandRight, operator.config = Live(crLog).config
    PROVE  Rendered(Live(depLog)) = Live(depLog)
<1> DEFINE d == Live(depLog)
<1>1. d \in DepVersion
  BY CopiesAreVersions DEF ApiOK
<1>2. d.exists = TRUE /\ d.spec = Required(operator.config) /\ d.hash = operator.config
  BY <1>1 DEF OperandRight, HashInv, Required, DepVersion
<1>3. Rendered(d) = [d EXCEPT !.exists = TRUE, !.generation = d.generation,
                              !.spec = d.spec, !.hash = d.hash, !.available = d.available]
  BY <1>2 DEF Rendered
<1> HIDE DEF d
<1>4. Rendered(d) = d
  BY <1>1, <1>2, <1>3 DEF DepVersion
<1>5. QED
  BY <1>4 DEF d

LEMMA RightStays ==
    ASSUME TypeInv, CopiesInv, HashInv, [Next]_vars, pc' # pc, Unmoved,
           OperandRight, StatusRight, Live(crLog).status.syncDegraded = "False",
           call.site # "missing", ~syncFailed
    PROVE  UNCHANGED <<crLog, depLog>>
<1>0. ApiOK /\ WorkerOK /\ Live(crLog) \in CrVersion
  BY TypeInvParts, CopiesAreVersions DEF ApiOK
<1>1. CASE PutStatus
  <2>1. call.site \in {"available", "final"} /\ pc = "putStatus"
    BY <1>1 DEF PutStatus, TypeInv, CallInProgress, Sites
  <2>2. call.status = Live(crLog).status
    BY <1>0, <2>1, RightStatusKept DEF CopiesInv
  <2>3. [Live(crLog) EXCEPT !.status = call.status] = Live(crLog)
    BY <1>0, <2>2 DEF CrVersion
  <2>4. QED
    BY <1>1, <2>3 DEF PutStatus, Stored
<1>2. CASE CreateDeployment \/ UpdateDeployment
  <2>1. operator.config = Live(crLog).config
    BY <1>2 DEF CreateDeployment, UpdateDeployment, CopiesInv, Rendering
  <2>2. Rendered(Live(depLog)) = Live(depLog)
    BY <1>0, <2>1, RightDeploymentKept
  <2>3. QED
    BY <1>2, <2>2 DEF CreateDeployment, UpdateDeployment, WriteDeployment, Stored
<1>3. CASE ReportDegraded
  <2>1. crLog' \in {crLog, ApplyOperatorStatus("False")} /\ depLog' = depLog
    BY <1>3 DEF ReportDegraded
  <2>2. Live(crLog).status \in StatusRecord
    BY <1>0 DEF CrVersion
  <2>3. [Live(crLog) EXCEPT !.status.syncDegraded = "False"] = Live(crLog)
    BY <1>0, <2>2 DEF CrVersion, StatusRecord
  <2>4. QED
    BY <2>1, <2>3 DEF ApplyOperatorStatus, WithSyncDegraded, Stored
<1>4. QED
  BY <1>1, <1>2, <1>3
  DEF Next, Worker, UpdateStatusStep, Environment, ReadOperatorState,
      GetOperatorStateWithQuorum, GetForUpdate, Dequeue, CheckManagementState,
      CheckCertManager, GetOperator, ManagePrerequisites, GetDeployment, Crash, Restart,
      RetryAfterBackoff, PeriodicResync, CrEvent, DeploymentEvent, EditSpec,
      ScaleDeployment, DeleteDeployment, PodsBecomeAvailable, PodsFail,
      InstallOrRemoveCertManager, worker, queue, api, vars

LEMMA CopiesAlways == Spec => [](TypeInv /\ CopiesInv /\ HashInv)
<1>1. Init => TypeInv /\ CopiesInv /\ HashInv
  <2>1. Init => CopiesInv
    BY DEF Init, CopiesInv, Unmoved
  <2>2. NoDeployment.hash = NoDeployment.spec.config
    BY DEF NoDeployment, Required
  <2>3. Init => HashInv
    BY <2>2 DEF Init, HashInv, Live
  <2>4. QED
    BY <2>1, <2>3, TypeInit
<1>2. TypeInv /\ CopiesInv /\ HashInv /\ [Next]_vars => (TypeInv /\ CopiesInv /\ HashInv)'
  BY TypeStep, CopiesStep, HashStep
<1>3. QED
  BY <1>1, <1>2, PTL DEF Spec

\* No sync that runs undisturbed writes an object that is right already, so the controller
\* does not keep itself busy with events of its own making: for every lag of the informers,
\* every budget of disturbances, and after deletions of the Deployment too.
THEOREM RightStaysUntouched == Spec => RightIsLeftAlone
<1>1. TypeInv /\ CopiesInv /\ HashInv /\ [Next]_vars =>
        [ /\ pc' # pc /\ Unmoved
          /\ OperandRight /\ StatusRight /\ Live(crLog).status.syncDegraded = "False"
          /\ call.site # "missing" /\ ~syncFailed
          => UNCHANGED <<crLog, depLog>> ]_vars
  BY RightStays
<1>2. QED
  BY <1>1, CopiesAlways, PTL DEF Spec, RightIsLeftAlone

-----------------------------------------------------------------------------
(* What a settled controller leaves behind is right                         *)

\* Nothing has moved since the worker took the key, no failure waits for its retry and
\* nobody has deleted the Deployment.
Quiet == Unmoved /\ ~retry /\ used["delete"] = 0

AllRight == IsManaged(Live(crLog)) => OperandRight /\ StatusRight

\* The inductive invariant: in a quiet state the worker, whose copies are those of
\* CopiesInv, ends with AllRight or with a failure.
QuietInv ==
    Quiet =>
        /\ pc = "idle" => AllRight
        /\ pc = "report" => syncFailed \/ AllRight
        /\ pc \in UpdateSteps /\ call.site = "final" => OperandRight

\* The steps at which the invariant asks nothing.
Careless == {"down", "start", "discover", "getOperator"} \cup Rendering

LEMMA CarelessIsQuiet ==
    ASSUME \/ pc' \in Careless
           \/ pc' = "report" /\ syncFailed'
           \/ pc' \in UpdateSteps /\ call'.site # "final"
    PROVE  QuietInv'
  BY DEF QuietInv, Careless, Rendering, UpdateSteps

\* A status that the final update function leaves as it is describes the Deployment.
LEMMA FinalUpdateRight ==
    ASSUME ApiOK, OperandRight,
           Live(crLog).status = Updated("final", Live(crLog).status, Live(depLog))
    PROVE  AllRight
<1> DEFINE s == Live(crLog).status
           d == Live(depLog)
           a == AvailableCondition(d)
<1>1. s \in StatusRecord
  <2>1. Live(crLog) \in CrVersion
    BY CopiesAreVersions DEF ApiOK
  <2>2. QED
    BY <2>1 DEF CrVersion
<1>2. s = [s EXCEPT !.generation = d.generation, !.readyReplicas = d.available,
                    !.available = a, !.degraded = "False"]
  BY DEF Updated
<1> HIDE DEF s, d, a
<1>3. /\ s.generation = d.generation /\ s.readyReplicas = d.available
      /\ s.available = a /\ s.degraded = "False"
  BY <1>1, <1>2 DEF StatusRecord
<1>4. QED
  BY <1>3 DEF AllRight, StatusRight, s, d, a

\* Everything the invariant speaks of stays.
LEMMA NothingMoves ==
    ASSUME QuietInv, Quiet, UNCHANGED <<crLog, depLog, pc, call, syncFailed>>
    PROVE  QuietInv'
  BY DEF QuietInv, AllRight, OperandRight, StatusRight, AvailableCondition

\* The call UpdateStatus is done: in a quiet state the final one has nothing to write.
LEMMA AfterQuiet ==
    ASSUME NEW failed \in BOOLEAN, AfterUpdateStatus(failed), UNCHANGED <<crLog, depLog>>,
           call.site = "final" /\ ~failed => AllRight
    PROVE  QuietInv'
<1>1. CASE pc' = "discover" \/ (pc' = "report" /\ syncFailed')
  BY <1>1, CarelessIsQuiet DEF Careless
<1>2. CASE call.site = "final" /\ Return(failed) /\ ~failed
  <2>1. AllRight' /\ pc' = "report"
    BY <1>2 DEF AllRight, OperandRight, StatusRight, AvailableCondition, Return
  <2>2. QED
    BY <2>1 DEF QuietInv, UpdateSteps
<1>3. QED
  BY <1>1, <1>2 DEF AfterUpdateStatus, Return

LEMMA ComputeQuiet ==
    ASSUME ApiOK, WorkerOK, Quiet, CopiesInv, QuietInv, pc \in UpdateSteps, Compute(1),
           UNCHANGED <<crLog, depLog>>
    PROVE  QuietInv'
<1> DEFINE new == Updated(call.site, crLog[1].status, deployment)
<1>1. crLog[1] = Live(crLog)
  BY OnlyVersion DEF Quiet
<1>2. call.site = "final" =>
          OperandRight /\ new = Updated("final", Live(crLog).status, Live(depLog))
  BY <1>1 DEF QuietInv, CopiesInv, Quiet
<1>3. CASE new = crLog[1].status
  <2>1. AfterUpdateStatus(FALSE)
    BY <1>3 DEF Compute
  <2>2. call.site = "final" => AllRight
    BY <1>1, <1>2, <1>3, FinalUpdateRight
  <2>3. QED
    BY <2>1, <2>2, AfterQuiet
<1>4. CASE new # crLog[1].status
  <2>1. /\ pc' = "getForUpdate"
        /\ call' = [call EXCEPT !.previous = 1, !.given = 1, !.status = new]
    BY <1>4 DEF Compute
  <2>2. call'.site = call.site
    <3> HIDE DEF new
    <3>1. QED
      BY <2>1 DEF WorkerOK, CallRecord
  <2>3. QED
    BY <1>2, <2>1, <2>2 DEF QuietInv, UpdateSteps, OperandRight
<1>5. QED
  BY <1>3, <1>4

\* The put of a status is a write of the same status, a conflict or a failure.
LEMMA PutQuiet ==
    ASSUME ApiOK, WorkerOK, Quiet, CopiesInv, QuietInv, PutStatus,
           UNCHANGED <<crLog, depLog>>
    PROVE  QuietInv'
<1> DEFINE put == [Live(crLog) EXCEPT !.status = call.status]
<1>1. put.status = call.status
  <2>1. Live(crLog) \in CrVersion
    BY CopiesAreVersions DEF ApiOK
  <2>2. QED
    BY <2>1 DEF CrVersion
<1>2. pc = "putStatus"
  BY DEF PutStatus
<1>3. CASE crLog' = Stored(crLog, put) /\ AfterUpdateStatus(FALSE)
  <2>1. put = Live(crLog)
    <3>1. Stored(crLog, put) = crLog
      BY <1>3
    <3> HIDE DEF put
    <3>2. QED
      BY <3>1, NothingStored DEF ApiOK
  <2>2. call.site = "final" => AllRight
    BY <1>1, <1>2, <2>1, FinalUpdateRight DEF CopiesInv, QuietInv, Quiet, UpdateSteps
  <2>3. QED
    BY <1>3, <2>2, AfterQuiet
<1>4. CASE /\ call' = [NoCall EXCEPT !.site = call.site, !.tries = call.tries + 1,
                                     !.previous = call.previous]
           /\ pc' = "readStatus"
  <2>1. call'.site = call.site
    BY <1>4 DEF NoCall
  <2>2. QED
    BY <1>2, <1>4, <2>1 DEF QuietInv, UpdateSteps, OperandRight
<1>5. CASE AfterUpdateStatus(TRUE)
  BY <1>5, AfterQuiet
<1>6. QED
  BY <1>3, <1>4, <1>5 DEF PutStatus

\* The Deployment is kept: then it is the one the CR asks for.
LEMMA KeptQuiet ==
    ASSUME ApiOK, GenerationInv, Quiet, CopiesInv, pc = "getDeployment",
           UpToDate(Live(depLog))
    PROVE  OperandRight
<1> DEFINE d == Live(depLog)
<1>1. /\ operator.config = Live(crLog).config
      /\ d.exists /\ d.hash = operator.config /\ d.generation = operator.generation
  BY DEF CopiesInv, Quiet, Rendering, UpToDate
<1>2. d.generation \in Nat
  <2>1. d \in DepVersion
    BY CopiesAreVersions DEF ApiOK
  <2>2. QED
    BY <2>1 DEF DepVersion
<1>3. Vouched(d, operator.generation)
  BY DEF GenerationInv, Recorded, Quiet
<1>4. QED
  BY <1>1, <1>2, <1>3 DEF Vouched, OperandRight

\* The Deployment is written: in a quiet state it was the required one already.
LEMMA WriteQuiet ==
    ASSUME ApiOK, WorkerOK, Quiet, CopiesInv, pc \in Rendering,
           NEW accepted \in BOOLEAN, WriteDeployment(accepted), UNCHANGED <<crLog, depLog>>
    PROVE  QuietInv'
<1> DEFINE r == Rendered(Live(depLog))
<1>1. CASE Return(TRUE)
  BY <1>1, CarelessIsQuiet DEF Return
<1>2. CASE depLog' = Stored(depLog, r) /\ pc' = "readStatus"
  <2>1. r = Live(depLog)
    <3>1. Stored(depLog, r) = depLog
      BY <1>2
    <3> HIDE DEF r
    <3>2. QED
      BY <3>1, NothingStored DEF ApiOK
  <2>2. Live(depLog) \in DepVersion
    BY CopiesAreVersions DEF ApiOK
  <2>3. r.exists /\ r.spec = Required(operator.config)
    BY <2>2 DEF Rendered, DepVersion
  <2>4. OperandRight
    BY <2>1, <2>3 DEF OperandRight, CopiesInv, Quiet
  <2>5. QED
    BY <1>2, <2>4 DEF QuietInv, UpdateSteps, OperandRight
<1>3. QED
  BY <1>1, <1>2 DEF WriteDeployment, BeginUpdateStatus

\* A step that ends quiet began quiet, but for the dequeue and the crash.
LEMMA QuietBefore ==
    ASSUME TypeInv, [Next]_vars, Quiet'
    PROVE  (Quiet /\ UNCHANGED <<crLog, depLog>>) \/ Dequeue \/ Crash
<1>1. used["delete"] = 0
  BY DeletionsCounted DEF TypeInv, Quiet
<1>2. ~retry \/ Dequeue \/ Crash
  BY QueueMoves DEF Quiet, Unmoved
<1>3. QED
  BY <1>1, <1>2, UnmovedStep DEF Quiet

LEMMA QuietStep ==
    ASSUME TypeInv, GenerationInv, CopiesInv, QuietInv, [Next]_vars
    PROVE  QuietInv'
<1> SUFFICES ASSUME Quiet', ApiOK, WorkerOK
             PROVE  QuietInv'
  BY TypeInvParts DEF QuietInv
<1> USE DEF api, queue, worker
<1>1. CASE Dequeue \/ Crash
  BY <1>1, CarelessIsQuiet DEF Dequeue, Crash, Careless
<1> SUFFICES ASSUME Quiet, UNCHANGED <<crLog, depLog>> PROVE QuietInv'
  BY <1>1, QuietBefore
<1>f. ASSUME AfterUpdateStatus(TRUE) PROVE QuietInv'
  BY <1>f, AfterQuiet
<1>r. ASSUME Return(TRUE) PROVE QuietInv'
  BY <1>r, CarelessIsQuiet DEF Return
<1>b. ASSUME NEW site \in {"available", "missing"}, NEW d, BeginUpdateStatus(site, d)
      PROVE  QuietInv'
  <2>1. pc' = "readStatus" /\ call'.site = site
    BY <1>b DEF BeginUpdateStatus, NoCall
  <2>2. QED
    BY <2>1, CarelessIsQuiet DEF UpdateSteps
<1>2. CASE ReadOperatorState
  <2>1. CASE Compute(1)
    BY <1>2, <2>1, ComputeQuiet DEF ReadOperatorState, UpdateSteps
  <2>2. CASE pc' = "readQuorum" /\ UNCHANGED call
    BY <1>2, <2>2 DEF ReadOperatorState, QuietInv, UpdateSteps, OperandRight
  <2>3. QED
    BY <1>2, <2>1, <2>2 DEF ReadOperatorState
<1>3. CASE GetOperatorStateWithQuorum
  BY <1>3, <1>f, ComputeQuiet DEF GetOperatorStateWithQuorum, UpdateSteps, Quiet, Unmoved
<1>4. CASE GetForUpdate
  <2>1. CASE \E i \in 1..Len(crLog) :
                call' = [call EXCEPT !.target = i] /\ pc' = "putStatus"
    <3>1. call'.site = call.site
      BY <2>1 DEF WorkerOK, CallRecord
    <3>2. QED
      BY <1>4, <2>1, <3>1 DEF GetForUpdate, QuietInv, UpdateSteps, OperandRight
  <2>2. QED
    BY <1>4, <1>f, <2>1 DEF GetForUpdate
<1>5. CASE PutStatus
  BY <1>5, PutQuiet
<1>6. CASE CheckManagementState
  <2>1. CASE ~IsManaged(Cached(crLog)) /\ Return(FALSE)
    <3>1. ~IsManaged(Live(crLog')) /\ pc' = "report"
      BY <2>1, OnlyVersion DEF Return, Quiet
    <3>2. QED
      BY <3>1 DEF QuietInv, AllRight, UpdateSteps
  <2>2. QED
    BY <1>6, <1>b, <2>1 DEF CheckManagementState
<1>7. CASE CheckCertManager
  BY <1>7, <1>b, <1>r, CarelessIsQuiet DEF CheckCertManager, Careless
<1>8. CASE GetOperator
  BY <1>8, <1>r, CarelessIsQuiet DEF GetOperator, Careless, Rendering
<1>9. CASE ManagePrerequisites
  BY <1>9, <1>r, CarelessIsQuiet DEF ManagePrerequisites, Careless, Rendering
<1>10. CASE GetDeployment
  <2>1. CASE UpToDate(Live(depLog)) /\ BeginUpdateStatus("final", Live(depLog))
    <3>1. OperandRight
      BY <1>10, <2>1, KeptQuiet DEF GetDeployment
    <3>2. QED
      BY <2>1, <3>1 DEF BeginUpdateStatus, QuietInv, UpdateSteps, OperandRight
  <2>2. CASE pc' \in {"updateDeployment", "createDeployment"}
    BY <2>2, CarelessIsQuiet DEF Careless, Rendering
  <2>3. QED
    BY <1>10, <1>r, <2>1, <2>2 DEF GetDeployment
<1>11. CASE CreateDeployment
  BY <1>11, WriteQuiet DEF CreateDeployment, Rendering
<1>12. CASE UpdateDeployment
  BY <1>12, WriteQuiet DEF UpdateDeployment, Rendering
<1>13. CASE ReportDegraded
  <2>1. pc = "report" /\ ~syncFailed /\ pc' = "idle"
    BY <1>13 DEF ReportDegraded, Quiet
  <2>2. QED
    BY <2>1 DEF QuietInv, UpdateSteps, AllRight, OperandRight, StatusRight,
                AvailableCondition
<1>14. CASE RetryAfterBackoff \/ PeriodicResync \/ CrEvent \/ DeploymentEvent \/ Restart
  BY <1>14 DEF RetryAfterBackoff, PeriodicResync, CrEvent, DeploymentEvent, Restart, Quiet,
               Unmoved
<1>15. CASE \/ EditSpec \/ ScaleDeployment \/ DeleteDeployment \/ PodsBecomeAvailable
            \/ PodsFail \/ InstallOrRemoveCertManager
  BY <1>15, NothingMoves
  DEF EditSpec, ScaleDeployment, DeleteDeployment, PodsBecomeAvailable, PodsFail,
      InstallOrRemoveCertManager
<1>16. CASE UNCHANGED vars
  BY <1>16, NothingMoves DEF vars
<1>17. QED
  BY <1>1, <1>2, <1>3, <1>4, <1>5, <1>6, <1>7, <1>8, <1>9, <1>10, <1>11, <1>12, <1>13, <1>14,
     <1>15, <1>16
  DEF Next, Worker, UpdateStatusStep, Environment

\* No wakeup is lost: a controller with nothing left to do has left the Deployment of a
\* managed CR as it must be and a status that describes it, for every budget of edits,
\* failures and crashes and every lag of the informers, as long as nobody deleted the
\* Deployment.
THEOREM SettlesRight == Spec => []SettledIsRight
<1>1. Init => QuietInv
  BY DEF Init, QuietInv, Quiet, Unmoved
<1>2. TypeInv /\ GenerationInv /\ CopiesInv /\ QuietInv /\ [Next]_vars => QuietInv'
  BY QuietStep
<1>3. QuietInv => SettledIsRight
  BY DEF QuietInv, SettledIsRight, Settled, Quiet, Unmoved, AllRight
<1>4. QED
  BY <1>1, <1>2, <1>3, GenerationAlways, CopiesAlways, PTL DEF Spec

=============================================================================
