------------------------ MODULE OperandContractProofs ------------------------
(***************************************************************************)
(* TargetConfigController implements OperandContract: its initial states   *)
(* are the contract's and each of its steps is one of the contract's or    *)
(* leaves configuration, operand and plan alone.                           *)
(***************************************************************************)
EXTENDS TargetConfigControllerProofs

\* The contract's variables, as the controller's state shows them.
AbsConfig == Live(crLog).config
AbsOperand == IF Live(depLog).exists THEN {Live(depLog).spec} ELSE {}
AbsPlan == IF pc \in Rendering THEN {operator.config} ELSE {}

\* The steps most actions make: the plan is kept or dropped.
Stutters == UNCHANGED <<AbsConfig, AbsOperand, AbsPlan>>
Abandons == AbsPlan' = {} /\ UNCHANGED <<AbsConfig, AbsOperand>>

LEMMA StepsAreContract ==
    /\ Stutters => [Contract!Next]_(Contract!vars)
    /\ Abandons => [Contract!Next]_(Contract!vars)
<1>1. Stutters => UNCHANGED Contract!vars
  BY DEF Stutters, AbsConfig, AbsOperand, AbsPlan, Contract!vars
<1>2. Abandons => Contract!Abandon
  BY DEF Abandons, AbsConfig, AbsOperand, AbsPlan, Contract!Abandon
<1>3. QED
  BY <1>1, <1>2 DEF Contract!Next

\* The ways a sync leaves a call: none of them holds a plan.
LEMMA ReturnDropsPlan == ASSUME NEW failed, Return(failed) PROVE AbsPlan' = {}
  BY DEF Return, AbsPlan, Rendering

LEMMA BeginDropsPlan ==
    ASSUME NEW site, NEW d, BeginUpdateStatus(site, d) PROVE AbsPlan' = {}
  BY DEF BeginUpdateStatus, AbsPlan, Rendering

LEMMA AfterDropsPlan == ASSUME NEW failed, AfterUpdateStatus(failed) PROVE AbsPlan' = {}
  BY DEF AfterUpdateStatus, Return, AbsPlan, Rendering

LEMMA ComputeDropsPlan == ASSUME NEW i, Compute(i) PROVE AbsPlan' = {}
<1>1. Compute(i) => AfterUpdateStatus(FALSE) \/ pc' = "getForUpdate"
  BY DEF Compute
<1>2. QED
  BY <1>1, AfterDropsPlan DEF AbsPlan, Rendering

\* A write of the CR that keeps its spec keeps the configuration.
LEMMA StatusWriteKeepsConfig ==
    ASSUME ApiOK, NEW v \in CrVersion, v.config = Live(crLog).config,
           crLog' \in {crLog, Stored(crLog, v)}
    PROVE  AbsConfig' = AbsConfig
<1>1. Live(Stored(crLog, v)) = v
  BY StoredFacts DEF ApiOK
<1>2. QED
  BY <1>1 DEF AbsConfig

\* A write of the Deployment shows as the operand.
LEMMA DeploymentWriteShows ==
    ASSUME ApiOK, NEW v \in DepVersion, depLog' = Stored(depLog, v)
    PROVE  AbsOperand' = IF v.exists THEN {v.spec} ELSE {}
<1>1. Live(Stored(depLog, v)) = v
  BY StoredFacts DEF ApiOK
<1>2. QED
  BY <1>1 DEF AbsOperand

LEMMA ContractInit == Init => Contract!Init
<1> SUFFICES ASSUME Init PROVE Contract!Init
  OBVIOUS
<1>1. PICK c \in Configs :
        crLog = <<[management |-> "Managed", config |-> c, status |-> EmptyStatus]>>
  BY DEF Init
<1>2. Live(crLog).config = c
  BY <1>1 DEF Live
<1>3. ~Live(depLog).exists
  BY DEF Init, NoDeployment, Live
<1>4. pc \notin Rendering
  BY DEF Init, Rendering
<1>5. QED
  BY <1>2, <1>3, <1>4 DEF Contract!Init

\* Each action of the controller is a step of the contract or hides behind it.
LEMMA ContractStep == TypeInv /\ [Next]_vars => [Contract!Next]_(Contract!vars)
<1> SUFFICES ASSUME ApiOK, WorkerOK, RestOK, TypeOK, [Next]_vars
             PROVE  [Contract!Next]_(Contract!vars)
  BY TypeInvParts DEF TypeInv
<1> USE DEF api, queue, worker
<1>a. ASSUME UNCHANGED <<crLog, depLog>> PROVE UNCHANGED <<AbsConfig, AbsOperand>>
  BY <1>a DEF AbsConfig, AbsOperand
<1>b. ASSUME UNCHANGED <<pc, operator>> PROVE AbsPlan' = AbsPlan
  BY <1>b DEF AbsPlan
<1>c. /\ \A s \in StatusRecord : [Live(crLog) EXCEPT !.status = s] \in CrVersion
      /\ \A s \in Condition : [Live(crLog) EXCEPT !.status.syncDegraded = s] \in CrVersion
      /\ \A m \in ManagementStates, c \in Configs :
           [Live(crLog) EXCEPT !.management = m, !.config = c] \in CrVersion
      /\ Rendered(Live(depLog)) \in DepVersion
      /\ \A r \in Nat : [Live(depLog) EXCEPT !.spec.replicas = r, !.generation = @ + 1]
                          \in DepVersion
      /\ \A n \in Nat : [Live(depLog) EXCEPT !.available = n] \in DepVersion
  BY ObjectsTyped
<1>d. Live(crLog) \in CrVersion /\ Live(depLog) \in DepVersion
  BY CopiesAreVersions DEF ApiOK
<1>1. CASE ReadOperatorState
  <2>1. AbsPlan' = {}
    BY <1>1, ComputeDropsPlan DEF ReadOperatorState, AbsPlan, Rendering
  <2>2. QED
    BY <1>1, <1>a, <2>1, StepsAreContract DEF ReadOperatorState, Abandons
<1>2. CASE GetOperatorStateWithQuorum
  <2>1. AbsPlan' = {}
    BY <1>2, ComputeDropsPlan, AfterDropsPlan DEF GetOperatorStateWithQuorum
  <2>2. QED
    BY <1>2, <1>a, <2>1, StepsAreContract DEF GetOperatorStateWithQuorum, Abandons
<1>3. CASE GetForUpdate
  <2>1. AbsPlan' = {}
    BY <1>3, AfterDropsPlan DEF GetForUpdate, AbsPlan, Rendering
  <2>2. QED
    BY <1>3, <1>a, <2>1, StepsAreContract DEF GetForUpdate, Abandons
<1>4. CASE PutStatus
  <2>1. AbsPlan' = {}
    BY <1>4, AfterDropsPlan DEF PutStatus, AbsPlan, Rendering
  <2>2. call.status \in StatusRecord
    BY DEF WorkerOK, CallRecord
  <2>3. crLog' \in {crLog, Stored(crLog, [Live(crLog) EXCEPT !.status = call.status])}
    BY <1>4 DEF PutStatus
  <2>4. AbsConfig' = AbsConfig
    <3>1. [Live(crLog) EXCEPT !.status = call.status].config = Live(crLog).config
      BY <1>d DEF CrVersion
    <3>2. QED
      BY <1>c, <2>2, <2>3, <3>1, StatusWriteKeepsConfig
  <2>5. AbsOperand' = AbsOperand
    BY <1>4 DEF PutStatus, AbsOperand
  <2>6. QED
    BY <2>1, <2>4, <2>5, StepsAreContract DEF Abandons
<1>5. CASE Dequeue
  <2>1. AbsPlan' = {}
    BY <1>5 DEF Dequeue, AbsPlan, Rendering
  <2>2. QED
    BY <1>5, <1>a, <2>1, StepsAreContract DEF Dequeue, Abandons
<1>6. CASE CheckManagementState
  <2>1. AbsPlan' = {}
    BY <1>6, BeginDropsPlan, ReturnDropsPlan DEF CheckManagementState
  <2>2. QED
    BY <1>6, <1>a, <2>1, StepsAreContract DEF CheckManagementState, Abandons
<1>7. CASE CheckCertManager
  <2>1. AbsPlan' = {}
    BY <1>7, BeginDropsPlan, ReturnDropsPlan DEF CheckCertManager, AbsPlan, Rendering
  <2>2. QED
    BY <1>7, <1>a, <2>1, StepsAreContract DEF CheckCertManager, Abandons
<1>8. CASE GetOperator
  <2>1. UNCHANGED <<AbsConfig, AbsOperand>>
    BY <1>8, <1>a DEF GetOperator
  <2>2. CASE Return(TRUE)
    BY <2>1, <2>2, ReturnDropsPlan, StepsAreContract DEF Abandons
  <2>3. CASE /\ pc' = "prerequisites"
             /\ operator' = [config |-> Live(crLog).config,
                             generation |-> Live(crLog).status.generation]
    <3>1. AbsPlan = {} /\ AbsPlan' = {AbsConfig}
      BY <1>8, <2>3 DEF GetOperator, AbsPlan, AbsConfig, Rendering
    <3>2. Contract!PickUp
      BY <2>1, <3>1 DEF Contract!PickUp, AbsConfig, AbsOperand, AbsPlan
    <3>3. QED
      BY <3>2 DEF Contract!Next
  <2>4. QED
    BY <1>8, <2>2, <2>3 DEF GetOperator
<1>9. CASE ManagePrerequisites
  <2>1. UNCHANGED <<AbsConfig, AbsOperand>>
    BY <1>9, <1>a DEF ManagePrerequisites
  <2>2. AbsPlan' \in {AbsPlan, {}}
    BY <1>9, ReturnDropsPlan DEF ManagePrerequisites, AbsPlan, Rendering
  <2>3. QED
    BY <2>1, <2>2, StepsAreContract DEF Abandons, Stutters
<1>10. CASE GetDeployment
  <2>1. UNCHANGED <<AbsConfig, AbsOperand>>
    BY <1>10, <1>a DEF GetDeployment
  <2>2. AbsPlan' \in {AbsPlan, {}}
    BY <1>10, ReturnDropsPlan, BeginDropsPlan DEF GetDeployment, AbsPlan, Rendering
  <2>3. QED
    BY <2>1, <2>2, StepsAreContract DEF Abandons, Stutters
<1>11. ASSUME NEW accepted \in BOOLEAN, WriteDeployment(accepted),
              pc \in {"createDeployment", "updateDeployment"}
       PROVE  [Contract!Next]_(Contract!vars)
  <2>1. AbsPlan = {operator.config} /\ AbsPlan' = {}
    BY <1>11, ReturnDropsPlan, BeginDropsPlan DEF WriteDeployment, AbsPlan, Rendering
  <2>2. AbsConfig' = AbsConfig
    BY <1>11 DEF WriteDeployment, AbsConfig
  <2>3. CASE depLog' = depLog
    BY <2>1, <2>2, <2>3, StepsAreContract DEF AbsOperand, Abandons
  <2>4. CASE depLog' = Stored(depLog, Rendered(Live(depLog)))
    <3>1. /\ Rendered(Live(depLog)).exists
          /\ Rendered(Live(depLog)).spec = Required(operator.config)
      BY <1>d DEF Rendered, DepVersion
    <3>2. AbsOperand' = {Required(operator.config)}
      BY <2>4, <3>1, <1>c, DeploymentWriteShows
    <3>3. Contract!Apply
      BY <2>1, <2>2, <3>2 DEF Contract!Apply, AbsConfig, AbsOperand, AbsPlan, Required
    <3>4. QED
      BY <3>3 DEF Contract!Next
  <2>5. QED
    BY <1>11, <2>3, <2>4 DEF WriteDeployment
<1>12. CASE CreateDeployment
  BY <1>11, <1>12 DEF CreateDeployment
<1>13. CASE UpdateDeployment
  BY <1>11, <1>13 DEF UpdateDeployment
<1>14. CASE ReportDegraded
  <2> DEFINE condition == IF syncFailed THEN "True" ELSE "False"
  <2>1. AbsPlan' = {}
    BY <1>14 DEF ReportDegraded, AbsPlan, Rendering
  <2>2. crLog' \in {crLog, Stored(crLog, [Live(crLog) EXCEPT !.status.syncDegraded = condition])}
    BY <1>14 DEF ReportDegraded, ApplyOperatorStatus, WithSyncDegraded
  <2>3. AbsConfig' = AbsConfig
    <3>1. [Live(crLog) EXCEPT !.status.syncDegraded = condition] \in CrVersion
      BY <1>c DEF Condition
    <3>2. [Live(crLog) EXCEPT !.status.syncDegraded = condition].config = Live(crLog).config
      BY <1>d DEF CrVersion
    <3>3. QED
      BY <2>2, <3>1, <3>2, StatusWriteKeepsConfig
  <2>4. AbsOperand' = AbsOperand
    BY <1>14 DEF ReportDegraded, AbsOperand
  <2>5. QED
    BY <2>1, <2>3, <2>4, StepsAreContract DEF Abandons
<1>15. CASE RetryAfterBackoff \/ PeriodicResync \/ InstallOrRemoveCertManager \/ UNCHANGED vars
  <2>1. UNCHANGED <<crLog, depLog, pc, operator>>
    BY <1>15 DEF RetryAfterBackoff, PeriodicResync, InstallOrRemoveCertManager, vars
  <2>2. QED
    BY <2>1, <1>a, <1>b, StepsAreContract DEF Stutters
<1>16. CASE CrEvent
  <2>1. Live(crLog') = Live(crLog)
    BY <1>16, TailFacts DEF CrEvent, ApiOK
  <2>2. QED
    BY <1>16, <2>1, <1>b, StepsAreContract DEF CrEvent, Stutters, AbsConfig, AbsOperand
<1>17. CASE DeploymentEvent
  <2>1. Live(depLog') = Live(depLog)
    BY <1>17, TailFacts DEF DeploymentEvent, ApiOK
  <2>2. QED
    BY <1>17, <2>1, <1>b, StepsAreContract DEF DeploymentEvent, Stutters, AbsConfig, AbsOperand
<1>18. CASE Crash \/ Restart
  <2>1. AbsPlan' = {}
    BY <1>18 DEF Crash, Restart, AbsPlan, Rendering
  <2>2. QED
    BY <1>18, <1>a, <2>1, StepsAreContract DEF Crash, Restart, Abandons
<1>19. CASE EditSpec
  <2>1. PICK m \in ManagementStates, c \in Configs :
           crLog' = Stored(crLog, [Live(crLog) EXCEPT !.management = m, !.config = c])
    BY <1>19 DEF EditSpec
  <2>2. AbsConfig' = c
    <3> DEFINE edited == [Live(crLog) EXCEPT !.management = m, !.config = c]
    <3>1. edited \in CrVersion /\ edited.config = c
      BY <1>c, <1>d DEF CrVersion
    <3> HIDE DEF edited
    <3>2. Live(Stored(crLog, edited)) = edited
      BY <3>1, StoredFacts DEF ApiOK
    <3>3. AbsConfig' = Live(Stored(crLog, edited)).config
      BY <2>1 DEF AbsConfig, edited
    <3>4. QED
      BY <3>1, <3>2, <3>3
  <2>3. UNCHANGED <<AbsOperand, AbsPlan>>
    BY <1>19, <1>b DEF EditSpec, AbsOperand
  <2>4. Contract!Edit
    BY <2>2, <2>3 DEF Contract!Edit, AbsConfig, AbsOperand, AbsPlan
  <2>5. QED
    BY <2>4 DEF Contract!Next
<1>20. CASE ScaleDeployment
  <2> DEFINE d == Live(depLog)
  <2>1. PICK r \in ScaleTargets :
           depLog' = Stored(depLog, [d EXCEPT !.spec.replicas = r, !.generation = @ + 1])
    BY <1>20 DEF ScaleDeployment
  <2>2. AbsOperand = {d.spec} /\ AbsOperand' = {[d.spec EXCEPT !.replicas = r]}
    <3> DEFINE scaled == [d EXCEPT !.spec.replicas = r, !.generation = @ + 1]
    <3>1. d.exists
      BY <1>20 DEF ScaleDeployment
    <3>2. r \in Nat
      BY ReplicasAssumption
    <3>3. scaled.exists /\ scaled.spec = [d.spec EXCEPT !.replicas = r]
      BY <3>1, <1>d DEF DepVersion
    <3>4. QED
      BY <2>1, <3>1, <3>2, <3>3, <1>c, DeploymentWriteShows DEF AbsOperand
  <2>3. UNCHANGED <<AbsConfig, AbsPlan>>
    BY <1>20, <1>b DEF ScaleDeployment, AbsConfig
  <2>4. Contract!Scale
    BY <2>2, <2>3 DEF Contract!Scale, AbsConfig, AbsOperand, AbsPlan
  <2>5. QED
    BY <2>4 DEF Contract!Next
<1>21. CASE DeleteDeployment
  <2>1. AbsOperand' = {}
    BY <1>21, DefaultsTyped, DeploymentWriteShows DEF DeleteDeployment, NoDeployment
  <2>2. UNCHANGED <<AbsConfig, AbsPlan>>
    BY <1>21, <1>b DEF DeleteDeployment, AbsConfig
  <2>3. Contract!Delete
    BY <2>1, <2>2 DEF Contract!Delete, AbsConfig, AbsOperand, AbsPlan
  <2>4. QED
    BY <2>3 DEF Contract!Next
<1>22. ASSUME NEW n \in Nat, depLog' = Stored(depLog, [Live(depLog) EXCEPT !.available = n])
       PROVE  AbsOperand' = AbsOperand
  <2>1. /\ [Live(depLog) EXCEPT !.available = n].exists = Live(depLog).exists
        /\ [Live(depLog) EXCEPT !.available = n].spec = Live(depLog).spec
    BY <1>d DEF DepVersion
  <2>2. QED
    BY <1>22, <2>1, <1>c, DeploymentWriteShows DEF AbsOperand
<1>23. CASE PodsBecomeAvailable \/ PodsFail
  <2>1. Live(depLog).spec.replicas \in Nat
    BY <1>d DEF DepVersion, DeploymentSpec
  <2>2. AbsOperand' = AbsOperand
    BY <1>22, <1>23, <2>1 DEF PodsBecomeAvailable, PodsFail
  <2>3. UNCHANGED <<AbsConfig, AbsPlan>>
    BY <1>23, <1>b DEF PodsBecomeAvailable, PodsFail, AbsConfig
  <2>4. QED
    BY <2>2, <2>3, StepsAreContract DEF Stutters
<1>24. QED
  BY <1>1, <1>2, <1>3, <1>4, <1>5, <1>6, <1>7, <1>8, <1>9, <1>10, <1>12, <1>13, <1>14, <1>15,
     <1>16, <1>17, <1>18, <1>19, <1>20, <1>21, <1>23
  DEF Next, Worker, UpdateStatusStep, Environment

\* The operand's spec only ever becomes the manifest for the configuration the CR had when
\* the writing sync fetched it, for every budget of edits, failures and crashes and
\* every lag of the informers.
THEOREM OperandFollowsContract == Spec => ImplementsContract
<1>1. Spec => []TypeInv
  BY TypeInit, TypeStep, PTL DEF Spec
<1>2. QED
  BY <1>1, ContractInit, ContractStep, PTL DEF Spec, ImplementsContract, Contract!Spec

=============================================================================
