----------------------- MODULE TargetConfigController -----------------------
(***************************************************************************)
(* The main controller of the operator, TargetConfigReconciler, with       *)
(* everything it races with: the API server's copies of the                *)
(* LeaderWorkerSetOperator CR and of the operand Deployment, the informers *)
(* that trail them, the work queue, people editing both objects, the       *)
(* Deployment controller, cert-manager coming and going, failing API calls *)
(* and crashes of the operator process.                                    *)
(*                                                                         *)
(* Every API call of sync() is an action of its own, because any other     *)
(* writer may act between two calls.  The calls that only maintain RBAC,   *)
(* certificates, webhooks, the CRD and so on are one action here,          *)
(* ManagePrerequisites: they touch neither object.                         *)
(***************************************************************************)
EXTENDS Integers, Sequences

CONSTANTS
    Configs,            \* what a CR's spec says of the operand (log level, node placement)
    ManagementStates,   \* the managementState values people set
    AssetReplicas,      \* spec.replicas of the embedded Deployment manifest
    ScaleTargets,       \* replica counts people scale the operand to
    MaxLag,             \* bound: versions an informer may be behind before writers wait for it
    Limit,              \* bound: how often the environment does each kind of step
    MaxDisturbances,    \* bound: how many such steps it takes in all
    ResyncEnabled       \* does the periodic resync run (FALSE: events and retries alone)

Kinds == {"edit", "scale", "delete", "podFailure", "dependency", "apiFailure", "crash"}

ASSUME ConfigsAssumption == Configs # {} /\ "Managed" \in ManagementStates
ASSUME ReplicasAssumption == AssetReplicas \in Nat /\ ScaleTargets \subseteq Nat
ASSUME LimitAssumption == /\ Limit \in [Kinds -> Nat]
                          /\ MaxDisturbances \in Nat
                          /\ MaxLag \in Nat \ {0}

VARIABLES
    crLog,       \* versions of the CR from the informer's copy (first) to the API server's (last)
    depLog,      \* likewise for the operand Deployment
    certManager, \* does discovery serve cert-manager's Issuer kind
    pc,          \* next step of the worker; "down" while the process is not running
    call,        \* locals of the UpdateStatus call in progress
    operator,    \* sync()'s live copy of the CR: leaderWorkerSetOperator
    deployment,  \* sync()'s copy of the Deployment: the lister's, then ApplyDeployment's result
    fetched,     \* position in depLog of the version ApplyDeployment fetched
    syncFailed,  \* did sync() return an error
    queued,      \* the controller's only key is in the work queue (or dirty while processed)
    retry,       \* the key waits out its rate-limited backoff
    lateWrites,  \* history: Deployment writes since the lister shows another state than Managed
    used         \* used[k]: how often the environment has done k

worker == <<pc, call, operator, deployment, fetched, syncFailed>>
queue  == <<queued, retry>>
api    == <<crLog, depLog, certManager>>
vars   == <<crLog, depLog, certManager, pc, call, operator, deployment, fetched,
            syncFailed, queued, retry, lateWrites, used>>

-----------------------------------------------------------------------------
(* The two objects and their copies                                         *)
(*                                                                          *)
(* A resourceVersion is a position in an object's log: 1 is the informer's  *)
(* copy, Len(log) the API server's, 0 any version the informer has passed.  *)
(* Positions move down by one whenever the informer moves on.               *)

Condition == {"Unset", "False", "True"}

\* syncDegraded is the condition TargetConfigControllerDegraded; generation is the
\* one recorded in status.generations for the Deployment, -1 when there is none.
StatusRecord == [available: Condition, degraded: Condition, syncDegraded: Condition,
                 generation: Int, readyReplicas: Int]
CrVersion == [management: ManagementStates, config: Configs, status: StatusRecord]

\* hash is the spec-hash annotation: the configuration the operator last rendered.
DeploymentSpec == [config: Configs, replicas: Nat]
DepVersion == [exists: BOOLEAN, generation: Nat, spec: DeploymentSpec, hash: Configs,
               available: Nat]

EmptyStatus == [available |-> "Unset", degraded |-> "Unset", syncDegraded |-> "Unset",
                generation |-> -1, readyReplicas |-> 0]
Required(c) == [config |-> c, replicas |-> AssetReplicas]
NoDeployment == [exists |-> FALSE, generation |-> 0, available |-> 0,
                 spec |-> Required(CHOOSE c \in Configs : TRUE),
                 hash |-> CHOOSE c \in Configs : TRUE]
NoOperator == [config |-> CHOOSE c \in Configs : TRUE, generation |-> -1]

Versions(log) == {log[i] : i \in 1..Len(log)}
Cached(log) == log[1]
Live(log) == log[Len(log)]

\* The API server stores a changed object as a new version and the watch carries it;
\* a write that changes nothing is not stored.
Stored(log, v) == IF v = Live(log) THEN log ELSE Append(log, v)
Room(log) == Len(log) <= MaxLag

Moved(position) == IF position > 0 THEN position - 1 ELSE 0

IsManaged(v) == v.management \in {"", "Managed"}

Disturbances == used["edit"] + used["scale"] + used["delete"] + used["podFailure"]
                + used["dependency"] + used["apiFailure"] + used["crash"]

Spend(k) == /\ used[k] < Limit[k]
            /\ Disturbances < MaxDisturbances
            /\ used' = [used EXCEPT ![k] = @ + 1]

AvailableCondition(d) ==
    IF d.exists /\ d.spec.replicas = d.available THEN "True" ELSE "False"

-----------------------------------------------------------------------------
(* v1helpers.UpdateStatus and the client's UpdateOperatorStatus             *)

Sites == {"available", "missing", "final"}
CallRecord == [site: Sites \cup {"none"}, tries: Nat, previous: Nat, given: Nat,
               target: Nat, status: StatusRecord]
NoCall == [site |-> "none", tries |-> 0, previous |-> 0, given |-> 0, target |-> 0,
           status |-> EmptyStatus]

MaxTries == 4  \* retry.DefaultBackoff.Steps

\* Fault: the final update function forgets to clear Degraded.
UpdatedKeepingDegraded(site, s, d) ==
    CASE site = "available" -> [s EXCEPT !.available = AvailableCondition(d)]
      [] site = "missing"   -> [s EXCEPT !.degraded = "True"]
      [] site = "final"     -> [s EXCEPT !.generation = d.generation,
                                         !.readyReplicas = d.available,
                                         !.available = AvailableCondition(d)]

\* Fault: the first update function calls a Deployment available once it has a pod.
UpdatedAtFirstPod(site, s, d) ==
    CASE site = "available" ->
            [s EXCEPT !.available = IF d.exists /\ d.available > 0 THEN "True" ELSE "False"]
      [] site = "missing"   -> [s EXCEPT !.degraded = "True"]
      [] site = "final"     -> [s EXCEPT !.generation = d.generation,
                                         !.readyReplicas = d.available,
                                         !.available = AvailableCondition(d),
                                         !.degraded = "False"]

\* The update functions of the three calls sync() makes.
Updated(site, s, d) ==
    CASE site = "available" -> [s EXCEPT !.available = AvailableCondition(d)]
      [] site = "missing"   -> [s EXCEPT !.degraded = "True"]
      [] site = "final"     -> [s EXCEPT !.generation = d.generation,
                                         !.readyReplicas = d.available,
                                         !.available = AvailableCondition(d),
                                         !.degraded = "False"]

BeginUpdateStatus(site, d) ==
    /\ pc' = "readStatus"
    /\ call' = [NoCall EXCEPT !.site = site]
    /\ deployment' = d

\* sync() returns; its locals go out of scope.
Return(failed) ==
    /\ pc' = "report"
    /\ syncFailed' = failed
    /\ call' = NoCall
    /\ operator' = NoOperator
    /\ deployment' = NoDeployment

\* UpdateStatus returned err # nil iff failed.
AfterUpdateStatus(failed) ==
    \/ /\ call.site = "available" /\ ~failed
       /\ pc' = "discover"
       /\ call' = NoCall
       /\ deployment' = NoDeployment
       /\ UNCHANGED <<operator, syncFailed>>
    \/ /\ call.site = "available" /\ failed
       /\ Return(TRUE)
    \/ /\ call.site = "missing"
       /\ Return(TRUE)
    \/ /\ call.site = "final"
       /\ Return(failed)

\* Fault: the final update function reads the Deployment again.
ComputeFromFreshDeployment(position) ==
    LET v == crLog[position]
        d == IF call.site = "final" THEN Live(depLog) ELSE deployment
        new == Updated(call.site, v.status, d) IN
    \/ /\ new = v.status
       /\ AfterUpdateStatus(FALSE)
    \/ /\ new # v.status
       /\ pc' = "getForUpdate"
       /\ call' = [call EXCEPT !.previous = position, !.given = position, !.status = new]
       /\ UNCHANGED <<operator, deployment, syncFailed>>

\* An attempt computes the new status from a copy: nothing to write, or a write of
\* the whole status on behalf of the copy's resourceVersion.
Compute(position) ==
    LET v == crLog[position]
        new == Updated(call.site, v.status, deployment) IN
    \/ /\ new = v.status
       /\ AfterUpdateStatus(FALSE)
    \/ /\ new # v.status
       /\ pc' = "getForUpdate"
       /\ call' = [call EXCEPT !.previous = position, !.given = position, !.status = new]
       /\ UNCHANGED <<operator, deployment, syncFailed>>

\* GetOperatorState reads the lister; after a conflict with a lister that has not
\* moved the attempt reads the API server instead.
ReadOperatorState ==
    /\ pc = "readStatus"
    /\ \/ /\ call.previous # 1
          /\ Compute(1)
       \/ /\ call.previous = 1
          /\ pc' = "readQuorum"
          /\ UNCHANGED <<call, operator, deployment, syncFailed>>
    /\ UNCHANGED <<api, fetched, queue, lateWrites, used>>

GetOperatorStateWithQuorum ==
    /\ pc = "readQuorum"
    /\ \/ Compute(Len(crLog)) /\ UNCHANGED used
       \/ Spend("apiFailure") /\ AfterUpdateStatus(TRUE)
    /\ UNCHANGED <<api, fetched, queue, lateWrites>>

\* UpdateOperatorStatus fetches an object "not older than" the given resourceVersion:
\* any version the API server may still serve from its watch cache.
GetForUpdate ==
    /\ pc = "getForUpdate"
    /\ \/ \E i \in 1..Len(crLog) :
            /\ i >= call.given
            /\ call' = [call EXCEPT !.target = i]
            /\ pc' = "putStatus"
            /\ UNCHANGED <<operator, deployment, syncFailed, used>>
       \/ Spend("apiFailure") /\ AfterUpdateStatus(TRUE)
    /\ UNCHANGED <<api, fetched, queue, lateWrites>>

\* ... and puts the new status on it, under the fetched object's resourceVersion.
PutStatus ==
    LET written == Stored(crLog, [Live(crLog) EXCEPT !.status = call.status]) IN
    /\ pc = "putStatus" /\ Room(crLog)
    /\ \/ /\ call.target = Len(crLog)
          /\ crLog' = written
          /\ AfterUpdateStatus(FALSE)
          /\ UNCHANGED used
       \/ /\ call.target # Len(crLog)          \* conflict: try again
          /\ call.tries + 1 < MaxTries
          /\ call' = [NoCall EXCEPT !.site = call.site, !.tries = call.tries + 1,
                                    !.previous = call.previous]
          /\ pc' = "readStatus"
          /\ UNCHANGED <<crLog, operator, deployment, syncFailed, used>>
       \/ /\ call.target # Len(crLog)          \* conflict: attempts used up
          /\ call.tries + 1 >= MaxTries
          /\ AfterUpdateStatus(TRUE)
          /\ UNCHANGED <<crLog, used>>
       \/ /\ Spend("apiFailure")               \* error, or the reply is lost
          /\ \/ crLog' = crLog
             \/ call.target = Len(crLog) /\ crLog' = written
          /\ AfterUpdateStatus(TRUE)
    /\ UNCHANGED <<depLog, certManager, fetched, queue, lateWrites>>

-----------------------------------------------------------------------------
(* The work queue's worker: processNextWorkItem, reconcile, sync            *)

\* Fault: the dequeued key stays dirty.
DequeueStillDirty ==
    /\ pc = "idle" /\ queued
    /\ pc' = "start"
    /\ UNCHANGED <<api, call, operator, deployment, fetched, syncFailed, queued, retry,
                   lateWrites, used>>

Dequeue ==
    /\ pc = "idle" /\ queued
    /\ pc' = "start"
    /\ queued' = FALSE
    /\ UNCHANGED <<api, call, operator, deployment, fetched, syncFailed, retry,
                   lateWrites, used>>

\* Fault: the management state is not looked at.
SkipManagementState ==
    /\ pc = "start"
    /\ BeginUpdateStatus("available", Cached(depLog))
    /\ UNCHANGED <<api, operator, fetched, syncFailed, queue, lateWrites, used>>

CheckManagementState ==
    /\ pc = "start"
    /\ \/ /\ IsManaged(Cached(crLog))
          /\ BeginUpdateStatus("available", Cached(depLog))
          /\ UNCHANGED <<operator, syncFailed>>
       \/ /\ ~IsManaged(Cached(crLog))
          /\ Return(FALSE)
    /\ UNCHANGED <<api, fetched, queue, lateWrites, used>>

\* isResourceRegistered: discovery lists the Issuer kind; a group it does not know is a no.
IssuerRegistered == certManager

\* Fault: a missing cert-manager fails the sync without a word in the status.
CheckCertManagerSilently ==
    /\ pc = "discover"
    /\ \/ /\ IssuerRegistered
          /\ pc' = "getOperator"
          /\ UNCHANGED <<call, operator, deployment, syncFailed, used>>
       \/ /\ ~IssuerRegistered
          /\ Return(TRUE)
          /\ UNCHANGED used
       \/ Spend("apiFailure") /\ Return(TRUE)
    /\ UNCHANGED <<api, fetched, queue, lateWrites>>

CheckCertManager ==
    /\ pc = "discover"
    /\ \/ /\ IssuerRegistered
          /\ pc' = "getOperator"
          /\ UNCHANGED <<call, operator, deployment, syncFailed, used>>
       \/ /\ ~IssuerRegistered
          /\ BeginUpdateStatus("missing", NoDeployment)
          /\ UNCHANGED <<operator, syncFailed, used>>
       \/ Spend("apiFailure") /\ Return(TRUE)
    /\ UNCHANGED <<api, fetched, queue, lateWrites>>

\* Fault: the CR is taken from the lister.
GetOperatorCached ==
    /\ pc = "getOperator"
    /\ \/ /\ operator' = [config |-> Cached(crLog).config,
                          generation |-> Cached(crLog).status.generation]
          /\ pc' = "prerequisites"
          /\ UNCHANGED <<call, deployment, syncFailed, used>>
       \/ Spend("apiFailure") /\ Return(TRUE)
    /\ UNCHANGED <<api, fetched, queue, lateWrites>>

GetOperator ==
    /\ pc = "getOperator"
    /\ \/ /\ operator' = [config |-> Live(crLog).config,
                          generation |-> Live(crLog).status.generation]
          /\ pc' = "prerequisites"
          /\ UNCHANGED <<call, deployment, syncFailed, used>>
       \/ Spend("apiFailure") /\ Return(TRUE)
    /\ UNCHANGED <<api, fetched, queue, lateWrites>>

ManagePrerequisites ==
    /\ pc = "prerequisites"
    /\ \/ /\ pc' = "getDeployment"
          /\ UNCHANGED <<call, operator, deployment, syncFailed, used>>
       \/ Spend("apiFailure") /\ Return(TRUE)
    /\ UNCHANGED <<api, fetched, queue, lateWrites>>

\* Fault: the generation is not compared.
UpToDateByHash(d) == d.exists /\ d.hash = operator.config

\* ApplyDeployment, first half: the existing object is kept when its metadata
\* carries the required spec's hash and its generation is the recorded one.
UpToDate(d) == d.exists /\ d.hash = operator.config /\ d.generation = operator.generation

GetDeployment ==
    LET existing == Live(depLog) IN
    /\ pc = "getDeployment"
    /\ \/ /\ UpToDate(existing)
          /\ BeginUpdateStatus("final", existing)
          /\ UNCHANGED <<operator, fetched, syncFailed, used>>
       \/ /\ ~UpToDate(existing)
          /\ fetched' = Len(depLog)
          /\ pc' = IF existing.exists THEN "updateDeployment" ELSE "createDeployment"
          /\ UNCHANGED <<call, operator, deployment, syncFailed, used>>
       \/ Spend("apiFailure") /\ Return(TRUE) /\ UNCHANGED fetched
    /\ UNCHANGED <<api, queue, lateWrites>>

\* What the API server makes of the required Deployment: generation 1 on creation,
\* one more on an update when, and only when, the spec changes.
Rendered(old) ==
    [old EXCEPT !.exists = TRUE,
                !.generation = IF ~old.exists THEN 1
                               ELSE IF old.spec # Required(operator.config)
                               THEN old.generation + 1 ELSE old.generation,
                !.spec = Required(operator.config),
                !.hash = operator.config,
                !.available = IF old.exists THEN old.available ELSE 0]

\* ApplyDeployment, second half: Create or Update under the precondition accepted.
WriteDeployment(accepted) ==
    LET written == Stored(depLog, Rendered(Live(depLog))) IN
    /\ Room(depLog)
    /\ \/ /\ accepted
          /\ depLog' = written
          /\ BeginUpdateStatus("final", Live(written))
          /\ UNCHANGED <<operator, syncFailed, used>>
       \/ /\ ~accepted                         \* AlreadyExists, Conflict, NotFound
          /\ Return(TRUE)
          /\ UNCHANGED <<depLog, used>>
       \/ /\ Spend("apiFailure")               \* error, or the reply is lost
          /\ \/ depLog' = depLog
             \/ accepted /\ depLog' = written
          /\ Return(TRUE)
    /\ lateWrites' = IF depLog' # depLog /\ ~IsManaged(Cached(crLog))
                     THEN lateWrites + 1 ELSE lateWrites
    /\ fetched' = 0
    /\ UNCHANGED <<crLog, certManager, queue>>

CreateDeployment ==
    /\ pc = "createDeployment"
    /\ WriteDeployment(~Live(depLog).exists)

UpdateDeployment ==
    /\ pc = "updateDeployment"
    /\ WriteDeployment(Live(depLog).exists /\ fetched = Len(depLog))

\* The apply configuration of reportDegraded: a status with one condition, nothing else.
WithSyncDegraded(v, condition) == [v EXCEPT !.status.syncDegraded = condition]

\* A forced server-side apply of the one condition the controller's field manager owns;
\* it stores nothing when the condition is already there.
ApplyOperatorStatus(condition) == Stored(crLog, WithSyncDegraded(Live(crLog), condition))

\* Fault: an item whose failure could not be reported is not retried.
ReportDegradedOnce ==
    LET condition == IF syncFailed THEN "True" ELSE "False"
        written == ApplyOperatorStatus(condition) IN
    /\ pc = "report" /\ Room(crLog)
    /\ \/ /\ crLog' = written
          /\ retry' = (retry \/ syncFailed)
          /\ UNCHANGED used
       \/ /\ Spend("apiFailure")
          /\ crLog' \in {crLog, written}
          /\ retry' = (retry \/ syncFailed)
    /\ pc' = "idle"
    /\ syncFailed' = FALSE
    /\ UNCHANGED <<depLog, certManager, call, operator, deployment, fetched, queued,
                   lateWrites>>

\* reconcile's reportDegraded: the condition is applied, then the item is retried with
\* backoff if sync or, after a good sync, the report failed.
ReportDegraded ==
    LET condition == IF syncFailed THEN "True" ELSE "False"
        written == ApplyOperatorStatus(condition) IN
    /\ pc = "report" /\ Room(crLog)
    /\ \/ /\ crLog' = written
          /\ retry' = (retry \/ syncFailed)
          /\ UNCHANGED used
       \/ /\ Spend("apiFailure")
          /\ crLog' \in {crLog, written}
          /\ retry' = TRUE
    /\ pc' = "idle"
    /\ syncFailed' = FALSE
    /\ UNCHANGED <<depLog, certManager, call, operator, deployment, fetched, queued,
                   lateWrites>>

-----------------------------------------------------------------------------
(* What feeds the queue                                                     *)

RetryAfterBackoff ==
    /\ pc # "down" /\ retry
    /\ retry' = FALSE
    /\ queued' = TRUE
    /\ UNCHANGED <<api, worker, lateWrites, used>>

PeriodicResync ==
    /\ ResyncEnabled /\ pc # "down" /\ ~queued
    /\ queued' = TRUE
    /\ UNCHANGED <<api, worker, retry, lateWrites, used>>

\* The informers move their copies one version on and enqueue the key.
CrEvent ==
    /\ pc # "down" /\ Len(crLog) > 1
    /\ crLog' = Tail(crLog)
    /\ call' = [call EXCEPT !.previous = Moved(@), !.given = Moved(@), !.target = Moved(@)]
    /\ queued' = TRUE
    /\ lateWrites' = IF IsManaged(Cached(crLog')) THEN 0 ELSE lateWrites
    /\ UNCHANGED <<depLog, certManager, pc, operator, deployment, fetched, syncFailed,
                   retry, used>>

\* Fault: the Deployment informer only refreshes its store.
DeploymentEventUnheard ==
    /\ pc # "down" /\ Len(depLog) > 1
    /\ depLog' = Tail(depLog)
    /\ fetched' = Moved(fetched)
    /\ UNCHANGED <<crLog, certManager, pc, call, operator, deployment, syncFailed, queue,
                   lateWrites, used>>

\* Fault: an informer pops an event that is not there.
DeploymentEventUnguarded ==
    /\ pc # "down" /\ Len(depLog) > 0
    /\ depLog' = Tail(depLog)
    /\ fetched' = Moved(fetched)
    /\ queued' = TRUE
    /\ UNCHANGED <<crLog, certManager, pc, call, operator, deployment, syncFailed, retry,
                   lateWrites, used>>

DeploymentEvent ==
    /\ pc # "down" /\ Len(depLog) > 1
    /\ depLog' = Tail(depLog)
    /\ fetched' = Moved(fetched)
    /\ queued' = TRUE
    /\ UNCHANGED <<crLog, certManager, pc, call, operator, deployment, syncFailed, retry,
                   lateWrites, used>>

-----------------------------------------------------------------------------
(* The process and its environment                                          *)

Crash ==
    /\ pc # "down"
    /\ Spend("crash")
    /\ pc' = "down"
    /\ call' = NoCall
    /\ operator' = NoOperator
    /\ deployment' = NoDeployment
    /\ fetched' = 0
    /\ syncFailed' = FALSE
    /\ queued' = FALSE
    /\ retry' = FALSE
    /\ UNCHANGED <<api, lateWrites>>

\* The initial list of the informers and the first tick of the resync enqueue the key.
Restart ==
    /\ pc = "down"
    /\ pc' = "idle"
    /\ queued' = TRUE
    /\ UNCHANGED <<api, call, operator, deployment, fetched, syncFailed, retry,
                   lateWrites, used>>

EditSpec ==
    /\ Spend("edit") /\ Room(crLog)
    /\ \E m \in ManagementStates, c \in Configs :
        /\ <<m, c>> # <<Live(crLog).management, Live(crLog).config>>
        /\ crLog' = Stored(crLog, [Live(crLog) EXCEPT !.management = m, !.config = c])
    /\ UNCHANGED <<depLog, certManager, worker, queue, lateWrites>>

ScaleDeployment ==
    /\ Spend("scale") /\ Room(depLog)
    /\ Live(depLog).exists
    /\ \E r \in ScaleTargets \ {Live(depLog).spec.replicas} :
        depLog' = Stored(depLog, [Live(depLog) EXCEPT !.spec.replicas = r,
                                                      !.generation = @ + 1])
    /\ UNCHANGED <<crLog, certManager, worker, queue, lateWrites>>

DeleteDeployment ==
    /\ Spend("delete") /\ Room(depLog)
    /\ Live(depLog).exists
    /\ depLog' = Stored(depLog, NoDeployment)
    /\ UNCHANGED <<crLog, certManager, worker, queue, lateWrites>>

\* The Deployment controller brings up, or loses, the operand's pods.
PodsBecomeAvailable ==
    /\ Live(depLog).exists /\ Room(depLog)
    /\ Live(depLog).available # Live(depLog).spec.replicas
    /\ depLog' = Stored(depLog, [Live(depLog) EXCEPT !.available = Live(depLog).spec.replicas])
    /\ UNCHANGED <<crLog, certManager, worker, queue, lateWrites, used>>

PodsFail ==
    /\ Spend("podFailure") /\ Room(depLog)
    /\ Live(depLog).exists
    /\ depLog' = Stored(depLog, [Live(depLog) EXCEPT !.available = 0])
    /\ UNCHANGED <<crLog, certManager, worker, queue, lateWrites>>

InstallOrRemoveCertManager ==
    /\ Spend("dependency")
    /\ certManager' = ~certManager
    /\ UNCHANGED <<crLog, depLog, worker, queue, lateWrites>>

-----------------------------------------------------------------------------
Init ==
    /\ \E c \in Configs :
        crLog = <<[management |-> "Managed", config |-> c, status |-> EmptyStatus]>>
    /\ depLog = <<NoDeployment>>
    /\ certManager \in BOOLEAN
    /\ pc = "idle"
    /\ call = NoCall
    /\ operator = NoOperator
    /\ deployment = NoDeployment
    /\ fetched = 0
    /\ syncFailed = FALSE
    /\ queued = TRUE
    /\ retry = FALSE
    /\ lateWrites = 0
    /\ used = [k \in Kinds |-> 0]

UpdateStatusStep ==
    \/ ReadOperatorState \/ GetOperatorStateWithQuorum \/ GetForUpdate \/ PutStatus

Worker ==
    \/ Dequeue \/ CheckManagementState \/ UpdateStatusStep \/ CheckCertManager
    \/ GetOperator \/ ManagePrerequisites \/ GetDeployment \/ CreateDeployment
    \/ UpdateDeployment \/ ReportDegraded

Environment ==
    \/ EditSpec \/ ScaleDeployment \/ DeleteDeployment \/ PodsBecomeAvailable
    \/ PodsFail \/ InstallOrRemoveCertManager \/ Crash

Next ==
    \/ Worker
    \/ RetryAfterBackoff \/ PeriodicResync
    \/ CrEvent \/ DeploymentEvent
    \/ Restart
    \/ Environment

\* The worker, the informers, the backoff timer, the resync timer, the kubelet that
\* restarts the process and the Deployment controller keep running; people, failures
\* and crashes owe nothing.
Fairness ==
    /\ WF_vars(Worker)
    /\ WF_vars(RetryAfterBackoff)
    /\ WF_vars(PeriodicResync)
    /\ WF_vars(CrEvent)
    /\ WF_vars(DeploymentEvent)
    /\ WF_vars(Restart)
    /\ WF_vars(PodsBecomeAvailable)

Spec == Init /\ [][Next]_vars
FairSpec == Spec /\ Fairness

-----------------------------------------------------------------------------
(* Properties                                                               *)

Steps == {"down", "idle", "start", "readStatus", "readQuorum", "getForUpdate", "putStatus",
          "discover", "getOperator", "prerequisites", "getDeployment", "createDeployment",
          "updateDeployment", "report"}

\* Type invariant: every variable keeps the shape the code's data has, both logs hold
\* at least the version the informer shows.
TypeOK ==
    /\ crLog \in Seq(CrVersion) /\ Len(crLog) > 0
    /\ depLog \in Seq(DepVersion) /\ Len(depLog) > 0
    /\ certManager \in BOOLEAN
    /\ pc \in Steps
    /\ call \in CallRecord
    /\ operator \in [config: Configs, generation: Int]
    /\ deployment \in DepVersion
    /\ fetched \in Nat
    /\ syncFailed \in BOOLEAN
    /\ queued \in BOOLEAN
    /\ retry \in BOOLEAN
    /\ lateWrites \in Nat
    /\ used \in [Kinds -> Nat]

\* A generation the Deployment really has, recorded in any copy of the CR still around,
\* vouches for the Deployment's spec: it is the one the spec-hash annotation names.
\* This is what lets ApplyDeployment detect drift "by generation, not by spec comparison"
\* although UpdateStatus writes whole statuses computed from a stale lister.
GenerationSound ==
    used["delete"] = 0 =>
        \A v \in Versions(crLog) :
            v.status.generation = Live(depLog).generation =>
                Live(depLog).spec = Required(Live(depLog).hash)

\* sync() goes on to the final status without writing the Deployment.
KeepsDeployment == pc = "getDeployment" /\ pc' = "readStatus"

\* When sync() finds nothing to do, the live Deployment is what the CR it read asks for,
\* as long as nobody has ever deleted the Deployment.
KeptDeploymentIsRequired ==
    [][KeepsDeployment /\ used["delete"] = 0
        => Live(depLog).spec = Required(operator.config)]_vars

\* Nothing is pending: no work, no backoff, no event on its way.
Settled == /\ pc = "idle" /\ ~queued /\ ~retry
           /\ Len(crLog) = 1 /\ Len(depLog) = 1

OperandRight ==
    LET d == Live(depLog) IN d.exists /\ d.spec = Required(Live(crLog).config)

StatusRight ==
    LET d == Live(depLog)
        s == Live(crLog).status IN
    /\ s.generation = d.generation
    /\ s.readyReplicas = d.available
    /\ s.available = AvailableCondition(d)
    /\ s.degraded = "False"

\* No wakeup is lost: whenever the controller has nothing left to do, the Deployment of a
\* managed CR is the required one and the status, which sync() may have skipped writing
\* because a stale lister already showed it, describes that Deployment.
SettledIsRight ==
    Settled /\ IsManaged(Live(crLog)) /\ used["delete"] = 0 => OperandRight /\ StatusRight

\* No failed sync is forgotten: a settled controller reports no sync error, even though
\* UpdateStatus overwrites the condition with the copy a stale lister held.
SettledReportsSuccess == Settled => Live(crLog).status.syncDegraded = "False"

\* No event has come since the worker took the key, and none is on its way.
Unmoved == ~queued /\ Len(crLog) = 1 /\ Len(depLog) = 1

\* The controller cannot wake itself up again: an undisturbed sync that finds Deployment
\* and status right writes neither, at any of its writes.  This is the safety core of
\* ComesToRest; it takes the three update functions, ApplyDeployment and reportDegraded to
\* agree on what a right status is.
RightIsLeftAlone ==
    [][ /\ pc' # pc /\ Unmoved
        /\ OperandRight /\ StatusRight /\ Live(crLog).status.syncDegraded = "False"
        /\ call.site # "missing" /\ ~syncFailed
        => UNCHANGED <<crLog, depLog>> ]_vars

\* Once the lister shows that the CR is not managed any more, at most the sync already
\* under way still writes the Deployment.
AtMostOneLateWrite == lateWrites <= 1

\* The steps during which a sync holds the configuration it renders the Deployment for.
Rendering == {"prerequisites", "getDeployment", "createDeployment", "updateDeployment"}

Contract == INSTANCE OperandContract WITH
    config <- Live(crLog).config,
    operand <- IF Live(depLog).exists THEN {Live(depLog).spec} ELSE {},
    plan <- IF pc \in Rendering THEN {operator.config} ELSE {}

\* sync() keeps the contract of OperandContract: however stale the lister, the operand's
\* spec only ever becomes the manifest rendered for the configuration the CR had on the
\* API server when this very sync fetched it, and each fetch is good for one write.
ImplementsContract == Contract!Spec

\* UpdateOperatorStatus "updates the status of the operator, assuming the given resource
\* version": a put that succeeds replaces the version the new status was computed from.
PutAssumesGivenVersion ==
    [][pc = "putStatus" /\ pc' # pc /\ crLog' # crLog
        => call.given = Len(crLog)]_vars

\* Drift is detected by generation whatever happened before, deletions included.
DriftIsDetected ==
    [][KeepsDeployment => Live(depLog).spec = Required(operator.config)]_vars

\* When the CR stays managed and cert-manager stays installed, Deployment and status end
\* up right and stay right.
Converges ==
    <>[](certManager /\ IsManaged(Live(crLog)))
        => <>[](OperandRight /\ StatusRight /\ Live(crLog).status.syncDegraded = "False")

\* The controller does not wake itself up forever: with no resync, and unless it retries
\* for want of cert-manager, the writes of its own status die out.
ComesToRest == <>[](certManager \/ ~IsManaged(Live(crLog))) => <>[]Settled

\* A missing cert-manager ends up reported in Degraded for as long as it is missing.
MissingDependencyReported ==
    <>[](~certManager /\ IsManaged(Live(crLog))) => <>[](Live(crLog).status.degraded = "True")

=============================================================================
