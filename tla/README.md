# TLA+ verification of the LeaderWorkerSet operator

The operator installs one operand (the LWS controller manager) and keeps it as one
custom resource asks. Nearly all of its logic is one function, `sync()` in
`pkg/operator/target_config_reconciler.go`, run by one worker of a library-go controller;
what makes it hard is everything that moves between two of its API calls. This directory
models that function with everything it races with, and the processes that run it,
model-checks them with TLC and proves their safety properties with TLAPS.

## 1. The system

| Part | State | Operations | Talks to |
|---|---|---|---|
| TargetConfigReconciler (`target_config_reconciler.go`) | locals of one `sync()`, resource cache | `sync`, 24 `manage*`/`check*` calls | API server, discovery, listers |
| Operator client (`operatorclient/interfaces.go`) | none (informer's store) | read state (lister / quorum), update status, apply status | API server, CR lister |
| `v1helpers.UpdateStatus` | attempt's locals | read, compute, put, retry on conflict | operator client |
| Controller framework (`base_controller.go`, work queue) | key queued / dirty / backing off | wait for caches, dequeue, reconcile, report degraded, retry, resync | informers |
| ApplyDeployment (`resourceapply/apps.go`) | – | get, compare hash and generation, create or update | API server |
| Resource cache (`resource_cache.go`) | version and hash per object | skip?, remember | the memoized applies |
| CRD application (`manageCustomResourceDefinition`) | copied CA bundle | read, copy, read, create or update | API server, CA injector |
| Command, `RunOperator` (`cmd/`, `starter.go`) | controllers' context | build clients, wire, start informers, launch controllers | election, factories |
| Leader election (client-go) | observed lease, identity | acquire, renew, give up, release | Lease object |
| Informer factories (generated, `v1helpers`) | informers requested, started, synced | `InformerFor`, `Start`, list | API server |
| Log level controller (library-go) | process verbosity | set level | CR lister |
| Environment | CR, Deployment, Secrets, CRDs, other objects, owner references | people, Deployment controller, garbage collector, cert-manager, kubelet | – |

The parts share no memory with their environment. They meet in the API server's objects,
see them through informers that trail behind, and wake each other up through events that
put the controller's single key on its work queue.

What is hard here, and what each part has to get right:

* **Stale reads, whole writes.** Statuses are computed from a lister and put over the live
  object. *Correct* means that no stale write survives unnoticed and no wakeup is lost:
  when nothing is pending, Deployment and status are right.
* **Drift by generation.** The Deployment's spec is never compared, only its generation
  with a recorded one that such stale writes may roll back. *Correct* means that a
  recorded generation never vouches for a spec that is not the operator's.
* **One check, many calls.** `managementState` is looked at once. *Correct* means at most
  the sync under way still writes after the state changed.
* **Partial failure.** Every call may fail with or without effect, the process may die
  anywhere. *Correct* means that the error is reported and retried, that no Deployment is
  rolled out on half its manifests and that attempts cost no rollout.
* **Other writers.** cert-manager rotates Secrets and injects CA bundles between the
  operator's calls. *Correct* means that every rotation reaches the pod template and that
  bundles are lost only to a race, and then come back.
* **Missing dependency.** cert-manager's arrival makes no event. *Correct* means that the
  backoff and the resync see it and that Degraded says so meanwhile.
* **Another CR of the same name.** A deleted CR takes its objects with it, a recreated one
  has another UID. *Correct* means that the objects move to the new owner, never back, and
  are there in the end although the collector works on what it saw earlier.
* **Two processes.** While the operator's own pod is replaced, two processes share a lease.
  *Correct* means that none reads a cache that was not filled, that two act at once only in
  the few ways the code allows for, and that one ends up at work.

The full list of hazards, each with its line and the properties aimed at it, is
`PROJECT.json` "hazards".

## 2. Modules

| Module | Models |
|---|---|
| `OperandContract` | what the operator promises of the operand's Deployment, without any of its mechanism |
| `TargetConfigController` | `sync()` around the pipeline: status updates, cert-manager check, live CR read, ApplyDeployment; work queue, informers, crashes; implements `OperandContract` |
| `RolloutContract` | what the pipeline promises of the pod template's annotations, without calls, informers or failures |
| `OperandRollout` | the pipeline inside `sync()`: all 24 calls in order, the Secrets, the pod template's annotations, the resource cache |
| `RolloutHistory` | `OperandRollout` with the history its contract speaks of; implements `RolloutContract` |
| `ConversionCRD` | one call of the pipeline in full: the CRDs and the CA bundle |
| `Ownership` | every apply of the pipeline as its Get and its write, for the one field `OperandRollout` leaves out: the owner reference; deletion of the CR, garbage collector |
| `OperatorProcess` | the processes: lease, start-up, informers, waiting for caches, stopping |
| `MC*` | the instances TLC checks |
| `*Proofs` | theorems; `SettledProofs` is about `TargetConfigController`, `RolloutCauseProofs` about `OperandRollout` and `RolloutHistory`, the others about the module they are named for |

The machines are abstractions of one another's steps and not one product, which would have
no states worth checking within reach. `BeginSync` .. `EndSync` of `OperatorProcess` are one
run of `TargetConfigController`; `ManagePrerequisites` there stands for `OperandRollout`'s
pipeline and `ManageDeployments` of the pipeline for ApplyDeployment and the final status;
`Apply("CustomResourceDefinition")` of the pipeline stands for `ConversionCRD`; `Get` and
`Write` of `Ownership` split each `Apply`. The pipeline touches neither the CR nor the
Deployment before its last call, which is why the core may treat it as one step that works
or fails.

### OperandContract

*State.* `config`, what the CR asks for; `operand`, the Deployment's spec if there is one;
`plan`, the configuration the sync under way renders. *Actions.* `PickUp`, `Apply`,
`Abandon` of a sync; `Edit`, `Scale`, `Delete` by people. The controller implements it under
`config <- Live(crLog).config`, `operand <-` the live Deployment's spec, `plan <-` the
configuration `sync()` fetched for as long as `pc` lies between that Get and the write.

### TargetConfigController

*State.* `crLog` and `depLog` hold the versions of the CR and of the Deployment from the
informer's copy (first) to the API server's (last); a resourceVersion is a position in the
log. `pc` is the next API call of the worker, `call`, `operator` and `deployment` are the
locals of `UpdateStatus` and `sync()`, `queued` and `retry` the work queue and its backoff.

*Actions.* One per API call, in the code's order: `Dequeue`, `CheckManagementState`, the
four steps of `UpdateStatus` (`ReadOperatorState`, `GetOperatorStateWithQuorum`,
`GetForUpdate`, `PutStatus`) at each of its three call sites, `CheckCertManager`,
`GetOperator`, `ManagePrerequisites`, `GetDeployment`, `CreateDeployment`,
`UpdateDeployment`, `ReportDegraded`. Each has an outcome in which the call fails, and
writes also one in which they take effect and the reply is lost. Others: `CrEvent` and
`DeploymentEvent` (informers), `RetryAfterBackoff`, `PeriodicResync`, `Crash`, `Restart`,
people editing the CR or scaling or deleting the Deployment, the Deployment controller,
cert-manager coming and going.

*Abstractions.* The operand's configuration (log level, node placement, image) is a model
value that `Required` turns into a spec. Conditions keep type and status; reasons,
messages, transition times and managed fields are left out, so a forced apply of a
condition that is already there stores nothing. (The code sends that apply with every
sync, because the extracted apply configuration keeps the transition time and so never
equals the desired one; the server finds nothing to change.) Two API calls of
`ApplyOperatorStatus` (a Get that only decides whether to send the apply, and the apply)
are one step.

*Assumptions.* The CR exists throughout: its deletion is `Ownership`'s subject. A restarted
informer does not list a state older than the one its predecessor showed. Nobody edits the
spec-hash annotation on the Deployment or the status subresource of the CR by hand.

### OperandRollout

*State.* For each applied object its resourceVersion and what it holds: nothing (`absent`),
what the manifest says (`required`), a binding to `otherRole`, a CRD without its webhook
(`unhooked`), a Service that differs only in what its apply does not compare (`overlooked`)
or any other difference (`foreign`); for each Secret the log of its
versions from lister to API server; `template`, the three annotations of the live pod
template; `step`, the worker's position in `Pipeline`; `annotations`, the map
`specAnnotations`; `cache`, for memoized objects the version filed under the manifest's own
hash.

*Actions.* `Apply(o)` for each manifest, `CheckSecretReady(s)` for each Secret and
`ManageDeployments`, enabled in the order of `Pipeline`; the queue's actions as above;
cert-manager's `IssueSecret`, which may create the Secret before it fills it in,
`RotateSecret`; `LoseSecret`, `Touch` (any difference an object of its kind can have, see
`Damage`), `Crash`, `Restart`. Every `Apply` may find the object right, write it, fail, be
refused or take the process down.

*Abstractions.* An apply's Get and write are one step: a writer between them makes the
write fail without effect, which is one of the outcomes of a failing call. The applies
whose two reads matter are `ConversionCRD`'s and `Ownership`'s. An Update of an unstructured
object is cached under the merged object's hash, which no manifest matches, hence
`Remembered`'s zero. `PeriodicResync` stands also for events of the CR and the Deployment.
The API server refuses every Update of a binding whose `roleRef` would change (`Refused`);
the vendored apply leaves that case as a TODO (`rbac.go:64`, `rbac.go:152`), so such a
binding ends every sync at its call, for ever. The apply of a Service compares its metadata
(with the hash of the manifest's spec), selector and type and nothing else (`core.go:155-176`,
with a TODO of its own at `core.go:132`): edited ports stay (`Keep`) until something compared
differs too, and then the whole spec is written (`Write`). A live CRD without the conversion
webhook is dereferenced at `target_config_reconciler.go:589` (`Panics`): the process goes
down and the next one meets the same CRD. "Required" is said of what the manifest mentions;
labels, annotations or fields somebody added to it are merged, not removed, and no
difference here.

### RolloutContract and RolloutHistory

*State.* `fit`, per Secret and for the ConfigMap the versions that were ever fit to run with
(a Secret with both keys, the manifest's ConfigMap), and the `template`. *Actions.* `Offer`,
which adds newer fit versions, and `Rollout`, which names a fit version of each and none older
than the template names already. The pipeline reads Secrets from a lister, so the versions a
rollout names may be gone from the API server by then: `RolloutHistory` is `OperandRollout`
step for step and writes down in `fit` what the API server has held. It restricts nothing.

### ConversionCRD

*State.* Each CRD's schema, annotation, conversion and CA bundle; the operator's position in
the list of files, the bundle it copied, whether the version it fetched is still the live
one; `pc` tells a sync that is past the CRDs without an error (`applied`) from one that
failed; two history variables, `touched` for the present CRD and `edited` for those people
wrote since ApplyCustomResourceDefinitionV1 read them. *Actions.* `GetCurrent` (copy the bundle, or panic on a live CRD without the webhook),
`GetExisting` (the second read, inside ApplyCustomResourceDefinitionV1), `CreateCrd`,
`UpdateCrd`, `Restart`; the CA injector, CA rotation, people's edits and deletions, crashes.
`ConversionRemovable` says whether people may leave a CRD without its webhook; only the run
about that case allows it, because the operator never gets past it.

### Ownership

*State.* `cr`, the UID of the CR (UIDs count its creations), `seen`, the informer's idea of
it; `owner`, for each object the UID its owner reference names; `condemned`, objects the
garbage collector found ownerless and is about to delete; `cache`, for a memoized object the
UID in the manifest it was last given; `late`, a write whose process died and that may still
reach the server; the worker's position and the UID and copy it holds.

*Actions.* `BeginSync` (fails while the lister knows no CR), `GetCr` (the live Get whose UID
goes into every manifest), `Get` and `Write` per object; `CrEvent`, `Resync`, `Crash` (and
restart), `LateWrite`; `CreateCr`, `DeleteCr`, `OrphanCr`; `Condemn` and `Collect`.

*Abstractions.* cert-manager is there, its Secrets are filled and the CR is managed, so that
nothing but ownership keeps a sync from its end. A retry and the resync are both `queued`.
The collector's delete names the object's UID but not its version, hence it may delete an
object that has meanwhile moved to the new CR; a recreated object has another UID and is no
longer condemned. Deleting with `--cascade=orphan` removes the references first, and a sync
under way may give some of them back. Nothing tells the operator of a lost object without an
informer: the five-minute resync does. The CRDs are among the owned objects, so the deletion
of the CR also deletes the LeaderWorkerSet CRD, and with it every LeaderWorkerSet.

### OperatorProcess

*State.* `lease` and `age`, the Lease's holder and the time since it was written;
`topology`, of which the builder derives the lease's times (`builder.go:369-377`); per
process `elector`, the election loop of the main goroutine; `since`, how long it has led
without being able to renew; `told`, whether the controllers' context is cancelled; `runner`,
RunOperator's next step; `informers`, the state of each informer of the two factories; `ctl`,
the reconciler's goroutine; two history flags, `robbed` (a release emptied the lease of
another process) and `lapsed` (a lease was taken from a process that still led), both
forgotten when a process takes the lease and no other leads.

*Actions.* `Start`, `Acquire`, `Renew`, `CutOff` and `Reconnect` (from a leader's last
renewal on no attempt gets through, until one does), `StopRenewing`, `Release`, `Exit`;
RunOperator's `BuildClients`, `NewForConfig`, `NewTargetConfigReconciler` (requests the informers),
`StartOperatorInformers`, `StartKubeInformers`, `LaunchControllers`; `InitialList`,
`CachesSynced`, `CacheSyncTimeout`, `BeginSync`, `EndSync`, `StopController`; `Tick`,
`SigTerm`, `Kill`.

*Abstractions.* A process restarts under a fresh identity, so the lease of its predecessor
has to expire (`Orphan`). Clocks of the processes agree. `GiveUp` is the retry period plus
the renew deadline: the renew loop waits the one and then tries for the other, so that much
time can pass between a leader's last renewal and its end. The topology is chosen once; when
it cannot be detected the highly available times are used, which is the other value. A leader
that reaches the API server renews in time, and its lease does not age.

*What the code does, and the properties have to allow for.* RunOperator returns as soon as
its context ends, without waiting for the controllers. When a renewal fails in time, the
lease is released *before* the controllers' context is cancelled, and OnStoppedLeading then
exits at once; the grace period of the command builder is never given. That is what the
comment on `ReleaseOnCancel` (`leaderelection.go:153-158`) warns of: for a moment the next
leader may act beside a sync of the leaving one. `release()` also empties the lease without
comparing its holder, so a leader that was slow to give up may free its successor's lease
(`robbed`); `OneOperatorActs` then promises nothing, and `OperatorRuns` shows that one leader
remains. The default times are 26 s + 107 s < 137 s in a highly available cluster, where a
leader that is cut off gives up before its lease expires, and 60 s + 240 s > 270 s on a
single node (`config/leaderelection/leaderelection.go:167`), where it does not: a candidate
takes the lease and acts beside it (`lapsed`). `OneOperatorActs` promises nothing then
either. `LeaseOutlivesLeader` says where it cannot happen. The comments there count the slack
as LeaseDuration - RenewDeadline, 30 s in both topologies, and leave the retry period out.

## 3. Runs

All budgets are per behaviour: `Limit[k]` steps of the environment of kind `k` and, in the
controller's, the pipeline's and the process's runs, `MaxDisturbances` of them in all.
Informer lag is bounded by `MaxLag`: writers wait while the log is full. `MaxUid` bounds how
often the CR is created. `CHECK_DEADLOCK FALSE` stands in the runs without the resync,
because the controller then really comes to rest; deadlock is checked in all others. In
`rollout_safety` the resync may come at any moment and may stay away: `RolledOut` speaks of
every state without pending work, so a lost event is not excused by the resync that would
make up for it.

| Run | States | Shows |
|---|---|---|
| `tcc_safety` | 3.0 M | types; `GenerationSound`, `AtMostOneLateWrite`, `KeptDeploymentIsRequired`, `SettledIsRight`, `SettledReportsSuccess`, `RightIsLeftAlone`, refinement of `OperandContract`: any three of a CR edit, a scaling, cert-manager going or coming, a failed or half-failed call, a crash; no resync |
| `tcc_rest` | 448 k | `ComesToRest`: own status writes die out, with informers four versions behind, where `UpdateStatus` can use up its four attempts |
| `tcc_weather` | 146 k | `Converges`, `MissingDependencyReported` with resync: edit, deletion, pod failure, cert-manager |
| `rollout_safety` | 1.0 M | types, `RolledOut`, `RolloutsHaveCause`, `DeploymentComesLast`: any three of rotation, change of the ConfigMap, failing call, crash, or one of them and the loss of a Secret |
| `rollout_live` | 733 k | `EverythingApplied`, `SkipsAreSound`, refinement of `RolloutContract`: bootstrap with cert-manager, any two of a rotation, a failed or half-failed call and changes people make to the ConfigMap or to one object without an informer of each kind: a binding, a Service, a cached unstructured one, the CRD |
| `crd_apply` | 44 k | types, `AppliedAsRequired`, `BundleLostOnlyByRace`, `BundleRecovers`, `SpecsRepaired` |
| `ownership` | 672 k | types, `SyncedIsOwned`, `OwnersMoveForward`, `OperandFollowsCr`, `OperandLeavesWithCr`: one object of each kind of apply, two CRs, two deletions and one orphaning, a failing call, a crash with a write on its way |
| `process` | 530 k | types, `ListersAreFed`, `CachesWillFill`, `OneOperatorActs`, `LeaseOutlivesLeader`, `OperatorRuns`: the leaving and the coming pod under the lease times of either topology, any two of a SIGTERM, a kill and an API failure or cut connection |

Four runs refute something a document or comment says; `PROJECT.json` "findings" quotes it:

| Run | Refuted |
|---|---|
| `tcc_put` | UpdateOperatorStatus assumes the given resource version: it sends the one it has just fetched |
| `tcc_drift` | drift is detected by generation: not after deletion and recreation of the Deployment |
| `crd_bundle` | the CRD step preserves the existing CA bundle: not when it is injected between two reads |
| `crd_conversion` | the operator manages the conversion webhook configuration: without one in the live CRD it panics for ever |

*Why the bounds are enough to be interesting.* One edit and one scaling suffice to make the
lister, the live CR that `sync()` fetches and the Deployment disagree pairwise. One failing
call covers every call and both outcomes. Two configurations are the fewest that differ. In
`tcc_rest` the lag of four lets each retry of `UpdateStatus` meet another unseen version. In
`rollout_live` one rotation and one failing call suffice to have a rollout name a version
that the API server has already replaced, or a repeated sync start from an older copy. In
the runs with three disturbances any three meet at any call: a rotation between two failing
attempts, a Secret rotated while the ConfigMap is edited and the process is down, or an edit, a
crash and a failure of the first call after it. Two CRD files suffice for "the converting one
and one behind it". In `ownership` the three objects are one whose cache entry is voided by
its own update, one that the cache really skips and one it does not know; two CRs and two
deletions give the collector an object of each generation, and leave runs that end with and
without a CR. In `process` a leader that is cut off gives up after one unit of time and its
lease expires after two, on a single node the other way round: the order is all that
`OperatorProcess` tells of the times. There the budget has no SIGTERM, which adds nothing to
a lease that lapses; two pods are what a rollout of the operator creates. In `rollout_live`
the process dies by the panic only; `rollout_safety` lets it die at every call. The loss of a
Secret counts for two disturbances, because cert-manager's reissue follows it: that a loss
and two more disturbances break none of the invariants is proved, not checked. One
worker and one key are the program's own numbers, not bounds.

*Fairness.* `TargetConfigController`: weak fairness of the worker (one goroutine that loops),
of the backoff and resync timers, of both informers, of the kubelet's restart and of the
Deployment controller. `OperandRollout`: the same and cert-manager's issuing.
`ConversionCRD`: the operator as a whole (its resync starts a sync every five minutes) and
the CA injector. `Ownership`: the worker, its resync and informer, a write already sent, and
the garbage collector for each object. `OperatorProcess`: the clock, *some* candidate
acquiring (none in particular: the jitter decides), each process's main goroutine with the
kubelet's start, and its start-up with the informers' lists and the wait for caches; a sync
need never begin or end and a connection need never come back. People, failures, crashes, kills, signals, rotations and cert-manager's
installation are never fair. A weakly fair worker may not stay for ever at a call whose
failing outcome is always chosen, because failures are budgeted; liveness therefore says
"once calls stop failing".

*Guarded statements.* `GenerationSound`, `KeptDeploymentIsRequired` and `SettledIsRight` say
"as long as nobody deleted the Deployment"; `tcc_drift` shows why. `ComesToRest` excepts a
missing cert-manager, for which the controller retries for ever by design.
`RightIsLeftAlone` speaks of a sync that nobody disturbs and that does not fail, or it would
have something to report. `AppliedAsRequired` excepts the CRDs people wrote behind the
operator's back and, of each CRD, the CA bundle. `EverythingApplied` excepts the edited ports of a
Service, which no sync repairs, and what comes behind a binding of another role or a CRD
without its webhook, from the object itself on; without any one of the three exceptions TLC
refutes it. `OneOperatorActs` excepts a leaving process, a robbed lease and a lapsed one, for
the reasons given above; each exception is needed, the last on a single node only, and
`LeaseOutlivesLeader` says so for topologies whose leaders give up in time.
`AtMostOneLateWrite` allows the one write of a sync under way: what the e2e test "should
allow manual scaling when managementState is Unmanaged" waits for holds from the next sync on.

## 4. Proofs

Proved by TLAPS for all values of the constants, from the named assumptions of the modules
(`ConfigsAssumption`, `ReplicasAssumption`, `FilesAssumption`, `CAsAssumption`,
`TouchableAssumption`, `NamesAssumption`, `LeaseAssumption`, `PipelineAssumption`,
`MemoAssumption`, and `LimitAssumption` of each).

*Types.* `TypeCorrect`, `CrdTypeCorrect`, `RolloutTypeCorrect` and the two `TypeCorrect` of
the process and ownership modules: `Spec => []TypeOK`. In the core the invariant needs
`CallInProgress`: a site and positions in the log whenever `pc` is inside `UpdateStatus`.

*The controller.*

* `GenerationIsSound`: `GenerationSound` is not inductive, because a status that records a
  generation exists in many places at once. `GenerationInv` says the same of all of them:
  every version in the CR's log, the status about to be put, the copy of the Deployment
  whose generation is about to be recorded and the recorded generation `sync()` read are
  each *vouched*: if the generation is the live one then the live spec is the one its hash
  names, and none is ahead of the live one. Scaling raises the generation and so
  disarms all of them; the operator's own update makes spec and hash agree.
* `KeptIsRequired`: the action property, from `GenerationInv` and the guard of
  `GetDeployment`.
* `LateWriteOnce`: `LateInv`: before the first late write the count is zero, and once it
  is one the worker is *finishing*, past the only call that writes the Deployment, until it
  returns to the check, which the lister's copy then fails.
* `NoFailureForgotten` and `SettlesRight` (`SettledProofs`): `ReportInv`: an idle worker
  without key or backoff has reported success. `QuietInv`: in a *quiet* state (nothing
  queued, both informers up to date, no deletion) everything the worker has read is what is
  there, so that it can only end with a right Deployment and status, or with a failure that
  is retried. Every foreign step leaves the quiet by lengthening a log; it returns only
  through an event, which queues the key. `GenerationInv` supplies that a kept Deployment
  is right.
* `RightStaysUntouched` (`SettledProofs`): `RightIsLeftAlone` is the safety core of
  `ComesToRest`: the controller's own writes come back to it as events, so it comes to rest
  only if what is right is not written again. `CopiesInv`: while nothing moves, the CR the
  worker fetched, the Deployment its update function looks at and the status it is about to
  put are what is there; `HashInv`: the live Deployment's hash is that of its own spec's
  configuration. `RightStatusKept` then shows of the three update functions that each
  computes the status it was given, `RightDeploymentKept` that ApplyDeployment finds nothing
  to do.
* `OperandFollowsContract`: the initial states map to initial states and every step to a
  step of `OperandContract` or a stutter, with one lemma per action.

*The CRD.*

* `BundleKeptUnlessRaced`: `BundleCopied`: from the first read on, and until somebody else
  writes the CRD, the copied bundle is the live one; `Unhooked`: a CRD without the webhook
  has no bundle.
* `SuccessMeansEveryFile`: `Behind`: every file before the operator's position is as its
  manifest says, or names the present CRD or one people wrote; past the last file that is
  all of them. It holds because merging a manifest twice changes nothing and because the
  only thing the injector changes is the bundle, which the statement leaves open
  (`MergedIsRight`).

*The pipeline.*

* `CacheIsSound`: `CacheInv`: the cache never runs ahead of an object's version, and at the
  version it names the object was the manifest's. Every foreign write raises the version.
* `DeploymentIsLast`: `Barrier`: while nobody touches the objects, all those at positions
  before the worker's are as required, and a rollout finds the worker at the last position.
  It rests on `CacheIsSound`: a skipped call must not leave a wrong object behind.
* `NothingMissed`: `QuietInv` again, position by position: in a quiet state what the worker
  has collected of each Secret and the ConfigMap behind it is the live version.
* `NoNeedlessRollout` (`RolloutCauseProofs`): an amortised count. A version of a Secret or
  of the ConfigMap that the template has yet to name is *due*; `CauseInv` bounds rollouts
  plus `Debt`, the number of versions due, by what the environment spent plus three before
  the first rollout (the three first versions, used up together) and one after. A rollout
  pays at least one unit of the debt, because versions only grow (`OrderInv`: a sync never
  names a version behind the template's). Retries, crashes and lost replies leave both
  sides alone.
* `RolloutRefines` (`RolloutCauseProofs`): `RolloutHistory` implements `RolloutContract`.
  `FitInv`: every version with keys in a Secret's log, and the ConfigMap's version while it
  is the manifest's, was fit at some time and is written down; so is each version the sync
  has collected, and none of these is behind the template's. The rollout names just what was
  collected.

*Ownership.* `OwnersNeverGoBack`: `Forward`: no owner is ahead of the CRs created; while a
sync holds a UID no owner and no late write is ahead of it; and a late write whose version is
still current is not behind its object's owner. A write therefore moves an owner forward or does not land. `SyncsLeaveOwned`:
`CacheRight`: an entry names the object's owner, because every foreign write voids it;
`Progress`: in an undisturbed sync all objects behind the worker are the present CR's.

*Processes.* `CachesBeforeSyncs`: `Fed`: a controller past the wait has all its informers
synced, and nothing unsyncs one while its process lives. `AtMostOneActs` assumes nothing of
the lease times: `LeaderHolds`: unless a lease was robbed or lapsed, whoever leads holds the
lease. `NobodyIsOvertaken`: `Patient`: the lease of a process that leads is no older than the
time it has been unable to renew, and `Tick` never lets that pass `GiveUp`; where
`GiveUp < LeaseDuration` no candidate finds the lease of a leader available. On a single node
the premise fails and the theorem is silent.
`ElectedWork`: only leading
or leaving processes have controllers at all. `NoWaitInVain`: `Wired` says, for each step of
RunOperator, which informers have been requested and which started by then; with
`ElectedWork` (a candidate has no controllers left over) it shows that a controller never
waits for, or reads, a cache that nobody fills: a safety core of `OperatorRuns`.

All safety properties of the runs are proved. Only model-checked are the liveness
properties, which need fairness and are out of the prover's reach: `Converges`,
`MissingDependencyReported`, `ComesToRest`, `EverythingApplied`, `BundleRecovers`,
`SpecsRepaired`, `OperatorRuns`, `OperandFollowsCr`, `OperandLeavesWithCr`.

## 5. Not modelled

* *Rendering*: arguments, node placement, placeholders, the ServiceMonitor's text. These are
  pure functions from the CR's spec to text; no property here tells two results apart. One
  observation from reading: the ServiceMonitor's server name takes the namespace of the
  manifest's Service (`target_config_reconciler.go:652`), not the one the operator installs
  into, which differ only outside the default namespace.
* *Log level controller*: it reads the CR's lister and sets its own process's verbosity.
* *Deepcopy code, apply configuration setters, fakes*, and methods of the clients nobody
  calls (`UpdateOperatorSpec`, `ApplyOperatorSpec`, `PatchOperatorStatus`, `GetObjectMeta`).
* *HTTP server, file observer, election jitter*: the observer's restart is `SigTerm` in
  effect, the jitter only decides which candidate acquires.
* *Several workers or keys*: the program has one of each.
* *Contents of the manifests, bundle and tests*: assets, read for what they claim.
* *Clock skew between processes*: the lease's times are compared on one clock; library-go's
  30 s allowance for skew is not spent in the model.

The modules are not composed into one state machine (section 2). What a composition would
add is a second process's sync racing the first one's during a hand-over; each module's
budget of foreign writes and half-failed calls at any moment, and `Ownership`'s late
write, stand for that second writer.
