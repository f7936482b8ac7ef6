--------------------------- MODULE OperandRollout ---------------------------
(***************************************************************************)
(* The ordered pipeline inside sync(): the manage* calls that apply the    *)
(* operand's manifests one after the other, the two checks that            *)
(* cert-manager has filled a Secret, and the Deployment at the end, whose  *)
(* pod template carries the resourceVersions of the Secrets and of the     *)
(* ConfigMap so that a new certificate or configuration rolls the operand  *)
(* out again.                                                              *)
(*                                                                         *)
(* TargetConfigController models what sync() does before and after the     *)
(* pipeline, and the races around the Deployment and the CR; here the CR   *)
(* is managed, cert-manager is installed and each call is one step.  A     *)
(* call that meets another writer between its Get and its write fails      *)
(* without effect, like any failing call.                                  *)
(***************************************************************************)
EXTENDS Integers, Sequences

CONSTANTS
    Touchable,  \* objects people edit or delete
    MaxLag,     \* bound: versions the Secret informer may be behind
    Limit,      \* bound: how often the environment does each kind of step
    MaxDisturbances,  \* bound: how many such steps it takes in all
    ResyncEnabled  \* does the periodic resync run (FALSE: events and retries alone)

EnvironmentSteps == {"touch", "rotate", "loseSecret", "apiFailure", "crash"}

\* The calls of sync(), in the order of the code.
Pipeline ==
    <<"ClusterRoleManager", "ClusterRoleMetrics", "ClusterRoleProxy",
      "ClusterRoleBindingManager", "ClusterRoleBindingMetrics", "ClusterRoleBindingProxy",
      "Role", "RoleMonitoring", "RoleBinding", "RoleBindingMonitoring",
      "ServiceWebhook", "IssuerCR", "CertificateWebhookCR", "WebhookSecret",
      "CertificateMetricsCR", "MetricsSecret", "Configmap", "CustomResourceDefinition",
      "ServiceAccount", "ServiceController", "MutatingWebhook", "ValidatingWebhook",
      "ServiceMonitor", "Deployments">>

Secrets == {"WebhookSecret", "MetricsSecret"}
Objects == {Pipeline[i] : i \in 1..Len(Pipeline)} \ (Secrets \cup {"Deployments"})

\* What the pod template's annotations name.
Annotated == Secrets \cup {"Configmap"}

\* The applies that share the reconciler's resourceCache.
Unstructured == {"IssuerCR", "CertificateWebhookCR", "CertificateMetricsCR", "ServiceMonitor"}
Memoized == Unstructured \cup {"MutatingWebhook", "ValidatingWebhook"}

\* Their roleRef is immutable: an Update that would change it is refused.
Bindings == {"ClusterRoleBindingManager", "ClusterRoleBindingMetrics", "ClusterRoleBindingProxy",
             "RoleBinding", "RoleBindingMonitoring"}

\* An apply compares a Service's metadata, selector and type with the manifest, nothing else.
Services == {"ServiceWebhook", "ServiceController"}

\* What an object holds; "required" is whatever agrees with the manifest wherever that says
\* something.  What differs from it is "otherRole" when it is a binding's roleRef, "unhooked"
\* when it is a CRD without its conversion webhook, "overlooked" when it is, of a Service,
\* nothing an apply compares (its ports), and "foreign" otherwise.
Contents == {"absent", "foreign", "otherRole", "unhooked", "overlooked", "required"}

ASSUME TouchableAssumption == Touchable \subseteq Objects
ASSUME LimitAssumption == /\ Limit \in [EnvironmentSteps -> Nat]
                          /\ MaxDisturbances \in Nat
                          /\ MaxLag \in Nat \ {0}

VARIABLES
    object,       \* the API server's copy of each applied object
    secret,       \* versions of each Secret from the informer's (first) to the live (last)
    template,     \* annotations of the live Deployment's pod template; NoVersions: no Deployment
    running,      \* is the operator process up
    step,         \* position of the worker in the pipeline, 0 when idle
    annotations,  \* sync()'s specAnnotations
    cache,        \* resourceCache: the version an object had when it held the manifest, 0: none
    news,         \* the ConfigMap informer has an event to deliver
    queued,       \* the controller's only key is in the work queue
    retry,        \* the key waits out its rate-limited backoff
    rollouts,     \* history: how often the pod template changed
    used          \* used[k]: how often the environment has done k

vars == <<object, secret, template, running, step, annotations, cache, news, queued,
          retry, rollouts, used>>
worker == <<running, step, annotations, cache, retry>>

-----------------------------------------------------------------------------
Object == [content : Contents, version : Nat]
SecretVersion == [data : {"absent", "empty", "keys"}, version : Nat]
NoVersions == [a \in Annotated |-> 0]

Cached(s) == secret[s][1]
Live(s) == secret[s][Len(secret[s])]
Room(s) == Len(secret[s]) <= MaxLag

CurrentVersions ==
    [a \in Annotated |-> IF a = "Configmap" THEN object[a].version ELSE Live(a).version]

\* A lost Secret counts twice, since it is reissued besides.
Disturbances == used["touch"] + used["rotate"] + 2 * used["loseSecret"] + used["apiFailure"]
                + used["crash"]

Spend(k) == /\ used[k] < Limit[k]
            /\ used' = [used EXCEPT ![k] = @ + 1]
            /\ Disturbances' <= MaxDisturbances

\* What people may leave in the place of o.
Damage(o) == {"absent", "foreign"} \cup (IF o \in Bindings THEN {"otherRole"} ELSE {})
                                  \cup (IF o \in Services THEN {"overlooked"} ELSE {})
                                  \cup (IF o = "CustomResourceDefinition" THEN {"unhooked"} ELSE {})

Store(o, content) ==
    /\ object' = [object EXCEPT ![o] = [content |-> content, version |-> @.version + 1]]
    /\ news' = (news \/ o = "Configmap")

StoreSecret(s, data) ==
    secret' = [secret EXCEPT
        ![s] = Append(@, [data |-> data, version |-> Live(s).version + 1])]

\* The worker is at the call named o.
At(o) == running /\ step > 0 /\ Pipeline[step] = o

\* Fault: one step too many.
AdvancePast ==
    /\ step' = IF step <= Len(Pipeline) THEN step + 1 ELSE 0
    /\ UNCHANGED retry

\* The process is gone, and with it what it held in memory.
Down ==
    /\ running' = FALSE
    /\ step' = 0
    /\ annotations' = NoVersions
    /\ cache' = [o \in Memoized |-> 0]
    /\ queued' = FALSE
    /\ retry' = FALSE

\* The next call; after the last one sync() is done.
Advance ==
    /\ step' = IF step < Len(Pipeline) THEN step + 1 ELSE 0
    /\ UNCHANGED retry

\* Fault: the error of a call is dropped.
ErrorDropped == Advance

\* sync() returns the error: the item is retried with backoff.
Fail ==
    /\ step' = 0
    /\ retry' = TRUE

-----------------------------------------------------------------------------
(* The calls                                                                *)

Dequeue ==
    /\ running /\ step = 0 /\ queued
    /\ step' = 1
    /\ annotations' = NoVersions
    /\ queued' = FALSE
    /\ UNCHANGED <<object, secret, template, running, cache, news, retry, rollouts, used>>

\* Fault: the cache remembers that the object was applied, not which version of it.
SkipOnceApplied(o) == o \in Memoized /\ object[o].content # "absent" /\ cache[o] > 0

\* SafeToSkipApply: the object is still at the version that held the manifest.
SafeToSkip(o) ==
    o \in Memoized /\ object[o].content # "absent" /\ cache[o] = object[o].version

\* What the cache holds once o was skipped, found right or made right.  An Update of an unstructured
\* object is filed under the merged object's hash, which no manifest ever matches.
Remembered(o) ==
    IF o \notin Memoized \/ SafeToSkip(o) THEN cache
    ELSE [cache EXCEPT ![o] = IF o \in Unstructured /\ object[o].content = "foreign"
                              THEN 0 ELSE object'[o].version]

\* The manifest's content, or the edited ports of a Service, which are kept.
Keep(o) ==
    /\ SafeToSkip(o) \/ object[o].content \in {"required", "overlooked"}
    /\ UNCHANGED <<object, news>>

\* Fault: the ConfigMap is updated whether or not it differs.
WriteConfigmapAnyway(o) ==
    /\ ~SafeToSkip(o)
    /\ object[o].content \in {"absent", "foreign"} \/ o = "Configmap"
    /\ Store(o, "required")

\* A Service is stomped over whole once its metadata, selector or type differ.
Write(o) ==
    /\ ~SafeToSkip(o)
    /\ object[o].content \in {"absent", "foreign"}
    /\ Store(o, "required")

\* The API server refuses the Update of a binding that refers to another role.
Refused(o) == object[o].content = "otherRole"

\* manageCustomResourceDefinition copies the CA bundle out of the live CRD's conversion
\* webhook, without asking whether there is one.
Panics(o) == object[o].content = "unhooked"

\* manage*: one call of the pipeline that applies a manifest.
Apply(o) ==
    /\ At(o)
    /\ \/ /\ Keep(o) \/ Write(o)
          /\ cache' = Remembered(o)
          /\ annotations' = IF o \in Annotated
                            THEN [annotations EXCEPT ![o] = object'[o].version]
                            ELSE annotations
          /\ Advance
          /\ UNCHANGED <<running, queued, used>>
       \/ /\ Refused(o)
          /\ Fail
          /\ UNCHANGED <<object, news, running, queued, cache, annotations, used>>
       \/ /\ Panics(o)
          /\ Down
          /\ UNCHANGED <<object, news, used>>
       \/ /\ Spend("apiFailure")          \* error, or the reply is lost
          /\ \/ UNCHANGED <<object, news>>
             \/ Write(o)
          /\ Fail
          /\ UNCHANGED <<running, queued, cache, annotations>>
    /\ UNCHANGED <<secret, template, rollouts>>

\* Fault: a Secret that exists is taken for one that is ready.
CheckSecretExists(s) ==
    /\ At(s)
    /\ \/ /\ Cached(s).data # "absent"
          /\ annotations' = [annotations EXCEPT ![s] = Cached(s).version]
          /\ Advance
       \/ /\ Cached(s).data = "absent"
          /\ Fail
          /\ UNCHANGED annotations
    /\ UNCHANGED <<object, secret, template, running, cache, news, queued, rollouts, used>>

\* checkSecretReady reads the lister: the Secret must exist and hold both keys.
CheckSecretReady(s) ==
    /\ At(s)
    /\ \/ /\ Cached(s).data = "keys"
          /\ annotations' = [annotations EXCEPT ![s] = Cached(s).version]
          /\ Advance
       \/ /\ Cached(s).data # "keys"
          /\ Fail
          /\ UNCHANGED annotations
    /\ UNCHANGED <<object, secret, template, running, cache, news, queued, rollouts, used>>

\* manageDeployments renders the annotations into the pod template and applies it; an API
\* failure here stands also for one of the status update that follows.
ManageDeployments ==
    /\ At("Deployments")
    /\ \/ /\ template' = annotations
          /\ Advance
          /\ UNCHANGED used
       \/ /\ Spend("apiFailure")
          /\ template' \in {template, annotations}
          /\ Fail
    /\ rollouts' = IF template' # template THEN rollouts + 1 ELSE rollouts
    /\ UNCHANGED <<object, secret, running, annotations, cache, news, queued>>

-----------------------------------------------------------------------------
(* What feeds the queue                                                     *)

RetryAfterBackoff ==
    /\ running /\ retry
    /\ retry' = FALSE
    /\ queued' = TRUE
    /\ UNCHANGED <<object, secret, template, running, step, annotations, cache, news,
                   rollouts, used>>

\* The five-minute resync; events of the CR and the Deployment enqueue the key likewise.
PeriodicResync ==
    /\ ResyncEnabled /\ running /\ ~queued
    /\ queued' = TRUE
    /\ UNCHANGED <<object, secret, template, worker, news, rollouts, used>>

\* Fault: the Secret informer only refreshes its store.
SecretEventUnheard(s) ==
    /\ running /\ Len(secret[s]) > 1
    /\ secret' = [secret EXCEPT ![s] = Tail(@)]
    /\ UNCHANGED <<object, template, worker, news, queued, rollouts, used>>

SecretEvent(s) ==
    /\ running /\ Len(secret[s]) > 1
    /\ secret' = [secret EXCEPT ![s] = Tail(@)]
    /\ queued' = TRUE
    /\ UNCHANGED <<object, template, worker, news, rollouts, used>>

ConfigMapEvent ==
    /\ running /\ news
    /\ news' = FALSE
    /\ queued' = TRUE
    /\ UNCHANGED <<object, secret, template, worker, rollouts, used>>

-----------------------------------------------------------------------------
(* The environment                                                          *)

Crash ==
    /\ running
    /\ Spend("crash")
    /\ Down
    /\ UNCHANGED <<object, secret, template, news, rollouts>>

\* The informers' initial lists and the resync's first tick enqueue the key.
Restart ==
    /\ ~running
    /\ running' = TRUE
    /\ queued' = TRUE
    /\ UNCHANGED <<object, secret, template, step, annotations, cache, news, retry,
                   rollouts, used>>

\* A binding gets another roleRef, or its own back, by being deleted and created again; an
\* edit of a Service that is compared hides one that is not.
Touch(o) ==
    /\ Spend("touch")
    /\ object[o].content # "absent"
    /\ \E damage \in Damage(o) :
        /\ damage = "foreign" => ~Refused(o)
        /\ damage = "overlooked" => object[o].content = "required"
        /\ Store(o, damage)
    /\ UNCHANGED <<secret, template, worker, queued, rollouts>>

Certificate(s) == IF s = "WebhookSecret" THEN "CertificateWebhookCR" ELSE "CertificateMetricsCR"

\* cert-manager serves the Certificates the operator asks for.
Requested(s) ==
    /\ object["IssuerCR"].content = "required"
    /\ object[Certificate(s)].content = "required"

\* It may create the Secret before it fills in the keys.
IssueSecret(s) ==
    /\ Requested(s) /\ Live(s).data # "keys" /\ Room(s)
    /\ \/ StoreSecret(s, "keys")
       \/ Live(s).data = "absent" /\ StoreSecret(s, "empty")
    /\ UNCHANGED <<object, template, worker, news, queued, rollouts, used>>

RotateSecret(s) ==
    /\ Spend("rotate")
    /\ Requested(s) /\ Live(s).data = "keys" /\ Room(s)
    /\ StoreSecret(s, "keys")
    /\ UNCHANGED <<object, template, worker, news, queued, rollouts>>

LoseSecret(s) ==
    /\ Spend("loseSecret")
    /\ Live(s).data # "absent" /\ Room(s)
    /\ StoreSecret(s, "absent")
    /\ UNCHANGED <<object, template, worker, news, queued, rollouts>>

-----------------------------------------------------------------------------
Init ==
    /\ object = [o \in Objects |-> [content |-> "absent", version |-> 0]]
    /\ secret = [s \in Secrets |-> <<[data |-> "absent", version |-> 0]>>]
    /\ template = NoVersions
    /\ running = TRUE
    /\ step = 0
    /\ annotations = NoVersions
    /\ cache = [o \in Memoized |-> 0]
    /\ news = FALSE
    /\ queued = TRUE
    /\ retry = FALSE
    /\ rollouts = 0
    /\ used = [k \in EnvironmentSteps |-> 0]

Worker ==
    \/ Dequeue
    \/ \E o \in Objects : Apply(o)
    \/ \E s \in Secrets : CheckSecretReady(s)
    \/ ManageDeployments

Next ==
    \/ Worker
    \/ RetryAfterBackoff \/ PeriodicResync \/ ConfigMapEvent
    \/ Crash \/ Restart
    \/ \E s \in Secrets : SecretEvent(s) \/ IssueSecret(s) \/ RotateSecret(s) \/ LoseSecret(s)
    \/ \E o \in Touchable : Touch(o)

\* The worker, its timers, the informers, the kubelet and cert-manager keep running;
\* people, failures, rotations and crashes owe nothing.
Fairness ==
    /\ WF_vars(Worker)
    /\ WF_vars(RetryAfterBackoff)
    /\ WF_vars(PeriodicResync)
    /\ WF_vars(ConfigMapEvent)
    /\ WF_vars(Restart)
    /\ \A s \in Secrets : WF_vars(SecretEvent(s)) /\ WF_vars(IssueSecret(s))

Spec == Init /\ [][Next]_vars
FairSpec == Spec /\ Fairness

-----------------------------------------------------------------------------
(* Properties                                                               *)

\* Type invariant: the worker stays inside the pipeline, every log holds at least the
\* version the informer shows.
TypeOK ==
    /\ object \in [Objects -> Object]
    /\ \A o \in Objects : object[o].content = "required" \/ object[o].content \in Damage(o)
    /\ secret \in [Secrets -> Seq(SecretVersion)]
    /\ \A s \in Secrets : Len(secret[s]) > 0
    /\ template \in [Annotated -> Nat]
    /\ running \in BOOLEAN
    /\ step \in 0..Len(Pipeline)
    /\ annotations \in [Annotated -> Nat]
    /\ cache \in [Memoized -> Nat]
    /\ news \in BOOLEAN
    /\ queued \in BOOLEAN
    /\ retry \in BOOLEAN
    /\ rollouts \in Nat
    /\ used \in [EnvironmentSteps -> Nat]

\* No work, no backoff, no event on its way.
Settled == /\ running /\ step = 0 /\ ~queued /\ ~retry /\ ~news
           /\ \A s \in Secrets : Len(secret[s]) = 1

\* No certificate or configuration change is missed: whenever the controller has nothing
\* left to do, the operand runs with usable Secrets and the pod template names the live
\* versions of both Secrets and of the ConfigMap, in whatever order certificates were
\* rotated, lost and reissued while a sync was reading them.
RolledOut ==
    Settled => /\ template = CurrentVersions
               /\ \A s \in Secrets : Live(s).data = "keys"
               /\ object["Configmap"].content = "required"

\* The operand is never restarted for nothing: the pod template changes once for the first
\* rollout and at most once more for each rotated or lost Secret and each change people
\* make; retries, resyncs, lost replies and crashes of the operator cost no rollout.
RolloutsHaveCause ==
    rollouts <= 1 + used["rotate"] + used["loseSecret"] + used["touch"]

\* The order of the pipeline is a barrier: as long as people leave the objects alone, a
\* Deployment exists only after every other manifest was really applied, whichever call
\* failed half-way and however often the pipeline was restarted.
DeploymentComesLast ==
    rollouts > 0 /\ used["touch"] = 0 => \A o \in Objects : object[o].content = "required"

\* An object the cache lets an apply skip is the required one, although the cache never
\* looks at the object's contents and some updates are filed under a hash that is not the
\* manifest's.
SkipsAreSound == \A o \in Objects : SafeToSkip(o) => object[o].content = "required"

\* What the call at position i maintains is as required.
Maintained(i) ==
    LET call == Pipeline[i] IN
    CASE call = "Deployments" -> template = CurrentVersions
      [] call \in Secrets -> Live(call).data = "keys"
      [] OTHER -> object[call].content = "required"

\* No sync gets past the call of o.
Blocks(o) == o \in Objects /\ (Refused(o) \/ Panics(o))

\* The pipeline gets through although it stops half-way until cert-manager has answered,
\* and in the end every object, watched or not, is back to its manifest whatever people
\* did to it, with two exceptions.  Edits of a Service that its apply does not compare are
\* kept.  A binding with another roleRef ends every sync at its call, and a CRD without its
\* webhook kills the operator there: what comes before that call is maintained, the rest
\* may drift.
EverythingApplied ==
    <>[](\A i \in 1..Len(Pipeline) :
            \/ Maintained(i)
            \/ Pipeline[i] \in Services /\ object[Pipeline[i]].content = "overlooked"
            \/ \E j \in 1..i : Blocks(Pipeline[j]))

=============================================================================
