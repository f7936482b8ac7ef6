--------------------------- MODULE OperatorProcess ---------------------------
(***************************************************************************)
(* The life of the operator's processes around the sync loops: the command *)
(* campaigns for a lease, the leader runs RunOperator, which builds        *)
(* clients, requests and starts informers and launches the controllers;    *)
(* they wait for their caches and work until the process is told to stop,  *)
(* loses its lease or dies.  Several processes exist at once while the     *)
(* operator's pod is replaced.                                             *)
(*                                                                         *)
(* What a sync of TargetConfigController does is the subject of the module *)
(* of that name.  The log level controller touches nothing but the         *)
(* process's own verbosity and is left out.                                *)
(***************************************************************************)
EXTENDS Naturals

CONSTANTS
    Processes,      \* pods of the operator, the leaving and the coming one
    Topologies,     \* of the control plane; the builder derives the lease's times from it
    GiveUp,         \* RetryPeriod + RenewDeadline: a leader that cannot renew stops leading
    LeaseDuration,  \* a lease that was not renewed for so long may be taken over
    Limit,          \* bound, per topology: how often the environment does each kind of step
    MaxDisturbances \* bound: how many such steps it takes in all

Free == "free"       \* the lease has no holder
Orphan == "orphan"   \* its holder died: no process has that identity any more
Kinds == {"sigterm", "kill", "apiFailure"}

ASSUME NamesAssumption == Free \notin Processes /\ Orphan \notin Processes
\* Nothing is assumed of how LeaseDuration compares with GiveUp: it is longer (137 s and
\* 26 s + 107 s) with the usual times and shorter (270 s and 60 s + 240 s) on a single node.
ASSUME LeaseAssumption == /\ GiveUp \in [Topologies -> Nat]
                          /\ LeaseDuration \in [Topologies -> Nat]
ASSUME LimitAssumption == Limit \in [Topologies -> [Kinds -> Nat]] /\ MaxDisturbances \in Nat

VARIABLES
    topology,   \* what DetectTopology finds; it does not change
    lease,      \* holder of the Lease object
    age,        \* time without a renewal of the Lease object, up to LeaseDuration
    elector,    \* the process's main goroutine: the leader election loop
    since,      \* since[p]: time p has led without being able to renew its lease
    told,       \* is the context of the controllers cancelled
    runner,     \* the goroutine of RunOperator: its next step
    informers,  \* state of each informer of the two factories
    ctl,        \* TargetConfigController's goroutines: Run and its one worker
    robbed,     \* history: a release cleared the lease of another process
    lapsed,     \* history: a lease was taken over while its holder still led;
                \* both are forgotten when a process takes the lease and no other leads
    used        \* used[k]: how often the environment has done k

history == <<robbed, lapsed>>
election == <<topology, lease, age, since, history>>
work == <<runner, informers, ctl>>
vars == <<election, elector, told, work, used>>

Disturbances == used["sigterm"] + used["kill"] + used["apiFailure"]

Spend(k) == /\ used[k] < Limit[topology][k]
            /\ Disturbances < MaxDisturbances
            /\ used' = [used EXCEPT ![k] = @ + 1]

-----------------------------------------------------------------------------
(* Informers and factories                                                  *)

OperatorInformers == {"cr"}
KubeInformers == {"deployments", "configmaps", "secrets"}
Informers == OperatorInformers \cup KubeInformers
InformerState == {"absent", "requested", "started", "synced"}

\* A new process makes new factories, with no informer in them.
NoInformers == [i \in Informers |-> "absent"]

\* InformerFor: a type's informer is made when it is first asked for.
Requested(f, S) == [i \in Informers |-> IF i \in S /\ f[i] = "absent" THEN "requested" ELSE f[i]]

\* StartWithContext runs the informers known so far, each of them once.
Started(f, S) == [i \in Informers |-> IF i \in S /\ f[i] = "requested" THEN "started" ELSE f[i]]

\* Fault: the Secrets' informer is not among the reconciler's.
WaitsForWithoutSecrets == {"cr", "deployments", "configmaps"}

\* WithInformers: whose caches the reconciler waits for, and whose events wake it.
WaitsFor == {"cr", "deployments", "configmaps", "secrets"}

\* The listers made while wiring; each asks the factory for its informer.
Listers == {"cr", "deployments"}

\* What its sync reads from listers.
Reads == {"cr", "deployments", "secrets"}

-----------------------------------------------------------------------------
(* Leader election and the process                                          *)

\* Renewing its lease, or trying to while nothing gets through to the API server.
Leads(p) == elector[p] \in {"leading", "cutOff"}

\* The process is gone, with everything in its memory.
Die(p) ==
    /\ elector' = [elector EXCEPT ![p] = "down"]
    /\ told' = [told EXCEPT ![p] = FALSE]
    /\ since' = [since EXCEPT ![p] = 0]
    /\ runner' = [runner EXCEPT ![p] = "none"]
    /\ informers' = [informers EXCEPT ![p] = NoInformers]
    /\ ctl' = [ctl EXCEPT ![p] = "none"]
    /\ lease' = IF lease = p THEN Orphan ELSE lease
    /\ UNCHANGED <<topology, age, history>>

\* main runs the operator command, which enters the election under a new identity.
Start(p) ==
    /\ elector[p] = "down"
    /\ elector' = [elector EXCEPT ![p] = "campaigning"]
    /\ UNCHANGED <<election, told, work, used>>

\* Fault: candidates take a lease over one unit of time early.
AvailableEarly == lease = Free \/ age + 1 >= LeaseDuration[topology]

\* A lease without a holder, or one that expired, may be taken.
Available == lease = Free \/ age >= LeaseDuration[topology]

OtherLeaders(p) == {q \in Processes \ {p} : Leads(q)}

\* tryAcquireOrRenew writes the Lease.
Take(p) ==
    /\ lease' = p
    /\ age' = 0
    /\ since' = [since EXCEPT ![p] = 0]
    /\ robbed' = (robbed /\ OtherLeaders(p) # {})
    /\ lapsed' = ((lapsed /\ OtherLeaders(p) # {}) \/ lease \in OtherLeaders(p))
    /\ UNCHANGED topology

\* OnStartedLeading runs RunOperator.
Acquire(p) ==
    /\ elector[p] = "campaigning" /\ ~told[p]
    /\ Available
    /\ Take(p)
    /\ elector' = [elector EXCEPT ![p] = "leading"]
    /\ runner' = [runner EXCEPT ![p] = "clients"]
    /\ UNCHANGED <<told, informers, ctl, used>>

Renewable(p) == lease = p \/ Available

Renew(p) ==
    /\ elector[p] = "leading" /\ ~told[p]
    /\ Renewable(p)
    /\ Take(p)
    /\ UNCHANGED <<elector, told, work, used>>

\* From the last renewal on no attempt gets through; one does again.
CutOff(p) ==
    /\ elector[p] = "leading" /\ ~told[p]
    /\ Spend("apiFailure")
    /\ elector' = [elector EXCEPT ![p] = "cutOff"]
    /\ UNCHANGED <<election, told, work>>

Reconnect(p) ==
    /\ elector[p] = "cutOff" /\ ~told[p]
    /\ elector' = [elector EXCEPT ![p] = "leading"]
    /\ UNCHANGED <<election, told, work, used>>

\* The renew loop ends on request, or when no attempt was successful for RenewDeadline.
\* Attempts that met another holder, and only these, let the process know it lost.
StopRenewing(p) ==
    /\ Leads(p)
    /\ told[p] \/ since[p] >= GiveUp[topology]
    /\ \/ /\ elector' = [elector EXCEPT ![p] = "releasing"]
          /\ elector[p] = "cutOff" \/ told[p]
          /\ UNCHANGED told
       \/ /\ elector[p] = "leading" /\ lease \notin {p, Free}
          /\ elector' = [elector EXCEPT ![p] = "exiting"]
          /\ told' = [told EXCEPT ![p] = TRUE]
    /\ since' = [since EXCEPT ![p] = 0]
    /\ UNCHANGED <<topology, lease, age, history, work, used>>

\* release gets the Lease and empties its holder, whoever that is by now; only then are
\* the controllers' context cancelled and OnStoppedLeading called.
Release(p) ==
    /\ elector[p] = "releasing"
    /\ \/ /\ lease' = Free
          /\ age' = 0
          /\ robbed' = (robbed \/ lease \in Processes \ {p})
          /\ UNCHANGED <<topology, since, lapsed, used>>
       \/ /\ Spend("apiFailure")
          /\ UNCHANGED election
    /\ elector' = [elector EXCEPT ![p] = "exiting"]
    /\ told' = [told EXCEPT ![p] = TRUE]
    /\ UNCHANGED work

\* Fault: a process that stopped leading does not take its workers down.
ExitAlone(p) ==
    /\ elector[p] = "exiting" \/ (elector[p] = "campaigning" /\ told[p])
    /\ elector' = [elector EXCEPT ![p] = "down"]
    /\ told' = [told EXCEPT ![p] = FALSE]
    /\ UNCHANGED <<election, work, used>>

\* OnStoppedLeading exits at once, whatever the workers are doing; a candidate told to
\* stop has nothing to release.
Exit(p) ==
    /\ elector[p] = "exiting" \/ (elector[p] = "campaigning" /\ told[p])
    /\ Die(p)
    /\ UNCHANGED used

\* A lease its holder can renew does not age.
Elapse ==
    /\ age' = IF /\ lease # Free /\ age < LeaseDuration[topology]
                 /\ \A p \in Processes : lease = p => elector[p] # "leading"
              THEN age + 1 ELSE age
    /\ since' = [p \in Processes |->
                   IF elector[p] = "cutOff" \/ (elector[p] = "leading" /\ ~Renewable(p))
                   THEN since[p] + 1 ELSE since[p]]
    /\ <<age, since>>' # <<age, since>>
    /\ UNCHANGED <<topology, lease, history, elector, told, work, used>>

\* Fault: nobody gives up in time.
TickOn == Elapse

\* Time passes; whoever has to give up does so on time.
Tick ==
    /\ \A p \in Processes : Leads(p) => since[p] < GiveUp[topology]
    /\ Elapse

-----------------------------------------------------------------------------
(* RunOperator                                                              *)

Goto(p, here, there) == runner[p] = here /\ runner' = [runner EXCEPT ![p] = there]

\* An error of RunOperator ends the process with a non-zero exit, the lease unreleased.
FailToBuild(p) == Spend("apiFailure") /\ Die(p)

\* The clients of the libraries.
BuildClients(p) ==
    /\ runner[p] = "clients"
    /\ \/ /\ Goto(p, "clients", "clientset")
          /\ UNCHANGED <<election, elector, told, informers, ctl, used>>
       \/ FailToBuild(p)

\* The clientset for the operator's own API group.
NewForConfig(p) ==
    /\ runner[p] = "clientset"
    /\ \/ /\ Goto(p, "clientset", "wire")
          /\ UNCHANGED <<election, elector, told, informers, ctl, used>>
       \/ FailToBuild(p)

\* NewLeaderWorkerSetClient takes the CR's informer and lister, NewTargetConfigReconciler
\* what it lists and what it is woken by.
NewTargetConfigReconciler(p) ==
    /\ Goto(p, "wire", "startOperator")
    /\ informers' = [informers EXCEPT
                         ![p] = Requested(@, Listers \cup WaitsFor)]
    /\ UNCHANGED <<election, elector, told, ctl, used>>

StartOperatorInformers(p) ==
    /\ Goto(p, "startOperator", "startKube")
    /\ informers' = [informers EXCEPT ![p] = Started(@, OperatorInformers)]
    /\ UNCHANGED <<election, elector, told, ctl, used>>

\* Fault: nobody starts the informers of the operand's namespace.
ForgetKubeInformers(p) ==
    /\ Goto(p, "startKube", "launch")
    /\ UNCHANGED <<election, elector, told, informers, ctl, used>>

StartKubeInformers(p) ==
    /\ Goto(p, "startKube", "launch")
    /\ informers' = [informers EXCEPT ![p] = Started(@, KubeInformers)]
    /\ UNCHANGED <<election, elector, told, ctl, used>>

\* Then RunOperator sits on the context and returns without waiting for the controllers.
LaunchControllers(p) ==
    /\ Goto(p, "launch", "launched")
    /\ ctl' = [ctl EXCEPT ![p] = "waiting"]
    /\ UNCHANGED <<election, elector, told, informers, used>>

RunOperator(p) ==
    \/ BuildClients(p) \/ NewForConfig(p) \/ NewTargetConfigReconciler(p)
    \/ StartOperatorInformers(p) \/ StartKubeInformers(p) \/ LaunchControllers(p)

-----------------------------------------------------------------------------
(* Informers and controllers at work                                        *)

\* The initial list fills the store.
InitialList(p, i) ==
    /\ informers[p][i] = "started" /\ ~told[p]
    /\ informers' = [informers EXCEPT ![p][i] = "synced"]
    /\ UNCHANGED <<election, elector, told, runner, ctl, used>>

Move(p, here, there) == ctl[p] = here /\ ctl' = [ctl EXCEPT ![p] = there]

CachesSynced(p) ==
    /\ Move(p, "waiting", "idle")
    /\ \A i \in WaitsFor : informers[p][i] = "synced"
    /\ UNCHANGED <<election, elector, told, runner, informers, used>>

\* Caches that do not sync within ten minutes end the process.
CacheSyncTimeout(p) ==
    /\ ctl[p] = "waiting" /\ ~told[p]
    /\ \E i \in WaitsFor : informers[p][i] # "synced"
    /\ Spend("apiFailure")
    /\ Die(p)

\* Events or the resync wake the reconciler; its Secret lister asks the factory for the
\* informer again.
BeginSync(p) ==
    /\ Move(p, "idle", "syncing")
    /\ informers' = [informers EXCEPT ![p] = Requested(@, {"secrets"})]
    /\ UNCHANGED <<election, elector, told, runner, used>>

EndSync(p) ==
    /\ Move(p, "syncing", "idle")
    /\ UNCHANGED <<election, elector, told, runner, informers, used>>

\* Told to stop, Run returns while it waits for caches, or shuts the queue and waits for
\* the sync under way.
StopController(p) ==
    /\ told[p]
    /\ Move(p, "waiting", "done") \/ Move(p, "idle", "done")
    /\ UNCHANGED <<election, elector, told, runner, informers, used>>

Run(p) == CachesSynced(p) \/ StopController(p)

-----------------------------------------------------------------------------
(* The environment                                                          *)

SigTerm(p) ==
    /\ elector[p] = "campaigning" \/ Leads(p)
    /\ ~told[p]
    /\ Spend("sigterm")
    /\ told' = [told EXCEPT ![p] = TRUE]
    /\ UNCHANGED <<election, elector, work>>

Kill(p) ==
    /\ elector[p] # "down"
    /\ Spend("kill")
    /\ Die(p)

-----------------------------------------------------------------------------
Init ==
    /\ topology \in Topologies
    /\ lease = Free
    /\ age = 0
    /\ elector = [p \in Processes |-> "down"]
    /\ told = [p \in Processes |-> FALSE]
    /\ since = [p \in Processes |-> 0]
    /\ runner = [p \in Processes |-> "none"]
    /\ informers = [p \in Processes |-> NoInformers]
    /\ ctl = [p \in Processes |-> "none"]
    /\ robbed = FALSE
    /\ lapsed = FALSE
    /\ used = [k \in Kinds |-> 0]

\* The main goroutine: the kubelet starts it, the rest is the election.
Elector(p) == Start(p) \/ Renew(p) \/ StopRenewing(p) \/ Release(p) \/ Exit(p)

\* The goroutines of RunOperator, of the informers and of the controller outside a sync.
Launching(p) == RunOperator(p) \/ (\E i \in Informers : InitialList(p, i)) \/ Run(p)

Next ==
    \/ Tick
    \/ \E p \in Processes :
        \/ Acquire(p) \/ Elector(p) \/ CutOff(p) \/ Reconnect(p)
        \/ Launching(p)
        \/ CacheSyncTimeout(p) \/ BeginSync(p) \/ EndSync(p)
        \/ SigTerm(p) \/ Kill(p)

\* The kubelet starts processes, candidates keep trying, time passes and every goroutine
\* is scheduled until its work is done; signals, kills and failures owe nothing.
Fairness ==
    /\ WF_vars(Tick)
    /\ WF_vars(\E p \in Processes : Acquire(p))
    /\ \A p \in Processes : WF_vars(Elector(p)) /\ WF_vars(Launching(p))

Spec == Init /\ [][Next]_vars
FairSpec == Spec /\ Fairness

-----------------------------------------------------------------------------
(* Properties                                                               *)

\* Type invariant.
TypeOK ==
    /\ topology \in Topologies
    /\ lease \in Processes \cup {Free, Orphan}
    /\ age \in 0..LeaseDuration[topology]
    /\ elector \in [Processes -> {"down", "campaigning", "leading", "cutOff", "releasing",
                                  "exiting"}]
    /\ since \in [Processes -> 0..GiveUp[topology]]
    /\ told \in [Processes -> BOOLEAN]
    /\ runner \in [Processes -> {"none", "clients", "clientset", "wire", "startOperator",
                                 "startKube", "launch", "launched"}]
    /\ informers \in [Processes -> [Informers -> InformerState]]
    /\ ctl \in [Processes -> {"none", "waiting", "idle", "syncing", "done"}]
    /\ robbed \in BOOLEAN /\ lapsed \in BOOLEAN
    /\ used \in [Kinds -> Nat]

\* No sync reads a lister whose informer was not started or has not listed yet: the
\* reconciler never mistakes "not cached yet" for "does not exist".
ListersAreFed ==
    \A p \in Processes :
        ctl[p] = "syncing" => \A i \in Reads : informers[p][i] = "synced"

\* No controller waits for, or reads, a cache nobody fills: an informer that was first asked
\* for after its factory had started, as a lister does in the middle of a sync, never runs.
CachesWillFill ==
    \A p \in Processes :
        ctl[p] # "none" =>
            \A i \in WaitsFor \cup Reads : informers[p][i] \in {"started", "synced"}

Acting(p) == ctl[p] = "syncing"
Leaving(p) == elector[p] \in {"releasing", "exiting"}

\* Two operators act at once for three reasons only, however long leases last: one of
\* them is on its way out, which ReleaseOnCancel warns of; a release emptied a lease that
\* had passed to somebody else; or a lease was taken from a process that still led.
OneOperatorActs ==
    ~robbed /\ ~lapsed => \A p, q \in Processes :
        p # q /\ Acting(p) /\ Acting(q) => Leaving(p) \/ Leaving(q)

\* The third never happens where LeaseDuration is longer than RetryPeriod and RenewDeadline
\* together: whatever a leader's attempts met, whoever else released, signalled or died, it
\* has given up when its lease may be taken.  On a single node it does happen.
LeaseOutlivesLeader == GiveUp[topology] < LeaseDuration[topology] => ~lapsed

\* Whatever was killed, told to stop or failed before, in the end exactly one process
\* leads, holds the lease and has its reconciler at work.
OperatorRuns ==
    <>[](\E p \in Processes :
            /\ lease = p /\ elector[p] = "leading"
            /\ ctl[p] \in {"idle", "syncing"}
            /\ \A q \in Processes \ {p} : elector[q] = "campaigning")

=============================================================================
