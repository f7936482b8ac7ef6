------------------------ MODULE OperatorProcessProofs ------------------------
(***************************************************************************)
(* Proofs about OperatorProcess, for any number of processes, topologies   *)
(* and lease times: its type invariant, that the reconciler reads no cache *)
(* that has not listed, the three reasons for which two operators may act  *)
(* at once and when the third cannot be, and that no controller waits for  *)
(* a cache nobody fills.                                                   *)
(***************************************************************************)
EXTENDS OperatorProcess, TLAPS

LEMMA NamesDiffer == \A p \in Processes : p # Free /\ p # Orphan
BY NamesAssumption

LEMMA InitType == Init => TypeOK
<1> SUFFICES ASSUME Init PROVE TypeOK
  OBVIOUS
<1>1. topology \in Topologies /\ GiveUp[topology] \in Nat /\ LeaseDuration[topology] \in Nat
  BY LeaseAssumption DEF Init
<1>2. informers \in [Processes -> [Informers -> InformerState]]
  BY DEF Init, NoInformers, InformerState
<1>3. used \in [Kinds -> Nat]
  BY DEF Init
<1>4. since \in [Processes -> 0..GiveUp[topology]]
  BY <1>1 DEF Init
<1>5. age \in 0..LeaseDuration[topology]
  BY <1>1 DEF Init
<1> QED BY <1>1, <1>2, <1>3, <1>4, <1>5 DEF Init, TypeOK

LEMMA TimesType ==
    ASSUME topology \in Topologies
    PROVE  GiveUp[topology] \in Nat /\ LeaseDuration[topology] \in Nat
BY LeaseAssumption

LEMMA SpendType ==
    ASSUME NEW k \in Kinds, used \in [Kinds -> Nat], Spend(k)
    PROVE  used' \in [Kinds -> Nat]
BY DEF Spend

LEMMA DieType ==
    ASSUME TypeOK, NEW p \in Processes, Die(p), used' \in [Kinds -> Nat]
    PROVE  TypeOK'
<1>1. since' \in [Processes -> 0..GiveUp[topology]]
  BY TimesType DEF TypeOK, Die
<1>2. informers' \in [Processes -> [Informers -> InformerState]]
  BY DEF TypeOK, Die, NoInformers, Informers, InformerState
<1> QED BY <1>1, <1>2 DEF TypeOK, Die, history

\* The Lease and the clocks when a process writes it.
LEMMA TakeType ==
    ASSUME TypeOK, NEW p \in Processes, Take(p)
    PROVE  /\ topology' \in Topologies
           /\ lease' \in Processes \cup {Free, Orphan}
           /\ age' \in 0..LeaseDuration[topology]'
           /\ since' \in [Processes -> 0..GiveUp[topology]']
           /\ robbed' \in BOOLEAN /\ lapsed' \in BOOLEAN
BY TimesType DEF TypeOK, Take

\* Type correctness of one step, action by action.
LEMMA NextType == TypeOK /\ [Next]_vars => TypeOK'
<1> SUFFICES ASSUME TypeOK, [Next]_vars PROVE TypeOK'
  OBVIOUS
<1>1. CASE Tick
  <2>1. age' \in 0..LeaseDuration[topology]
    BY <1>1, TimesType DEF Tick, Elapse, TypeOK
  <2>2. since' \in [Processes -> 0..GiveUp[topology]]
    <3>1. ASSUME NEW p \in Processes
          PROVE  since'[p] \in 0..GiveUp[topology]
      BY <1>1, TimesType DEF Tick, Elapse, Leads, TypeOK
    <3> QED BY <1>1, <3>1 DEF Tick, Elapse
  <2> QED BY <1>1, <2>1, <2>2 DEF Tick, Elapse, TypeOK, work, history
<1>3. ASSUME NEW p \in Processes, Acquire(p) PROVE TypeOK'
  BY <1>3, TakeType DEF Acquire, TypeOK
<1>4. ASSUME NEW p \in Processes, Elector(p) \/ CutOff(p) \/ Reconnect(p) PROVE TypeOK'
  <2>0. CASE Start(p)
    BY <2>0 DEF Start, TypeOK, election, history, work
  <2>1. CASE Renew(p)
    BY <2>1, TakeType DEF Renew, TypeOK, work
  <2>2. CASE StopRenewing(p)
    <3>1. since' \in [Processes -> 0..GiveUp[topology]]
      BY <2>2, TimesType DEF StopRenewing, TypeOK
    <3> QED BY <2>2, <3>1 DEF StopRenewing, TypeOK, history, work
  <2>3. CASE Release(p)
    <3>1. used' \in [Kinds -> Nat]
      BY <2>3, SpendType DEF Release, TypeOK, Kinds
    <3>2. robbed' \in BOOLEAN /\ UNCHANGED <<topology, since, lapsed>>
      BY <2>3 DEF Release, TypeOK, election, history
    <3>3. lease' \in Processes \cup {Free, Orphan} /\ age' \in 0..LeaseDuration[topology]
      BY <2>3, TimesType DEF Release, TypeOK, election, history
    <3>4. elector' \in [Processes -> {"down", "campaigning", "leading", "cutOff", "releasing",
                                     "exiting"}]
      BY <2>3 DEF Release, TypeOK
    <3>5. told' \in [Processes -> BOOLEAN]
      BY <2>3 DEF Release, TypeOK
    <3> QED BY <2>3, <3>1, <3>2, <3>3, <3>4, <3>5 DEF Release, TypeOK, work
  <2>4. CASE Exit(p)
    BY <2>4, DieType DEF Exit, TypeOK
  <2>5. CASE CutOff(p) \/ Reconnect(p)
    <3>1. used' \in [Kinds -> Nat]
      BY <2>5, SpendType DEF CutOff, Reconnect, TypeOK, Kinds
    <3> QED BY <2>5, <3>1 DEF CutOff, Reconnect, TypeOK, election, history, work
  <2> QED BY <1>4, <2>0, <2>1, <2>2, <2>3, <2>4, <2>5 DEF Elector
<1>5. ASSUME NEW p \in Processes, RunOperator(p) PROVE TypeOK'
  <2>1. CASE BuildClients(p)
    <3>1. CASE FailToBuild(p)
      BY <3>1, DieType, SpendType DEF FailToBuild, TypeOK, Kinds
    <3> QED BY <2>1, <3>1 DEF BuildClients, Goto, TypeOK, election, history
  <2>2. CASE NewForConfig(p)
    <3>1. CASE FailToBuild(p)
      BY <3>1, DieType, SpendType DEF FailToBuild, TypeOK, Kinds
    <3> QED BY <2>2, <3>1 DEF NewForConfig, Goto, TypeOK, election, history
  <2>3. CASE NewTargetConfigReconciler(p)
    BY <2>3 DEF NewTargetConfigReconciler, Listers, Goto, Requested, TypeOK, election, history, InformerState
  <2>4. CASE StartOperatorInformers(p)
    BY <2>4 DEF StartOperatorInformers, Goto, Started, TypeOK, election, history, InformerState
  <2>5. CASE StartKubeInformers(p)
    BY <2>5 DEF StartKubeInformers, Goto, Started, TypeOK, election, history, InformerState
  <2>6. CASE LaunchControllers(p)
    BY <2>6 DEF LaunchControllers, Goto, TypeOK, election, history
  <2> QED BY <1>5, <2>1, <2>2, <2>3, <2>4, <2>5, <2>6 DEF RunOperator
<1>6. ASSUME NEW p \in Processes, NEW i \in Informers, InitialList(p, i) PROVE TypeOK'
  BY <1>6 DEF InitialList, TypeOK, election, history, InformerState
<1>7. ASSUME NEW p \in Processes, Run(p) PROVE TypeOK'
  BY <1>7 DEF Run, CachesSynced, StopController, Move, TypeOK, election, history
<1>8. ASSUME NEW p \in Processes, CacheSyncTimeout(p) PROVE TypeOK'
  BY <1>8, DieType, SpendType DEF CacheSyncTimeout, TypeOK, Kinds
<1>9. ASSUME NEW p \in Processes, BeginSync(p) PROVE TypeOK'
  BY <1>9 DEF BeginSync, Move, Requested, TypeOK, election, history, InformerState
<1>10. ASSUME NEW p \in Processes, EndSync(p) PROVE TypeOK'
  BY <1>10 DEF EndSync, Move, TypeOK, election, history
<1>11. ASSUME NEW p \in Processes, SigTerm(p) PROVE TypeOK'
  <2>1. used' \in [Kinds -> Nat]
    BY <1>11, SpendType DEF SigTerm, TypeOK, Kinds
  <2> QED BY <1>11, <2>1 DEF SigTerm, TypeOK, election, history, work
<1>12. ASSUME NEW p \in Processes, Kill(p) PROVE TypeOK'
  BY <1>12, DieType, SpendType DEF Kill, TypeOK, Kinds
<1>13. CASE UNCHANGED vars
  BY <1>13 DEF vars, TypeOK, election, history, work
<1> QED
  BY <1>1, <1>3, <1>4, <1>5, <1>6, <1>7, <1>8, <1>9, <1>10, <1>11, <1>12, <1>13
     DEF Next, Launching

\* Every variable has its type in every reachable state.
THEOREM TypeCorrect == Spec => []TypeOK
<1> QED BY InitType, NextType, PTL DEF Spec

-----------------------------------------------------------------------------
(* Caches before syncs *)

\* Past its wait, the reconciler's informers have all listed.
Fed == \A p \in Processes :
        ctl[p] \in {"idle", "syncing"} => \A i \in WaitsFor : informers[p][i] = "synced"

LEMMA NextFed == TypeOK /\ Fed /\ [Next]_vars => Fed'
<1> SUFFICES ASSUME TypeOK, Fed, [Next]_vars,
                    NEW q \in Processes, ctl'[q] \in {"idle", "syncing"}, NEW i \in WaitsFor
             PROVE  informers'[q][i] = "synced"
  BY DEF Fed
<1>0. i \in Informers
  BY DEF WaitsFor, Informers, OperatorInformers, KubeInformers
<1>a. ASSUME UNCHANGED ctl, UNCHANGED informers PROVE informers'[q][i] = "synced"
  BY <1>a DEF Fed
<1>b. ASSUME NEW p \in Processes, Die(p) PROVE informers'[q][i] = "synced"
  BY <1>b DEF Die, TypeOK, Fed
<1>1. CASE Tick
  BY <1>1, <1>a DEF Tick, Elapse, work
<1>2. ASSUME NEW p \in Processes, CutOff(p) \/ Reconnect(p) PROVE informers'[q][i] = "synced"
  BY <1>2, <1>a DEF CutOff, Reconnect, work
<1>3. ASSUME NEW p \in Processes, Acquire(p) PROVE informers'[q][i] = "synced"
  BY <1>3, <1>a DEF Acquire
<1>4. ASSUME NEW p \in Processes, Elector(p) PROVE informers'[q][i] = "synced"
  BY <1>4, <1>a, <1>b DEF Elector, Start, Renew, StopRenewing, Release, Exit, work
<1>5. ASSUME NEW p \in Processes, RunOperator(p) PROVE informers'[q][i] = "synced"
  <2>1. CASE BuildClients(p) \/ NewForConfig(p)
    BY <2>1, <1>a, <1>b DEF BuildClients, NewForConfig, FailToBuild
  <2>2. CASE NewTargetConfigReconciler(p)
    BY <2>2, <1>0 DEF NewTargetConfigReconciler, Requested, TypeOK, Fed
  <2>3. CASE StartOperatorInformers(p) \/ StartKubeInformers(p)
    BY <2>3, <1>0 DEF StartOperatorInformers, StartKubeInformers, Started, TypeOK, Fed
  <2>4. CASE LaunchControllers(p)
    BY <2>4 DEF LaunchControllers, TypeOK, Fed
  <2> QED BY <1>5, <2>1, <2>2, <2>3, <2>4 DEF RunOperator
<1>6. ASSUME NEW p \in Processes, NEW j \in Informers, InitialList(p, j)
      PROVE  informers'[q][i] = "synced"
  BY <1>6, <1>0 DEF InitialList, TypeOK, Fed
<1>7. ASSUME NEW p \in Processes, Run(p) PROVE informers'[q][i] = "synced"
  BY <1>7 DEF Run, CachesSynced, StopController, Move, TypeOK, Fed
<1>8. ASSUME NEW p \in Processes, CacheSyncTimeout(p) PROVE informers'[q][i] = "synced"
  BY <1>8, <1>b DEF CacheSyncTimeout
<1>9. ASSUME NEW p \in Processes, BeginSync(p) PROVE informers'[q][i] = "synced"
  BY <1>9, <1>0 DEF BeginSync, Move, Requested, TypeOK, Fed
<1>10. ASSUME NEW p \in Processes, EndSync(p) PROVE informers'[q][i] = "synced"
  BY <1>10 DEF EndSync, Move, TypeOK, Fed
<1>11. ASSUME NEW p \in Processes, SigTerm(p) PROVE informers'[q][i] = "synced"
  BY <1>11, <1>a DEF SigTerm, work
<1>12. ASSUME NEW p \in Processes, Kill(p) PROVE informers'[q][i] = "synced"
  BY <1>12, <1>b DEF Kill
<1>13. CASE UNCHANGED vars
  BY <1>13, <1>a DEF vars, work
<1> QED
  BY <1>1, <1>2, <1>3, <1>4, <1>5, <1>6, <1>7, <1>8, <1>9, <1>10, <1>11, <1>12, <1>13
     DEF Next, Launching

\* The reconciler never reads a cache that has not listed its objects, whatever the
\* order in which informers are requested, started and filled.
THEOREM CachesBeforeSyncs == Spec => []ListersAreFed
<1>1. Init => Fed
  BY DEF Init, Fed
<1>2. Fed => ListersAreFed
  BY DEF Fed, ListersAreFed, Reads, WaitsFor
<1> QED BY <1>1, <1>2, NextFed, TypeCorrect, PTL DEF Spec

-----------------------------------------------------------------------------
(* One operator at a time *)

\* Only a process that was elected has controllers.
ElectedWork == \A p \in Processes :
    (runner[p] # "none" \/ ctl[p] # "none") => Leads(p) \/ Leaving(p)

\* Unless it was robbed or taken over, whoever leads holds the lease.
LeaderHolds == ~robbed /\ ~lapsed => \A p \in Processes : Leads(p) => lease = p

\* A lease ages no faster than the leader that holds it loses patience.
Patient == \A p \in Processes : Leads(p) /\ lease = p => age <= since[p]

LEMMA NextElected == TypeOK /\ ElectedWork /\ [Next]_vars => ElectedWork'
<1> SUFFICES ASSUME TypeOK, ElectedWork, [Next]_vars PROVE ElectedWork'
  OBVIOUS
<1>a. ASSUME UNCHANGED <<ctl, runner, elector>> PROVE ElectedWork'
  BY <1>a DEF ElectedWork, Leads, Leaving
<1>b. ASSUME NEW p \in Processes, Die(p) PROVE ElectedWork'
  BY <1>b DEF Die, TypeOK, ElectedWork, Leads, Leaving
<1>1. CASE Tick
  BY <1>1, <1>a DEF Tick, Elapse, work
<1>2. ASSUME NEW p \in Processes, CutOff(p) \/ Reconnect(p) PROVE ElectedWork'
  BY <1>2 DEF CutOff, Reconnect, work, TypeOK, ElectedWork, Leads, Leaving
<1>3. ASSUME NEW p \in Processes, Acquire(p) PROVE ElectedWork'
  BY <1>3 DEF Acquire, TypeOK, ElectedWork, Leads, Leaving
<1>4. ASSUME NEW p \in Processes, Elector(p) PROVE ElectedWork'
  <2>0. CASE Start(p)
    BY <2>0 DEF Start, work, TypeOK, ElectedWork, Leads, Leaving
  <2>1. CASE Renew(p)
    BY <2>1, <1>a DEF Renew, work
  <2>2. CASE StopRenewing(p)
    BY <2>2 DEF StopRenewing, work, TypeOK, ElectedWork, Leads, Leaving
  <2>3. CASE Release(p)
    BY <2>3 DEF Release, work, TypeOK, ElectedWork, Leads, Leaving
  <2>4. CASE Exit(p)
    BY <2>4, <1>b DEF Exit
  <2> QED BY <1>4, <2>0, <2>1, <2>2, <2>3, <2>4 DEF Elector
<1>5. ASSUME NEW p \in Processes, RunOperator(p) PROVE ElectedWork'
  BY <1>5, <1>b
     DEF RunOperator, BuildClients, NewForConfig, FailToBuild, NewTargetConfigReconciler,
         StartOperatorInformers, StartKubeInformers, LaunchControllers, Goto, TypeOK, ElectedWork, Leads, Leaving
<1>6. ASSUME NEW p \in Processes, NEW i \in Informers, InitialList(p, i) PROVE ElectedWork'
  BY <1>6, <1>a DEF InitialList
<1>7. ASSUME NEW p \in Processes, Run(p) \/ BeginSync(p) \/ EndSync(p) PROVE ElectedWork'
  BY <1>7 DEF Run, CachesSynced, StopController, BeginSync, EndSync, Move, TypeOK, ElectedWork, Leads, Leaving
<1>8. ASSUME NEW p \in Processes, CacheSyncTimeout(p) PROVE ElectedWork'
  BY <1>8, <1>b DEF CacheSyncTimeout
<1>9. ASSUME NEW p \in Processes, SigTerm(p) PROVE ElectedWork'
  BY <1>9, <1>a DEF SigTerm, work
<1>10. ASSUME NEW p \in Processes, Kill(p) PROVE ElectedWork'
  BY <1>10, <1>b DEF Kill
<1>11. CASE UNCHANGED vars
  BY <1>11, <1>a DEF vars, work
<1> QED
  BY <1>1, <1>2, <1>3, <1>4, <1>5, <1>6, <1>7, <1>8, <1>9, <1>10, <1>11 DEF Next, Launching

\* Both in one step: the election moves nothing else.
Held == LeaderHolds /\ Patient

LEMMA TakeHolds ==
    ASSUME TypeOK, Held, NEW p \in Processes, Take(p),
           \A q \in Processes \ {p} : Leads(q)' <=> Leads(q)
    PROVE  Held'
<1> USE NamesDiffer
<1>1. ASSUME ~robbed', ~lapsed', NEW q \in Processes \ {p}, Leads(q)' PROVE FALSE
  <2>1. q \in OtherLeaders(p)
    BY <1>1 DEF OtherLeaders
  <2>2. ~robbed /\ ~lapsed /\ lease \notin OtherLeaders(p)
    BY <1>1, <2>1 DEF Take
  <2>3. lease = q
    BY <1>1, <2>2 DEF Held, LeaderHolds
  <2> QED BY <2>1, <2>2, <2>3
<1>2. LeaderHolds'
  BY <1>1 DEF LeaderHolds, Take
<1>3. Patient'
  BY DEF Patient, Take, TypeOK
<1> QED BY <1>2, <1>3 DEF Held

LEMMA NextHolds == TypeOK /\ Held /\ [Next]_vars => Held'
<1> SUFFICES ASSUME TypeOK, Held, [Next]_vars PROVE Held'
  OBVIOUS
<1> USE NamesDiffer
<1>a. ASSUME UNCHANGED election, \A p \in Processes : Leads(p)' => Leads(p) PROVE Held'
  BY <1>a DEF Held, LeaderHolds, Patient, election, history
<1>b. ASSUME NEW p \in Processes, Die(p) PROVE Held'
  BY <1>b DEF Die, TypeOK, Held, LeaderHolds, Patient, Leads, history
<1>c. UNCHANGED elector => \A p \in Processes : Leads(p)' <=> Leads(p)
  BY DEF Leads
<1>1. CASE Tick
  <2>1. LeaderHolds'
    BY <1>1, <1>c DEF Tick, Elapse, Held, LeaderHolds, history
  <2>2. ASSUME NEW p \in Processes, Leads(p)', lease' = p PROVE age' <= since'[p]
    <3>1. Leads(p) /\ lease = p /\ age <= since[p] /\ since[p] \in Nat /\ age \in Nat
      BY <1>1, <1>c, <2>2, TimesType DEF Tick, Elapse, Held, Patient, TypeOK
    <3>2. CASE elector[p] = "leading"
      <4>1. age' = age /\ since'[p] = since[p]
        BY <1>1, <3>1, <3>2 DEF Tick, Elapse, Renewable
      <4> QED BY <3>1, <4>1
    <3>3. CASE elector[p] = "cutOff"
      <4>1. age' \in {age, age + 1} /\ since'[p] = since[p] + 1
        BY <1>1, <3>3 DEF Tick, Elapse
      <4> QED BY <3>1, <4>1
    <3> QED BY <3>1, <3>2, <3>3 DEF Leads
  <2> QED BY <2>1, <2>2 DEF Held, Patient
<1>2. ASSUME NEW p \in Processes, CutOff(p) \/ Reconnect(p) PROVE Held'
  BY <1>2, <1>a DEF CutOff, Reconnect, Leads, TypeOK
<1>3. ASSUME NEW p \in Processes, Acquire(p) PROVE Held'
  BY <1>3, TakeHolds DEF Acquire, Leads, TypeOK
<1>4. ASSUME NEW p \in Processes, Elector(p) PROVE Held'
  <2>0. CASE Start(p)
    BY <2>0, <1>a DEF Start, Leads, TypeOK
  <2>1. CASE Renew(p)
    BY <2>1, <1>c, TakeHolds DEF Renew
  <2>2. CASE StopRenewing(p)
    BY <2>2 DEF StopRenewing, history, TypeOK, Held, LeaderHolds, Patient, Leads
  <2>3. CASE Release(p)
    <3>1. \A q \in Processes : Leads(q)' <=> Leads(q)
      BY <2>3 DEF Release, Leads, TypeOK
    <3>2. CASE UNCHANGED election
      BY <3>1, <3>2, <1>a
    <3>3. CASE ~UNCHANGED election
      <4>1. /\ lease' = Free /\ robbed' = (robbed \/ lease \in Processes \ {p})
            /\ lapsed' = lapsed
        BY <2>3, <3>3 DEF Release
      <4>2. ~Leads(p)
        BY <2>3 DEF Release, Leads
      <4> QED BY <3>1, <4>1, <4>2 DEF Held, LeaderHolds, Patient
    <3> QED BY <3>2, <3>3
  <2>4. CASE Exit(p)
    BY <2>4, <1>b DEF Exit
  <2> QED BY <1>4, <2>0, <2>1, <2>2, <2>3, <2>4 DEF Elector
<1>5. ASSUME NEW p \in Processes, RunOperator(p) PROVE Held'
  BY <1>5, <1>a, <1>b, <1>c
     DEF RunOperator, BuildClients, NewForConfig, FailToBuild, NewTargetConfigReconciler,
         StartOperatorInformers, StartKubeInformers, LaunchControllers
<1>6. ASSUME NEW p \in Processes, NEW i \in Informers, InitialList(p, i) PROVE Held'
  BY <1>6, <1>a, <1>c DEF InitialList
<1>7. ASSUME NEW p \in Processes, Run(p) \/ BeginSync(p) \/ EndSync(p) PROVE Held'
  BY <1>7, <1>a, <1>c DEF Run, CachesSynced, StopController, BeginSync, EndSync
<1>8. ASSUME NEW p \in Processes, CacheSyncTimeout(p) \/ Kill(p) PROVE Held'
  BY <1>8, <1>b DEF CacheSyncTimeout, Kill
<1>9. ASSUME NEW p \in Processes, SigTerm(p) PROVE Held'
  BY <1>9, <1>a, <1>c DEF SigTerm
<1>10. CASE UNCHANGED vars
  BY <1>10, <1>a, <1>c DEF vars
<1> QED
  BY <1>1, <1>2, <1>3, <1>4, <1>5, <1>6, <1>7, <1>8, <1>9, <1>10 DEF Next, Launching

\* Whatever the lease times: two operators act at once only while one of them is on its way
\* out, while a process leads whose lease another one released, or while one leads whose
\* lease was taken over.
THEOREM AtMostOneActs == Spec => []OneOperatorActs
<1>1. Init => ElectedWork /\ Held
  BY DEF Init, ElectedWork, Held, LeaderHolds, Patient, Leads
<1>2. TypeOK /\ ElectedWork /\ Held => OneOperatorActs
  BY DEF ElectedWork, Held, LeaderHolds, OneOperatorActs, Acting
<1> QED BY <1>1, <1>2, NextElected, NextHolds, TypeCorrect, PTL DEF Spec

\* Taking a lease from a process that leads needs an expired lease, hence a leader that has
\* lost its patience before it stops: impossible when GiveUp is less than LeaseDuration.
LEMMA NextOutlives ==
    TypeOK /\ Held /\ LeaseOutlivesLeader /\ [Next]_vars => LeaseOutlivesLeader'
<1> SUFFICES ASSUME TypeOK, Held, LeaseOutlivesLeader, [Next]_vars PROVE LeaseOutlivesLeader'
  OBVIOUS
<1> USE NamesDiffer
<1>a. ASSUME UNCHANGED <<topology, lapsed>> PROVE LeaseOutlivesLeader'
  BY <1>a DEF LeaseOutlivesLeader
<1>1. ASSUME NEW p \in Processes, Take(p), Renewable(p) PROVE LeaseOutlivesLeader'
  <2> SUFFICES ASSUME GiveUp[topology] < LeaseDuration[topology],
                      lease \in OtherLeaders(p)
               PROVE  FALSE
    BY <1>1 DEF LeaseOutlivesLeader, Take
  <2>1. PICK q \in Processes \ {p} : lease = q /\ Leads(q)
    BY DEF OtherLeaders
  <2>2. age >= LeaseDuration[topology]
    BY <1>1, <2>1 DEF Renewable, Available
  <2>3. age <= since[q] /\ since[q] \in 0..GiveUp[topology] /\ age \in Nat
    BY <2>1, TimesType DEF Held, Patient, TypeOK
  <2> QED BY <2>2, <2>3, TimesType DEF TypeOK
<1>b. ASSUME NEW p \in Processes, Die(p) PROVE LeaseOutlivesLeader'
  BY <1>b, <1>a DEF Die, history
<1>2. CASE Tick
  BY <1>2, <1>a DEF Tick, Elapse, history
<1>3. ASSUME NEW p \in Processes, Acquire(p) PROVE LeaseOutlivesLeader'
  BY <1>3, <1>1 DEF Acquire, Renewable
<1>4. ASSUME NEW p \in Processes, Elector(p) \/ CutOff(p) \/ Reconnect(p)
      PROVE  LeaseOutlivesLeader'
  BY <1>4, <1>1, <1>a, <1>b
     DEF Elector, Start, Renew, StopRenewing, Release, Exit, CutOff, Reconnect, election,
         history
<1>5. ASSUME NEW p \in Processes, Launching(p) PROVE LeaseOutlivesLeader'
  BY <1>5, <1>a, <1>b
     DEF Launching, RunOperator, BuildClients, NewForConfig, FailToBuild,
         NewTargetConfigReconciler, StartOperatorInformers, StartKubeInformers,
         LaunchControllers, InitialList, Run, CachesSynced, StopController, election, history
<1>6. ASSUME NEW p \in Processes,
             CacheSyncTimeout(p) \/ BeginSync(p) \/ EndSync(p) \/ SigTerm(p) \/ Kill(p)
      PROVE  LeaseOutlivesLeader'
  BY <1>6, <1>a, <1>b
     DEF CacheSyncTimeout, BeginSync, EndSync, SigTerm, Kill, election, history
<1>7. CASE UNCHANGED vars
  BY <1>7, <1>a DEF vars, election, history
<1> QED BY <1>2, <1>3, <1>4, <1>5, <1>6, <1>7 DEF Next

\* On every topology whose leaders give up before their leases expire no lease is taken from
\* a process that still leads.  Nothing is said of the others: a single node is one.
THEOREM NobodyIsOvertaken == Spec => []LeaseOutlivesLeader
<1>1. Init => Held /\ LeaseOutlivesLeader
  BY DEF Init, Held, LeaderHolds, Patient, Leads, LeaseOutlivesLeader
<1> QED BY <1>1, NextHolds, NextOutlives, TypeCorrect, PTL DEF Spec

-----------------------------------------------------------------------------
(* Every cache that somebody waits for is being filled *)

Filling == {"started", "synced"}

\* How far RunOperator's wiring has come when it stands at each of its steps.
Wired == \A p \in Processes :
    /\ runner[p] \in {"startOperator", "startKube", "launch", "launched"}
         => \A i \in Informers : informers[p][i] # "absent"
    /\ runner[p] \in {"startKube", "launch", "launched"}
         => \A i \in OperatorInformers : informers[p][i] \in Filling
    /\ runner[p] \in {"launch", "launched"}
         => \A i \in KubeInformers : informers[p][i] \in Filling
    /\ ctl[p] # "none" => runner[p] = "launched"

\* An informer never goes back while its process lives.
LEMMA FillingGrows ==
    ASSUME NEW f \in [Informers -> InformerState], NEW S, NEW i \in Informers
    PROVE  /\ f[i] # "absent" => Requested(f, S)[i] = f[i] /\ Started(f, S)[i] # "absent"
           /\ f[i] \in Filling => Started(f, S)[i] = f[i]
           /\ i \in S => Requested(f, S)[i] # "absent"
           /\ i \in S /\ f[i] # "absent" => Started(f, S)[i] \in Filling
BY DEF Requested, Started, InformerState, Filling

LEMMA NextWired == TypeOK /\ ElectedWork /\ Wired /\ [Next]_vars => Wired'
<1> SUFFICES ASSUME TypeOK, ElectedWork, Wired, [Next]_vars PROVE Wired'
  OBVIOUS
<1>0. OperatorInformers \subseteq Informers /\ KubeInformers \subseteq Informers
  BY DEF Informers
<1>a. ASSUME UNCHANGED work PROVE Wired'
  BY <1>a DEF Wired, work
<1>b. ASSUME NEW p \in Processes, Die(p) PROVE Wired'
  BY <1>b DEF Die, TypeOK, Wired
<1>1. CASE Tick
  BY <1>1, <1>a DEF Tick, Elapse
<1>2. ASSUME NEW p \in Processes, CutOff(p) \/ Reconnect(p) \/ SigTerm(p) PROVE Wired'
  BY <1>2, <1>a DEF CutOff, Reconnect, SigTerm
<1>3. ASSUME NEW p \in Processes, Acquire(p) PROVE Wired'
  <2>1. ctl[p] = "none"
    BY <1>3 DEF Acquire, ElectedWork, Leads, Leaving
  <2> QED BY <1>3, <2>1 DEF Acquire, TypeOK, Wired
<1>4. ASSUME NEW p \in Processes, Elector(p) PROVE Wired'
  BY <1>4, <1>a, <1>b DEF Elector, Start, Renew, StopRenewing, Release, Exit
<1>5. ASSUME NEW p \in Processes, RunOperator(p) PROVE Wired'
  <2>0. informers[p] \in [Informers -> InformerState]
    BY DEF TypeOK
  <2>1. CASE BuildClients(p) \/ NewForConfig(p)
    BY <2>1, <1>b DEF BuildClients, NewForConfig, FailToBuild, Goto, TypeOK, Wired
  <2>2. CASE NewTargetConfigReconciler(p)
    <3>1. Listers \cup WaitsFor = Informers
      BY DEF Listers, WaitsFor, Informers, OperatorInformers, KubeInformers
    <3>2. informers'[p] = Requested(informers[p], Informers)
      BY <2>2, <3>1 DEF NewTargetConfigReconciler, TypeOK
    <3>3. \A i \in Informers : informers'[p][i] # "absent"
      BY <2>0, <3>2, FillingGrows
    <3> QED BY <2>2, <3>3, <1>0 DEF NewTargetConfigReconciler, Goto, TypeOK, Wired
  <2>3. CASE StartOperatorInformers(p)
    <3>1. \A i \in Informers : informers[p][i] # "absent"
      BY <2>3 DEF StartOperatorInformers, Goto, Wired
    <3>2. informers'[p] = Started(informers[p], OperatorInformers)
      BY <2>3 DEF StartOperatorInformers, TypeOK
    <3>3. /\ \A i \in Informers : informers'[p][i] # "absent"
          /\ \A i \in OperatorInformers : informers'[p][i] \in Filling
      BY <1>0, <2>0, <3>1, <3>2, FillingGrows
    <3> QED BY <2>3, <3>3 DEF StartOperatorInformers, Goto, TypeOK, Wired
  <2>4. CASE StartKubeInformers(p)
    <3>1. /\ \A i \in Informers : informers[p][i] # "absent"
          /\ \A i \in OperatorInformers : informers[p][i] \in Filling
      BY <2>4 DEF StartKubeInformers, Goto, Wired
    <3>2. informers'[p] = Started(informers[p], KubeInformers)
      BY <2>4 DEF StartKubeInformers, TypeOK
    <3>3. /\ \A i \in Informers : informers'[p][i] # "absent"
          /\ \A i \in KubeInformers : informers'[p][i] \in Filling
      BY <1>0, <2>0, <3>1, <3>2, FillingGrows
    <3>4. \A i \in OperatorInformers : informers'[p][i] \in Filling
      BY <1>0, <2>0, <3>1, <3>2, FillingGrows
    <3> QED BY <2>4, <3>3, <3>4 DEF StartKubeInformers, Goto, TypeOK, Wired
  <2>5. CASE LaunchControllers(p)
    BY <2>5 DEF LaunchControllers, Goto, TypeOK, Wired
  <2> QED BY <1>5, <2>1, <2>2, <2>3, <2>4, <2>5 DEF RunOperator
<1>6. ASSUME NEW p \in Processes, NEW i \in Informers, InitialList(p, i) PROVE Wired'
  BY <1>0, <1>6 DEF InitialList, TypeOK, Wired, Filling
<1>7. ASSUME NEW p \in Processes, Run(p) \/ EndSync(p) PROVE Wired'
  BY <1>7 DEF Run, CachesSynced, StopController, EndSync, Move, TypeOK, Wired
<1>8. ASSUME NEW p \in Processes, BeginSync(p) PROVE Wired'
  <2>1. runner[p] = "launched"
    BY <1>8 DEF BeginSync, Move, Wired
  <2>2. informers'[p] = Requested(informers[p], {"secrets"})
    BY <1>8 DEF BeginSync, TypeOK
  <2>3. \A i \in Informers : informers[p][i] # "absent"
    BY <2>1 DEF Wired
  <2>4. informers[p] \in [Informers -> InformerState]
    BY DEF TypeOK
  <2>5. \A i \in Informers : informers'[p][i] = informers[p][i]
    BY <2>2, <2>3, <2>4, FillingGrows
  <2> QED BY <1>0, <1>8, <2>1, <2>5 DEF BeginSync, Move, TypeOK, Wired
<1>9. ASSUME NEW p \in Processes, CacheSyncTimeout(p) \/ Kill(p) PROVE Wired'
  BY <1>9, <1>b DEF CacheSyncTimeout, Kill
<1>10. CASE UNCHANGED vars
  BY <1>10, <1>a DEF vars, work
<1> QED
  BY <1>1, <1>2, <1>3, <1>4, <1>5, <1>6, <1>7, <1>8, <1>9, <1>10 DEF Next, Launching

\* No controller waits for a cache whose informer nobody started: RunOperator requests
\* every informer, those of the listers a sync makes later included, before it starts the
\* factories, and starts both before it launches a controller.
THEOREM NoWaitInVain == Spec => []CachesWillFill
<1>1. Init => Wired /\ ElectedWork
  BY DEF Init, Wired, ElectedWork
<1>2. Wired => CachesWillFill
  BY DEF Wired, CachesWillFill, Filling, Reads, WaitsFor, Informers, OperatorInformers,
         KubeInformers
<1> QED BY <1>1, <1>2, NextElected, NextWired, TypeCorrect, PTL DEF Spec

=============================================================================
