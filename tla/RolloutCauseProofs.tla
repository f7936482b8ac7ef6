------------------------- MODULE RolloutCauseProofs -------------------------
(***************************************************************************)
(* Proof that OperandRollout never rolls the operand out without a cause.  *)
(* Every change of the pod template is charged to one of the versions of   *)
(* the Secrets and the ConfigMap that the template has yet to name; only   *)
(* the environment's counted steps add such versions.  Then the proof that *)
(* OperandRollout, with its history, implements RolloutContract.           *)
(***************************************************************************)
EXTENDS OperandRolloutProofs, RolloutHistory, FiniteSets, FiniteSetTheorems

-----------------------------------------------------------------------------
(* Logs of a Secret                                                         *)

Entries(log) == {log[i] : i \in 1..Len(log)}
KeysAfter(log, v) == {e \in Entries(log) : e.data = "keys" /\ e.version > v}

\* How many usable versions beyond v a Secret has in its log, or will get without
\* anybody doing anything to it.
Ahead(log, v) ==
    Cardinality(KeysAfter(log, v)) + (IF log[Len(log)].data = "keys" THEN 0 ELSE 1)

Increasing(log) == \A i, j \in 1..Len(log) : i < j => log[i].version < log[j].version
KeysNumbered(log) == \A i \in 1..Len(log) : log[i].data = "keys" => log[i].version > 0

LEMMA KeysFinite ==
    ASSUME NEW log \in Seq(SecretVersion), NEW v
    PROVE  IsFiniteSet(KeysAfter(log, v)) /\ Cardinality(KeysAfter(log, v)) \in Nat
<1>1. IsFiniteSet(1..Len(log))
  <2>1. Len(log) \in Nat
    OBVIOUS
  <2>2. QED
    BY <2>1, FS_Interval
<1>2. IsFiniteSet(Entries(log))
  <2> DEFINE f == [i \in 1..Len(log) |-> log[i]]
  <2>1. f \in Surjection(1..Len(log), Entries(log))
    BY DEF Surjection, Entries
  <2> HIDE DEF f
  <2>2. QED
    BY <1>1, <2>1, FS_Surjection
<1>3. IsFiniteSet(KeysAfter(log, v))
  BY <1>2, FS_Subset DEF KeysAfter
<1>4. QED
  BY <1>3, FS_CardinalityType

LEMMA AheadTyped ==
    ASSUME NEW log \in Seq(SecretVersion), NEW v
    PROVE  Ahead(log, v) \in Nat
  BY KeysFinite DEF Ahead

\* One set with at most one element more than another.
LEMMA OneMore ==
    ASSUME NEW S, NEW T, NEW x, IsFiniteSet(S), T \subseteq S \cup {x}
    PROVE  IsFiniteSet(T) /\ Cardinality(T) <= Cardinality(S) + 1
<1>1. IsFiniteSet(S \cup {x}) /\ Cardinality(S \cup {x}) <= Cardinality(S) + 1
  <2>1. CASE x \in S
    <3>1. S \cup {x} = S
      BY <2>1
    <3>2. Cardinality(S) \in Nat
      BY FS_CardinalityType
    <3>3. QED
      BY <3>1, <3>2
  <2>2. CASE x \notin S
    <3>1. Cardinality(S) \in Nat
      BY FS_CardinalityType
    <3>2. QED
      BY <2>2, <3>1, FS_AddElement
  <2>3. QED
    BY <2>1, <2>2
<1>2. IsFiniteSet(T) /\ Cardinality(T) <= Cardinality(S \cup {x})
  BY <1>1, FS_Subset
<1>3. /\ Cardinality(T) \in Nat /\ Cardinality(S) \in Nat
      /\ Cardinality(S \cup {x}) \in Nat
  BY <1>1, <1>2, FS_CardinalityType
<1>4. QED
  BY <1>1, <1>2, <1>3

\* A stored version is one more to come only if the Secret was usable before.
LEMMA AheadAppend ==
    ASSUME NEW log \in Seq(SecretVersion), Len(log) > 0, NEW e \in SecretVersion, NEW v
    PROVE  Ahead(Append(log, e), v)
             <= Ahead(log, v) + (IF log[Len(log)].data = "keys" THEN 1 ELSE 0)
<1> DEFINE longer == Append(log, e)
           S == KeysAfter(log, v)
           T == KeysAfter(longer, v)
<1>1. /\ longer \in Seq(SecretVersion) /\ Len(longer) = Len(log) + 1
      /\ longer[Len(log) + 1] = e
      /\ \A i \in 1..Len(log) : longer[i] = log[i]
  OBVIOUS
<1>2. Entries(longer) \subseteq Entries(log) \cup {e}
  <2>1. Len(log) \in Nat
    OBVIOUS
  <2>2. QED
    BY <1>1, <2>1 DEF Entries
<1>3. IsFiniteSet(S) /\ Cardinality(S) \in Nat /\ Cardinality(T) \in Nat
  BY <1>1, KeysFinite
<1>4. CASE e.data = "keys"
  <2>1. T \subseteq S \cup {e}
    BY <1>2 DEF KeysAfter
  <2>2. Cardinality(T) <= Cardinality(S) + 1
    BY <1>3, <2>1, OneMore
  <2>3. QED
    BY <1>1, <1>3, <1>4, <2>2 DEF Ahead
<1>5. CASE e.data # "keys"
  <2>1. T \subseteq S
    BY <1>2, <1>5 DEF KeysAfter
  <2>2. Cardinality(T) <= Cardinality(S)
    BY <1>3, <2>1, FS_Subset
  <2>3. QED
    BY <1>1, <1>3, <1>5, <2>2 DEF Ahead
<1>6. QED
  BY <1>4, <1>5

LEMMA AheadTail ==
    ASSUME NEW log \in Seq(SecretVersion), Len(log) > 1, NEW v
    PROVE  Ahead(Tail(log), v) <= Ahead(log, v)
<1> DEFINE S == KeysAfter(log, v)
           T == KeysAfter(Tail(log), v)
<1>1. /\ Tail(log) \in Seq(SecretVersion) /\ Len(Tail(log)) = Len(log) - 1
      /\ \A i \in 1..Len(log) - 1 : Tail(log)[i] = log[i + 1]
  OBVIOUS
<1>2. Len(log) \in Nat
  OBVIOUS
<1>3. T \subseteq S
  BY <1>1, <1>2 DEF KeysAfter, Entries
<1>4. IsFiniteSet(S) /\ Cardinality(S) \in Nat /\ Cardinality(T) \in Nat
  BY <1>1, KeysFinite
<1>5. Cardinality(T) <= Cardinality(S)
  BY <1>3, <1>4, FS_Subset
<1>6. Tail(log)[Len(Tail(log))] = log[Len(log)]
  BY <1>1, <1>2
<1>7. QED
  BY <1>4, <1>5, <1>6 DEF Ahead

\* The informer's copy is the oldest version of the log.
LEMMA FirstIsOldest ==
    ASSUME NEW log \in Seq(SecretVersion), Len(log) > 0, Increasing(log)
    PROVE  /\ log[1] \in Entries(log)
           /\ \A e \in Entries(log) : e \in SecretVersion /\ (e = log[1] \/ e.version > log[1].version)
<1>1. Len(log) \in Nat
  OBVIOUS
<1>2. \A i \in 1..Len(log) : log[i] \in SecretVersion /\ (i = 1 \/ log[1].version < log[i].version)
  BY <1>1 DEF Increasing
<1>3. \A i \in 1..Len(log) : log[i].version \in Nat
  BY <1>2 DEF SecretVersion
<1>4. QED
  BY <1>1, <1>2, <1>3 DEF Entries

\* Reading the informer's usable copy takes one version off what lies ahead of an older
\* one.
LEMMA AheadRead ==
    ASSUME NEW log \in Seq(SecretVersion), Len(log) > 0, Increasing(log),
           log[1].data = "keys", NEW t \in Nat, t <= log[1].version
    PROVE  Ahead(log, log[1].version) + (IF log[1].version # t THEN 1 ELSE 0) <= Ahead(log, t)
<1> DEFINE n == log[1].version
           S == KeysAfter(log, n)
           T == KeysAfter(log, t)
<1>1. n \in Nat
  BY FirstIsOldest DEF SecretVersion
<1>2. /\ IsFiniteSet(S) /\ IsFiniteSet(T)
      /\ Cardinality(S) \in Nat /\ Cardinality(T) \in Nat
  BY KeysFinite
<1>3. CASE n = t
  BY <1>2, <1>3 DEF Ahead
<1>4. CASE n # t
  <2>1. log[1] \notin S
    BY <1>1 DEF KeysAfter
  <2>2. S \cup {log[1]} \subseteq T
    <3>1. \A e \in Entries(log) : e.version \in Nat
      BY FirstIsOldest DEF SecretVersion
    <3>2. S \subseteq T
      BY <1>1, <3>1 DEF KeysAfter
    <3>3. log[1] \in T
      BY <1>1, <1>4, FirstIsOldest DEF KeysAfter
    <3>4. QED
      BY <3>2, <3>3
  <2>3. Cardinality(S \cup {log[1]}) = Cardinality(S) + 1
    BY <1>2, <2>1, FS_AddElement
  <2>4. Cardinality(S \cup {log[1]}) <= Cardinality(T)
    BY <1>2, <2>2, FS_Subset
  <2>5. QED
    BY <1>2, <1>4, <2>3, <2>4 DEF Ahead
<1>5. QED
  BY <1>3, <1>4

\* Forgetting what was read puts at most that version back.
LEMMA AheadForget ==
    ASSUME NEW log \in Seq(SecretVersion), Len(log) > 0, Increasing(log),
           NEW n \in Nat, NEW t, n <= log[1].version
    PROVE  Ahead(log, t) <= Ahead(log, n) + (IF n # t THEN 1 ELSE 0)
<1> DEFINE S == KeysAfter(log, n)
           T == KeysAfter(log, t)
<1>1. /\ IsFiniteSet(S) /\ Cardinality(S) \in Nat /\ Cardinality(T) \in Nat
  BY KeysFinite
<1>2. CASE n = t
  BY <1>1, <1>2 DEF Ahead
<1>3. CASE n # t
  <2>1. log[1].version \in Nat
    BY FirstIsOldest DEF SecretVersion
  <2>2. \A e \in Entries(log) : e.version \in Nat /\ (e = log[1] \/ e.version > n)
    BY <2>1, FirstIsOldest DEF SecretVersion
  <2>3. T \subseteq S \cup {log[1]}
    BY <2>2 DEF KeysAfter
  <2>4. Cardinality(T) <= Cardinality(S) + 1
    BY <1>1, <2>3, OneMore
  <2>5. QED
    BY <1>1, <1>3, <2>4 DEF Ahead
<1>4. QED
  BY <1>2, <1>3

LEMMA AppendOrdered ==
    ASSUME NEW log \in Seq(SecretVersion), Len(log) > 0, Increasing(log), KeysNumbered(log),
           NEW e \in SecretVersion, e.version = log[Len(log)].version + 1
    PROVE  /\ Increasing(Append(log, e)) /\ KeysNumbered(Append(log, e))
           /\ Append(log, e)[1] = log[1]
<1> DEFINE longer == Append(log, e)
<1>1. Len(log) \in Nat
  OBVIOUS
<1>2. /\ Len(longer) = Len(log) + 1
      /\ longer[Len(log) + 1] = e
      /\ \A i \in 1..Len(log) : longer[i] = log[i]
  OBVIOUS
<1>3. \A i \in 1..Len(log) : log[i].version \in Nat
  <2>1. \A i \in 1..Len(log) : log[i] \in SecretVersion
    OBVIOUS
  <2>2. QED
    BY <2>1 DEF SecretVersion
<1>4. \A i \in 1..Len(log) : log[i].version < e.version
  BY <1>1, <1>3 DEF Increasing
<1> HIDE DEF longer
<1>5. Increasing(longer)
  BY <1>1, <1>2, <1>4 DEF Increasing
<1>6. KeysNumbered(longer)
  BY <1>1, <1>2, <1>3, <1>4 DEF KeysNumbered
<1>7. QED
  BY <1>1, <1>2, <1>5, <1>6 DEF longer

LEMMA TailOrdered ==
    ASSUME NEW log \in Seq(SecretVersion), Len(log) > 1, Increasing(log), KeysNumbered(log)
    PROVE  /\ Increasing(Tail(log)) /\ KeysNumbered(Tail(log))
           /\ Tail(log)[1].version > log[1].version
<1>1. Len(log) \in Nat
  OBVIOUS
<1>2. /\ Len(Tail(log)) = Len(log) - 1
      /\ \A i \in 1..Len(log) - 1 : Tail(log)[i] = log[i + 1]
  OBVIOUS
<1>3. Increasing(Tail(log))
  BY <1>1, <1>2 DEF Increasing
<1>4. KeysNumbered(Tail(log))
  BY <1>1, <1>2 DEF KeysNumbered
<1>5. log[1].version \in Nat /\ log[2].version \in Nat /\ log[1].version < log[2].version
  <2>1. log[1] \in SecretVersion /\ log[2] \in SecretVersion
    BY <1>1
  <2>2. log[1].version < log[2].version
    BY <1>1 DEF Increasing
  <2>3. QED
    BY <2>1, <2>2 DEF SecretVersion
<1>6. QED
  BY <1>1, <1>2, <1>3, <1>4, <1>5

-----------------------------------------------------------------------------
(* What the pod template has yet to name                                    *)

Left(a, v) ==
    IF a = "Configmap"
    THEN IF object[a].version > v \/ object[a].content # "required" THEN 1 ELSE 0
    ELSE Ahead(secret[a], v)

Collected(a) == step > Position[a]

\* The changes of the template that a still accounts for: those ahead of what the sync
\* under way has collected, and the one it is about to make; or those ahead of what the
\* template names.
Due(a) ==
    IF Collected(a)
    THEN Left(a, annotations[a]) + (IF annotations[a] # template[a] THEN 1 ELSE 0)
    ELSE Left(a, template[a])

Debt == Due("WebhookSecret") + Due("MetricsSecret") + Due("Configmap")

\* Every rollout is paid for.  The first one uses up the first version of all three.
CauseInv ==
    rollouts + Debt
        <= used["rotate"] + used["loseSecret"] + used["touch"] + (IF rollouts = 0 THEN 3 ELSE 1)

Seen(a) == IF a = "Configmap" THEN object[a].version ELSE Cached(a).version

\* Versions only grow: nothing the template or a sync names is ahead of what can be read.
Named(a) ==
    /\ template[a] <= Seen(a)
    /\ Collected(a) => annotations[a] > 0 /\ annotations[a] <= Seen(a)

LogsOrdered == \A s \in Secrets : Increasing(secret[s]) /\ KeysNumbered(secret[s])

OrderInv ==
    /\ LogsOrdered
    /\ object["Configmap"].content = "required" => object["Configmap"].version > 0
    /\ \A a \in Annotated : Named(a)
    /\ rollouts = 0 => template = NoVersions

LEMMA SecretTyped ==
    ASSUME TypeOK, NEW s \in Secrets
    PROVE  /\ secret[s] \in Seq(SecretVersion) /\ Len(secret[s]) > 0
           /\ Cached(s) \in SecretVersion /\ Cached(s).version \in Nat
<1>1. secret[s] \in Seq(SecretVersion) /\ Len(secret[s]) > 0
  BY DEF TypeOK
<1>2. Cached(s) \in SecretVersion
  BY <1>1 DEF Cached
<1>3. QED
  BY <1>1, <1>2 DEF SecretVersion

LEMMA SeenTyped ==
    ASSUME TypeOK, NEW a \in Annotated
    PROVE  /\ Seen(a) \in Nat /\ template[a] \in Nat /\ annotations[a] \in Nat
           /\ step \in 0..24 /\ Position[a] \in {14, 16, 17}
<1>1. a = "Configmap" \/ a \in Secrets
  BY DEF Annotated
<1>2. object["Configmap"].version \in Nat
  BY KindsApart DEF TypeOK, Object
<1>3. Seen(a) \in Nat
  BY <1>1, <1>2, SecretTyped DEF Seen
<1>4. QED
  BY <1>3, PositionFacts, PipelineLength DEF TypeOK

LEMMA DueTyped ==
    ASSUME TypeOK
    PROVE  /\ \A a \in Annotated, v \in Nat : Left(a, v) \in Nat
           /\ \A a \in Annotated : Due(a) \in Nat
           /\ Debt \in Nat
<1>1. \A a \in Annotated, v \in Nat : Left(a, v) \in Nat
  BY SecretTyped, AheadTyped DEF Left, Annotated
<1>2. \A a \in Annotated : Due(a) \in Nat
  BY <1>1, SeenTyped DEF Due
<1>3. QED
  BY <1>1, <1>2 DEF Debt, Annotated, Secrets

\* What a sync has collected and not yet written is worth at least what it forgets.
LEMMA Forgetting ==
    ASSUME TypeOK, OrderInv, NEW a \in Annotated
    PROVE  Left(a, template[a]) <= Due(a)
<1>1. CASE ~Collected(a)
  <2>1. Left(a, template[a]) \in Nat
    BY DueTyped, SeenTyped
  <2>2. QED
    BY <1>1, <2>1 DEF Due
<1>2. CASE Collected(a) /\ a = "Configmap"
  <2>1. annotations[a] <= object[a].version /\ object[a].version \in Nat
    BY <1>2, SeenTyped DEF OrderInv, Named, Seen
  <2>2. template[a] \in Nat /\ annotations[a] \in Nat
    BY SeenTyped
  <2>3. QED
    BY <1>2, <2>1, <2>2 DEF Due, Left
<1>3. CASE Collected(a) /\ a \in Secrets
  <2>1. annotations[a] <= secret[a][1].version /\ a # "Configmap"
    BY <1>3, KindsApart DEF OrderInv, Named, Seen, Cached
  <2>2. annotations[a] \in Nat
    BY SeenTyped
  <2>3. secret[a] \in Seq(SecretVersion) /\ Len(secret[a]) > 0 /\ Increasing(secret[a])
    BY <1>3, SecretTyped DEF OrderInv, LogsOrdered
  <2>4. Ahead(secret[a], template[a])
           <= Ahead(secret[a], annotations[a]) + (IF annotations[a] # template[a] THEN 1 ELSE 0)
    BY <2>1, <2>2, <2>3, AheadForget
  <2>5. QED
    BY <1>3, <2>1, <2>4 DEF Due, Left
<1>4. QED
  BY <1>1, <1>2, <1>3 DEF Annotated

LEMMA DueTypedNext ==
    ASSUME TypeOK'
    PROVE  /\ \A a \in Annotated, v \in Nat : Left(a, v)' \in Nat
           /\ \A a \in Annotated : Due(a)' \in Nat
           /\ Debt' \in Nat
<1>1. \A s \in Secrets : secret'[s] \in Seq(SecretVersion)
  BY DEF TypeOK
<1>2. /\ \A a \in Annotated : template'[a] \in Nat /\ annotations'[a] \in Nat
      /\ step' \in 0..24
  BY PipelineLength DEF TypeOK
<1>3. \A a \in Annotated, v \in Nat : Left(a, v)' \in Nat
  BY <1>1, AheadTyped DEF Left, Annotated
<1>4. \A a \in Annotated : Due(a)' \in Nat
  <2>1. TAKE a \in Annotated
  <2>2. CASE Collected(a)'
    <3>1. Left(a, annotations[a])' \in Nat
      BY <1>2, <1>3 DEF Left
    <3>2. QED
      BY <2>2, <3>1 DEF Due
  <2>3. CASE ~Collected(a)'
    <3>1. Left(a, template[a])' \in Nat
      BY <1>2, <1>3 DEF Left
    <3>2. QED
      BY <2>3, <3>1 DEF Due
  <2>4. QED
    BY <2>2, <2>3
<1>5. QED
  BY <1>3, <1>4 DEF Debt, Annotated, Secrets

LEMMA DebtDown ==
    ASSUME TypeOK, TypeOK', \A a \in Annotated : Due(a)' <= Due(a)
    PROVE  Debt' <= Debt
<1>1. \A a \in Annotated : Due(a) \in Nat /\ Due(a)' \in Nat
  BY DueTyped, DueTypedNext
<1>2. QED
  BY <1>1 DEF Debt, Annotated, Secrets

LEMMA DebtUpByOne ==
    ASSUME TypeOK, TypeOK', NEW b \in Annotated, Due(b)' <= Due(b) + 1,
           \A a \in Annotated \ {b} : Due(a)' <= Due(a)
    PROVE  Debt' <= Debt + 1
<1>1. \A a \in Annotated : Due(a) \in Nat /\ Due(a)' \in Nat
  BY DueTyped, DueTypedNext
<1>2. QED
  BY <1>1 DEF Debt, Annotated, Secrets

\* The sync under way, if any, goes on as it was.
LEMMA DueOngoing ==
    ASSUME NEW a \in Annotated, UNCHANGED <<step, template, annotations>>, TypeOK, TypeOK',
           NEW d \in Nat, \A v \in Nat : Left(a, v)' <= Left(a, v) + d
    PROVE  Due(a)' <= Due(a) + d
<1>1. /\ template[a] \in Nat /\ annotations[a] \in Nat
      /\ template'[a] = template[a] /\ annotations'[a] = annotations[a]
      /\ Collected(a)' <=> Collected(a)
  BY SeenTyped DEF Collected
<1>2. /\ Left(a, template[a])' <= Left(a, template[a]) + d
      /\ Left(a, annotations[a])' <= Left(a, annotations[a]) + d
  BY <1>1 DEF Left
<1>3. /\ Left(a, template[a])' \in Nat /\ Left(a, template[a]) \in Nat
      /\ Left(a, annotations[a])' \in Nat /\ Left(a, annotations[a]) \in Nat
  BY <1>1, DueTyped, DueTypedNext DEF Left
<1>4. QED
  BY <1>1, <1>2, <1>3 DEF Due

\* The sync under way, if any, is given up.
LEMMA DueAborted ==
    ASSUME NEW a \in Annotated, step' \in {0, 1}, template' = template, TypeOK, TypeOK',
           OrderInv, \A v \in Nat : Left(a, v)' <= Left(a, v)
    PROVE  Due(a)' <= Due(a)
<1>1. template[a] \in Nat /\ template'[a] = template[a] /\ ~Collected(a)'
  BY SeenTyped DEF Collected
<1>2. Left(a, template[a])' <= Left(a, template[a])
  BY <1>1 DEF Left
<1>3. Left(a, template[a]) <= Due(a)
  BY Forgetting
<1>4. /\ Left(a, template[a])' \in Nat /\ Left(a, template[a]) \in Nat /\ Due(a) \in Nat
  BY <1>1, DueTyped, DueTypedNext DEF Left
<1>5. QED
  BY <1>1, <1>2, <1>3, <1>4 DEF Due

-----------------------------------------------------------------------------
(* The order of versions is kept                                            *)

\* Between two calls, or when a sync is given up or taken up.
LEMMA OrderCalm ==
    ASSUME TypeOK, OrderInv, object'["Configmap"] = object["Configmap"],
           UNCHANGED <<secret, template, rollouts>>,
           step' \in {0, 1} \/ UNCHANGED <<step, annotations>>
    PROVE  OrderInv'
<1>1. LogsOrdered' /\ (object["Configmap"].content = "required" => object["Configmap"].version > 0)'
  BY DEF OrderInv, LogsOrdered
<1>2. ASSUME NEW a \in Annotated PROVE Named(a)'
  <2>1. Named(a) /\ Seen(a)' = Seen(a) /\ template'[a] = template[a]
    BY DEF OrderInv, Seen, Cached
  <2>2. CASE step' \in {0, 1}
    <3>1. ~Collected(a)'
      BY <2>2, PositionFacts DEF Collected
    <3>2. QED
      BY <2>1, <3>1 DEF Named
  <2>3. CASE UNCHANGED <<step, annotations>>
    BY <2>1, <2>3 DEF Named, Collected
  <2>4. QED
    BY <2>2, <2>3
<1>3. QED
  BY <1>1, <1>2 DEF OrderInv

\* A Secret's log changes, and its oldest version is none the older for it.
LEMMA OrderSecret ==
    ASSUME TypeOK, TypeOK', OrderInv, NEW s \in Secrets,
           UNCHANGED <<object, template, rollouts, step, annotations>>,
           \A t \in Secrets \ {s} : secret'[t] = secret[t],
           Increasing(secret'[s]), KeysNumbered(secret'[s]),
           Cached(s).version <= secret'[s][1].version
    PROVE  OrderInv'
<1>1. LogsOrdered'
  BY DEF OrderInv, LogsOrdered
<1>2. (object["Configmap"].content = "required" => object["Configmap"].version > 0)'
  BY DEF OrderInv
<1>3. ASSUME NEW a \in Annotated PROVE Named(a)'
  <2>1. /\ template[a] \in Nat /\ annotations[a] \in Nat /\ Seen(a) \in Nat
        /\ template'[a] = template[a] /\ annotations'[a] = annotations[a]
        /\ Collected(a)' <=> Collected(a)
    BY SeenTyped DEF Collected
  <2>2. Named(a)
    BY <1>3 DEF OrderInv
  <2>3. Seen(a)' \in Nat /\ Seen(a) <= Seen(a)'
    <3>1. CASE a = "Configmap"
      BY <2>1, <3>1 DEF Seen
    <3>2. CASE a = s
      <4>1. secret'[s] \in Seq(SecretVersion) /\ Len(secret'[s]) > 0
        BY DEF TypeOK
      <4>2. secret'[s][1] \in SecretVersion
        BY <4>1
      <4>3. secret'[s][1].version \in Nat
        BY <4>2 DEF SecretVersion
      <4>4. QED
        BY <3>2, <4>3, KindsApart DEF Seen, Cached
    <3>3. CASE a \in Secrets \ {s}
      BY <2>1, <3>3, KindsApart DEF Seen, Cached
    <3>4. QED
      BY <3>1, <3>2, <3>3 DEF Annotated
  <2>4. QED
    BY <2>1, <2>2, <2>3 DEF Named
<1>4. QED
  BY <1>1, <1>2, <1>3 DEF OrderInv

LEMMA SecretStored ==
    ASSUME TypeOK, NEW s \in Secrets, NEW d \in {"absent", "empty", "keys"},
           StoreSecret(s, d), OrderInv
    PROVE  \E e \in SecretVersion :
              /\ e.version = secret[s][Len(secret[s])].version + 1
              /\ secret'[s] = Append(secret[s], e)
              /\ \A t \in Secrets \ {s} : secret'[t] = secret[t]
              /\ Increasing(secret'[s]) /\ KeysNumbered(secret'[s])
              /\ secret'[s][1] = secret[s][1]
<1> DEFINE e == [data |-> d, version |-> Live(s).version + 1]
<1>1. secret[s] \in Seq(SecretVersion) /\ Len(secret[s]) > 0
  BY DEF TypeOK
<1>2. Live(s) \in SecretVersion
  BY <1>1 DEF Live
<1>3. e \in SecretVersion /\ e.version = secret[s][Len(secret[s])].version + 1
  BY <1>2 DEF SecretVersion, Live
<1>4. /\ secret'[s] = Append(secret[s], e)
      /\ \A t \in Secrets \ {s} : secret'[t] = secret[t]
  BY DEF StoreSecret, TypeOK
<1>5. Increasing(secret[s]) /\ KeysNumbered(secret[s])
  BY DEF OrderInv, LogsOrdered
<1> HIDE DEF e
<1>6. /\ Increasing(Append(secret[s], e)) /\ KeysNumbered(Append(secret[s], e))
      /\ Append(secret[s], e)[1] = secret[s][1]
  BY <1>1, <1>3, <1>5, AppendOrdered
<1>7. QED
  BY <1>3, <1>4, <1>6

LEMMA OrderStore ==
    ASSUME TypeOK, TypeOK', OrderInv, NEW o \in Objects, NEW c \in {"required"} \cup Damage(o), Store(o, c),
           UNCHANGED <<secret, template, rollouts, step, annotations>>
    PROVE  OrderInv'
<1>1. LogsOrdered' /\ rollouts' = rollouts /\ template' = template
  BY DEF OrderInv, LogsOrdered
<1>2. /\ object["Configmap"].version \in Nat /\ object'["Configmap"].version \in Nat
      /\ object["Configmap"].version <= object'["Configmap"].version
      /\ (object["Configmap"].content = "required" => object["Configmap"].version > 0)'
  <2>1. object["Configmap"].version \in Nat
    BY KindsApart DEF TypeOK, Object
  <2>2. CASE o = "Configmap"
    <3>1. object'[o] = [content |-> c, version |-> object[o].version + 1]
      BY StoreTyped
    <3>2. object'[o].version = object[o].version + 1
      BY <3>1
    <3>3. QED
      BY <2>1, <2>2, <3>2
  <2>3. CASE o # "Configmap"
    <3>1. object'["Configmap"] = object["Configmap"]
      BY <2>3, StoreTyped, KindsApart
    <3>2. QED
      BY <2>1, <3>1 DEF OrderInv
  <2>4. QED
    BY <2>2, <2>3
<1>3. ASSUME NEW a \in Annotated PROVE Named(a)'
  <2>1. /\ template[a] \in Nat /\ annotations[a] \in Nat
        /\ template'[a] = template[a] /\ annotations'[a] = annotations[a]
        /\ Collected(a)' <=> Collected(a)
    BY SeenTyped DEF Collected
  <2>2. Named(a)
    BY <1>3 DEF OrderInv
  <2>3. Seen(a) \in Nat /\ Seen(a)' \in Nat /\ Seen(a) <= Seen(a)'
    BY <1>2, SeenTyped DEF Seen, Cached
  <2>4. QED
    BY <2>1, <2>2, <2>3 DEF Named
<1>4. QED
  BY <1>1, <1>2, <1>3 DEF OrderInv

-----------------------------------------------------------------------------
(* Every change is paid for                                                 *)

Spent == used["rotate"] + used["loseSecret"] + used["touch"]

LEMMA SpentTyped ==
    ASSUME TypeOK
    PROVE  Spent \in Nat
BY DEF TypeOK, EnvironmentSteps, Spent

LEMMA SpentBy ==
    ASSUME TypeOK, NEW k \in EnvironmentSteps, Spend(k)
    PROVE  Spent' = Spent + (IF k \in {"rotate", "loseSecret", "touch"} THEN 1 ELSE 0)
BY DEF TypeOK, EnvironmentSteps, Spend, Spent

LEMMA Balance ==
    ASSUME NEW r \in Nat, NEW d \in Nat, NEW e \in Nat, NEW s \in Nat, NEW t \in Nat,
           NEW n \in Nat, NEW k \in Nat, r + d <= s + k, e <= d + n, t = s + n
    PROVE  r + e <= t + k
OBVIOUS

\* A step that changes no template.
LEMMA Charged ==
    ASSUME TypeOK, TypeOK', CauseInv, rollouts' = rollouts, NEW n \in Nat,
           Debt' <= Debt + n, Spent' = Spent + n
    PROVE  CauseInv'
<1>1. Debt \in Nat /\ Spent \in Nat /\ rollouts \in Nat
  BY DueTyped, SpentTyped DEF TypeOK
<1>2. Debt' \in Nat
  BY DueTypedNext
<1>3. Spent' \in Nat
  BY <1>1
<1>4. rollouts + Debt <= Spent + (IF rollouts = 0 THEN 3 ELSE 1)
  BY DEF CauseInv, Spent
<1>5. rollouts' + Debt' <= Spent' + (IF rollouts' = 0 THEN 3 ELSE 1)
  <2> DEFINE allowance == IF rollouts = 0 THEN 3 ELSE 1
  <2>1. allowance \in Nat /\ allowance = (IF rollouts' = 0 THEN 3 ELSE 1)
    OBVIOUS
  <2>2. rollouts + Debt <= Spent + allowance
    BY <1>4
  <2> HIDE DEF allowance
  <2>3. rollouts + Debt' <= Spent' + allowance
    BY <1>1, <1>2, <1>3, <2>1, <2>2, Balance
  <2>4. QED
    BY <2>1, <2>3
<1>6. QED
  BY <1>5 DEF CauseInv, Spent

\* A sync is given up, or taken up, and nothing is stored.
LEMMA CauseAborted ==
    ASSUME TypeOK, TypeOK', OrderInv, CauseInv, step' \in {0, 1}, Spent' = Spent,
           object'["Configmap"] = object["Configmap"], UNCHANGED <<secret, template, rollouts>>
    PROVE  OrderInv' /\ CauseInv'
<1>1. OrderInv'
  BY OrderCalm
<1>2. \A a \in Annotated : Due(a)' <= Due(a)
  <2>1. TAKE a \in Annotated
  <2>2. \A v \in Nat : Left(a, v)' <= Left(a, v)
    <3>1. \A v \in Nat : Left(a, v)' = Left(a, v) /\ Left(a, v) \in Nat
      BY DueTyped DEF Left
    <3>2. QED
      BY <3>1
  <2>3. QED
    BY <2>2, DueAborted
<1>3. Debt' <= Debt
  BY <1>2, DebtDown
<1>4. Debt \in Nat /\ Debt' \in Nat /\ Spent \in Nat
  BY DueTyped, DueTypedNext, SpentTyped
<1>5. Debt' <= Debt + 0 /\ Spent' = Spent + 0
  BY <1>3, <1>4
<1>6. QED
  BY <1>1, <1>5, Charged

\* Nothing the invariant is about changes.
LEMMA CauseCalm ==
    ASSUME TypeOK, TypeOK', OrderInv, CauseInv, Spent' = Spent,
           UNCHANGED <<object, secret, template, rollouts, step, annotations>>
    PROVE  OrderInv' /\ CauseInv'
<1>1. OrderInv'
  BY OrderCalm
<1>2. \A a \in Annotated : Due(a)' <= Due(a)
  <2>1. TAKE a \in Annotated
  <2>2. Due(a)' = Due(a)
    BY DEF Due, Left, Collected
  <2>3. QED
    BY <2>2, DueTyped
<1>3. Debt' <= Debt
  BY <1>2, DebtDown
<1>4. Debt \in Nat /\ Debt' \in Nat /\ Spent \in Nat
  BY DueTyped, DueTypedNext, SpentTyped
<1>5. Debt' <= Debt + 0 /\ Spent' = Spent + 0
  BY <1>3, <1>4
<1>6. QED
  BY <1>1, <1>5, Charged

\* A new version of one Secret.
LEMMA CauseStoreSecret ==
    ASSUME TypeOK, TypeOK', OrderInv, CauseInv, NEW s \in Secrets,
           NEW d \in {"absent", "empty", "keys"}, StoreSecret(s, d),
           UNCHANGED <<object, template, rollouts, step, annotations>>,
           Spent' = Spent + 1 \/ (Spent' = Spent /\ Live(s).data # "keys")
    PROVE  OrderInv' /\ CauseInv'
<1>1. PICK e \in SecretVersion :
         /\ e.version = secret[s][Len(secret[s])].version + 1
         /\ secret'[s] = Append(secret[s], e)
         /\ \A t \in Secrets \ {s} : secret'[t] = secret[t]
         /\ Increasing(secret'[s]) /\ KeysNumbered(secret'[s])
         /\ secret'[s][1] = secret[s][1]
  BY SecretStored
<1>2. OrderInv'
  <2>1. Cached(s).version <= secret'[s][1].version
    BY <1>1, SecretTyped DEF Cached
  <2>2. QED
    BY <1>1, <2>1, OrderSecret
<1> DEFINE d1 == IF Live(s).data = "keys" THEN 1 ELSE 0
<1>3. \A v \in Nat : Left(s, v)' <= Left(s, v) + d1
  <2>1. TAKE v \in Nat
  <2>2. Ahead(secret'[s], v) <= Ahead(secret[s], v) + d1
    BY <1>1, SecretTyped, AheadAppend DEF Live
  <2>3. QED
    BY <2>2, KindsApart DEF Left
<1>4. Due(s)' <= Due(s) + d1
  <2>1. s \in Annotated /\ d1 \in Nat
    BY KindsApart
  <2> HIDE DEF d1
  <2>2. QED
    BY <1>3, <2>1, DueOngoing
<1>5. \A a \in Annotated \ {s} : Due(a)' <= Due(a)
  <2>1. TAKE a \in Annotated \ {s}
  <2>2. Due(a)' = Due(a)
    BY <1>1 DEF Due, Left, Collected, Annotated
  <2>3. QED
    BY <2>2, DueTyped
<1>6. Debt \in Nat /\ Debt' \in Nat /\ Spent \in Nat
  BY DueTyped, DueTypedNext, SpentTyped
<1>7. CASE Live(s).data = "keys"
  <2>1. Debt' <= Debt + 1
    BY <1>4, <1>5, <1>7, DebtUpByOne, KindsApart
  <2>2. Spent' = Spent + 1 \/ Spent' = Spent
    BY <1>7
  <2>3. QED
    BY <1>2, <1>7, <2>1, <2>2, Charged
<1>8. CASE Live(s).data # "keys"
  <2>1. Due(s)' <= Due(s)
    <3>1. Due(s) \in Nat
      BY DueTyped, KindsApart
    <3>2. QED
      BY <1>4, <1>8, <3>1
  <2>2. Debt' <= Debt
    BY <1>5, <2>1, DebtDown
  <2>3. Debt' <= Debt + 0 /\ Debt' <= Debt + 1
    BY <1>6, <2>2
  <2>4. Spent' = Spent + 0 \/ Spent' = Spent + 1
    BY <1>6
  <2>5. QED
    BY <1>2, <2>3, <2>4, Charged
<1>9. QED
  BY <1>7, <1>8

\* The informer catches up by one version of one Secret.
LEMMA CauseSecretEvent ==
    ASSUME TypeOK, TypeOK', OrderInv, CauseInv, NEW s \in Secrets, SecretEvent(s)
    PROVE  OrderInv' /\ CauseInv'
<1>1. /\ secret'[s] = Tail(secret[s]) /\ Len(secret[s]) > 1
      /\ \A t \in Secrets \ {s} : secret'[t] = secret[t]
      /\ UNCHANGED <<object, template, rollouts, step, annotations, used>>
  BY DEF SecretEvent, TypeOK, worker
<1>2. /\ secret[s] \in Seq(SecretVersion)
      /\ Increasing(secret[s]) /\ KeysNumbered(secret[s])
  BY DEF TypeOK, OrderInv, LogsOrdered
<1>3. OrderInv'
  <2>1. /\ Increasing(secret'[s]) /\ KeysNumbered(secret'[s])
        /\ secret'[s][1].version > Cached(s).version
    BY <1>1, <1>2, TailOrdered DEF Cached
  <2>2. Cached(s).version \in Nat /\ secret'[s][1].version \in Nat
    <3>1. secret'[s] \in Seq(SecretVersion) /\ Len(secret'[s]) > 0
      BY DEF TypeOK
    <3>2. secret'[s][1] \in SecretVersion
      BY <3>1
    <3>3. QED
      BY <3>2, SecretTyped DEF SecretVersion
  <2>3. Cached(s).version <= secret'[s][1].version
    BY <2>1, <2>2
  <2>4. QED
    BY <1>1, <2>1, <2>3, OrderSecret
<1>4. Due(s)' <= Due(s) + 0
  <2>1. \A v \in Nat : Left(s, v)' <= Left(s, v) + 0
    <3>1. TAKE v \in Nat
    <3>2. Ahead(secret'[s], v) <= Ahead(secret[s], v) /\ Ahead(secret[s], v) \in Nat
      BY <1>1, <1>2, AheadTail, AheadTyped
    <3>3. QED
      BY <3>2, KindsApart DEF Left
  <2>2. QED
    BY <1>1, <2>1, KindsApart, DueOngoing
<1>5. \A a \in Annotated : Due(a)' <= Due(a)
  <2>1. TAKE a \in Annotated
  <2>2. CASE a = s
    BY <1>4, <2>2, DueTyped
  <2>3. CASE a # s
    <3>1. Due(a)' = Due(a)
      BY <1>1, <2>3 DEF Due, Left, Collected, Annotated
    <3>2. QED
      BY <3>1, DueTyped
  <2>4. QED
    BY <2>2, <2>3
<1>6. Debt' <= Debt /\ Debt \in Nat /\ Debt' \in Nat /\ Spent \in Nat
  BY <1>5, DebtDown, DueTyped, DueTypedNext, SpentTyped
<1>7. Debt' <= Debt + 0 /\ Spent' = Spent + 0
  BY <1>1, <1>6 DEF Spent
<1>8. QED
  BY <1>1, <1>3, <1>7, Charged

\* Somebody edits or deletes an object; only the ConfigMap is of interest.
LEMMA CauseTouch ==
    ASSUME TypeOK, TypeOK', OrderInv, CauseInv, NEW o \in Touchable, Touch(o)
    PROVE  OrderInv' /\ CauseInv'
<1>1. /\ o \in Objects /\ Spent' = Spent + 1
      /\ UNCHANGED <<secret, template, rollouts, step, annotations>>
  BY TouchableAssumption, SpentBy DEF Touch, worker, EnvironmentSteps
<1>2. PICK c \in Damage(o) : Store(o, c)
  BY DEF Touch
<1>3. OrderInv'
  BY <1>1, <1>2, OrderStore
<1>4. \A a \in Secrets : Due(a)' <= Due(a)
  <2>1. TAKE a \in Secrets
  <2>2. Due(a)' = Due(a)
    BY <1>1, KindsApart DEF Due, Left, Collected
  <2>3. QED
    BY <2>2, DueTyped, KindsApart
<1>5. Due("Configmap")' <= Due("Configmap") + 1
  <2>1. "Configmap" \in Annotated
    BY DEF Annotated
  <2>2. \A v \in Nat : Left("Configmap", v)' <= Left("Configmap", v) + 1
    <3>1. TAKE v \in Nat
    <3>2. Left("Configmap", v)' \in {0, 1} /\ Left("Configmap", v) \in {0, 1}
      BY DEF Left
    <3>3. QED
      BY <3>2
  <2>3. QED
    BY <1>1, <2>1, <2>2, DueOngoing
<1>6. Debt' <= Debt + 1
  BY <1>4, <1>5, DebtUpByOne DEF Annotated
<1>7. QED
  BY <1>1, <1>3, <1>6, Charged

\* Where the worker is after a call, and what it has collected.
LEMMA CallAdvances ==
    ASSUME TypeOK, TypeOK', running, step > 0, Pipeline[step] # "Deployments", Advance
    PROVE  /\ step \in 1..23 /\ step' = step + 1
           /\ \A a \in Annotated :
                 IF Pipeline[step] = a THEN ~Collected(a) /\ Collected(a)'
                 ELSE Collected(a)' <=> Collected(a)
<1>1. step \in 1..23 /\ step' = step + 1
  <2>1. step \in 1..24
    BY PipelineLength DEF TypeOK
  <2>2. QED
    BY <2>1, PipelineLast, PipelineLength DEF Advance
<1>2. ASSUME NEW a \in Annotated
      PROVE  IF Pipeline[step] = a THEN ~Collected(a) /\ Collected(a)'
             ELSE Collected(a)' <=> Collected(a)
  <2>1. Position[a] \in Nat /\ (Pipeline[step] = a <=> step = Position[a])
    BY <1>1, PositionFacts
  <2>2. QED
    BY <1>1, <2>1 DEF Collected
<1>3. QED
  BY <1>1, <1>2

LEMMA CauseCheckSecret ==
    ASSUME TypeOK, TypeOK', OrderInv, CauseInv, NEW s \in Secrets, CheckSecretReady(s)
    PROVE  OrderInv' /\ CauseInv'
<1>1. UNCHANGED <<object, secret, template, rollouts, used>>
  BY DEF CheckSecretReady
<1>2. Spent' = Spent
  BY <1>1 DEF Spent
<1>3. CASE Fail
  BY <1>1, <1>2, <1>3, CauseAborted DEF Fail
<1>4. CASE /\ Cached(s).data = "keys"
           /\ annotations' = [annotations EXCEPT ![s] = Cached(s).version]
           /\ Advance
  <2>1. /\ Pipeline[step] = s /\ s \in Annotated /\ s # "Configmap"
        /\ \A a \in Annotated :
              IF Pipeline[step] = a THEN ~Collected(a) /\ Collected(a)'
              ELSE Collected(a)' <=> Collected(a)
    BY <1>4, CallAdvances, KindsApart DEF CheckSecretReady, At
  <2>2. /\ annotations'[s] = Cached(s).version
        /\ \A a \in Annotated \ {s} : annotations'[a] = annotations[a]
    BY <1>4, <2>1 DEF TypeOK
  <2>3. /\ secret[s] \in Seq(SecretVersion) /\ Len(secret[s]) > 0
        /\ Increasing(secret[s]) /\ Cached(s).version > 0 /\ Cached(s).version \in Nat
    <3>1. secret[s] \in Seq(SecretVersion) /\ Len(secret[s]) > 0 /\ Cached(s).version \in Nat
      BY SecretTyped
    <3>2. Increasing(secret[s]) /\ KeysNumbered(secret[s])
      BY DEF OrderInv, LogsOrdered
    <3>3. QED
      BY <1>4, <3>1, <3>2 DEF KeysNumbered, Cached
  <2>4. OrderInv'
    <3>1. /\ LogsOrdered'
          /\ (object["Configmap"].content = "required" => object["Configmap"].version > 0)'
          /\ (rollouts = 0 => template = NoVersions)'
      BY <1>1 DEF OrderInv, LogsOrdered
    <3>2. ASSUME NEW a \in Annotated PROVE Named(a)'
      <4>1. Named(a) /\ Seen(a)' = Seen(a) /\ template'[a] = template[a]
        BY <1>1 DEF OrderInv, Seen, Cached
      <4>2. CASE a = s
        BY <2>1, <2>2, <2>3, <4>1, <4>2 DEF Named, Seen
      <4>3. CASE a # s
        BY <2>1, <2>2, <4>1, <4>3 DEF Named
      <4>4. QED
        BY <4>2, <4>3
    <3>3. QED
      BY <3>1, <3>2 DEF OrderInv
  <2>5. Due(s)' <= Due(s)
    <3>1. /\ Due(s) = Ahead(secret[s], template[s])
          /\ Due(s)' = Ahead(secret[s], Cached(s).version)
                          + (IF Cached(s).version # template[s] THEN 1 ELSE 0)
      BY <1>1, <2>1, <2>2 DEF Due, Left
    <3>2. template[s] \in Nat /\ template[s] <= Cached(s).version
      BY <2>1, SeenTyped DEF OrderInv, Named, Seen
    <3>3. QED
      BY <1>4, <2>3, <3>1, <3>2, AheadRead DEF Cached
  <2>6. \A a \in Annotated : Due(a)' <= Due(a)
    <3>1. TAKE a \in Annotated
    <3>2. CASE a # s
      <4>1. Due(a)' = Due(a)
        BY <1>1, <2>1, <2>2, <3>2 DEF Due, Left
      <4>2. QED
        BY <4>1, DueTyped
    <3>3. QED
      BY <2>5, <3>2
  <2>7. Debt' <= Debt /\ Debt \in Nat /\ Debt' \in Nat /\ Spent \in Nat
    BY <2>6, DebtDown, DueTyped, DueTypedNext, SpentTyped
  <2>8. Debt' <= Debt + 0 /\ Spent' = Spent + 0
    BY <1>2, <2>7
  <2>9. QED
    BY <1>1, <2>4, <2>8, Charged
<1>5. QED
  BY <1>3, <1>4 DEF CheckSecretReady

LEMMA WriteConfigmap ==
    ASSUME TypeOK, NEW o \in Objects, Write(o), object'["Configmap"] # object["Configmap"]
    PROVE  /\ o = "Configmap" /\ object["Configmap"].content # "required"
           /\ object'["Configmap"].content = "required"
           /\ object'["Configmap"].version = object["Configmap"].version + 1
<1>1. Store(o, "required") /\ object[o].content # "required"
  BY DEF Write
<1>2. /\ object'[o] = [content |-> "required", version |-> object[o].version + 1]
      /\ o = "Configmap"
  BY <1>1, StoreTyped, KindsApart
<1>3. QED
  BY <1>1, <1>2

\* An apply that gets through.
LEMMA CauseApplied ==
    ASSUME TypeOK, TypeOK', OrderInv, CauseInv, NEW o \in Objects, At(o), Advance,
           Keep(o) \/ Write(o), UNCHANGED <<secret, template, rollouts, used>>,
           annotations' = IF o \in Annotated
                          THEN [annotations EXCEPT ![o] = object'[o].version]
                          ELSE annotations
    PROVE  OrderInv' /\ CauseInv'
<1> DEFINE c == "Configmap"
<1>1. /\ \A a \in Annotated :
            IF a = o THEN ~Collected(a) /\ Collected(a)' ELSE Collected(a)' <=> Collected(a)
      /\ \A a \in Annotated \ {o} : annotations'[a] = annotations[a]
  BY CallAdvances, KindsApart DEF At, TypeOK
<1>2. /\ c \in Annotated /\ (o \in Annotated => o = c)
      /\ object[c].version \in Nat /\ object'[c].version \in Nat
      /\ template[c] \in Nat /\ template[c] <= object[c].version
  <2>1. c \in Annotated /\ (o \in Annotated => o = c)
    BY KindsApart DEF Annotated
  <2>2. object[c].version \in Nat /\ object'[c].version \in Nat
    BY KindsApart DEF TypeOK, Object
  <2>3. template[c] \in Nat /\ template[c] <= object[c].version
    BY <2>1, SeenTyped DEF OrderInv, Named, Seen
  <2>4. QED
    BY <2>1, <2>2, <2>3
<1>3. o = c => annotations'[c] = object'[c].version
  BY <1>2 DEF TypeOK
<1>4. \/ /\ object'[c] = object[c]
         /\ o = c => object[c].content = "required"
      \/ /\ o = c /\ object[c].content # "required" /\ object'[c].content = "required"
         /\ object'[c].version = object[c].version + 1
  <2>1. CASE Keep(o)
    <3>1. o = c => ~SafeToSkip(o)
      BY DEF SafeToSkip, Memoized, Unstructured
    <3>2. QED
      BY <1>2, <2>1, <3>1, OnlyServicesOverlooked, KindsApart DEF Keep
  <2>2. CASE Write(o)
    <3>1. o = c => object'[c] # object[c]
      <4>1. ASSUME o = c PROVE object'[c].version = object[c].version + 1
        <5>1. object'[o] = [content |-> "required", version |-> object[o].version + 1]
          BY <2>2, StoreTyped DEF Write
        <5>2. QED
          BY <4>1, <5>1
      <4>2. QED
        BY <1>2, <4>1
    <3>2. QED
      BY <2>2, <3>1, WriteConfigmap
  <2>3. QED
    BY <2>1, <2>2
<1>5. /\ o = c => object'[c].content = "required"
      /\ object[c].version <= object'[c].version
      /\ object'[c].content = "required" => object'[c].version > 0
  BY <1>2, <1>4 DEF OrderInv
<1>6. OrderInv'
  <2>1. LogsOrdered' /\ (rollouts = 0 => template = NoVersions)'
    BY DEF OrderInv, LogsOrdered
  <2>2. ASSUME NEW a \in Annotated PROVE Named(a)'
    <3>1. Named(a) /\ template'[a] = template[a]
      BY DEF OrderInv
    <3>2. CASE a = c /\ o = c
      BY <1>2, <1>3, <1>5, <3>1, <3>2 DEF Named, Seen
    <3>3. CASE a = c /\ o # c
      <4>1. Seen(a)' = Seen(a)
        BY <1>4, <3>3 DEF Seen
      <4>2. QED
        BY <1>1, <3>1, <3>3, <4>1 DEF Named
    <3>4. CASE a # c
      <4>1. Seen(a)' = Seen(a) /\ a # o
        BY <1>2, <3>4 DEF Seen, Cached
      <4>2. QED
        BY <1>1, <3>1, <3>4, <4>1 DEF Named
    <3>5. QED
      BY <3>2, <3>3, <3>4
  <2>3. QED
    BY <1>5, <2>1, <2>2 DEF OrderInv
<1>7. \A a \in Annotated : Due(a)' <= Due(a)
  <2>1. TAKE a \in Annotated
  <2>2. CASE a = o
    <3>1. a = c
      BY <1>2, <2>2
    <3>2. Due(a) = IF object[c].version > template[c] \/ object[c].content # "required"
                   THEN 1 ELSE 0
      BY <1>1, <2>2, <3>1 DEF Due, Left
    <3>3. Due(a)' = IF object'[c].version # template[c] THEN 1 ELSE 0
      <4>1. Left(a, annotations[a])' = 0
        BY <1>2, <1>3, <1>5, <2>2, <3>1 DEF Left
      <4>2. QED
        BY <1>1, <1>3, <2>2, <3>1, <4>1 DEF Due
    <3>4. QED
      BY <1>2, <1>4, <2>2, <3>1, <3>2, <3>3
  <2>3. CASE a # o
    <3>1. a = c => object'[a] = object[a]
      BY <1>4, <2>3
    <3>2. Due(a)' = Due(a)
      BY <1>1, <2>3, <3>1 DEF Due, Left
    <3>3. QED
      BY <3>2, DueTyped
  <2>4. QED
    BY <2>2, <2>3
<1>8. Debt' <= Debt /\ Debt \in Nat /\ Debt' \in Nat /\ Spent \in Nat
  BY <1>7, DebtDown, DueTyped, DueTypedNext, SpentTyped
<1>9. Debt' <= Debt + 0 /\ Spent' = Spent + 0
  BY <1>8 DEF Spent
<1>10. QED
  BY <1>6, <1>9, Charged

\* An apply that ends the sync, its write done or not.
LEMMA CauseApplyFailed ==
    ASSUME TypeOK, TypeOK', OrderInv, CauseInv, NEW o \in Objects, Fail,
           UNCHANGED object \/ Write(o), Spent' = Spent,
           UNCHANGED <<secret, template, rollouts>>
    PROVE  OrderInv' /\ CauseInv'
<1> DEFINE c == "Configmap"
<1>1. CASE object'[c] = object[c]
  BY <1>1, CauseAborted DEF Fail
<1>2. CASE object'[c] # object[c]
  <2>1. /\ object[c].content # "required" /\ object'[c].content = "required"
        /\ object'[c].version = object[c].version + 1
    BY <1>2, WriteConfigmap
  <2>2. object[c].version \in Nat /\ object'[c].version \in Nat
    BY KindsApart DEF TypeOK, Object
  <2>3. OrderInv'
    <3>1. /\ LogsOrdered' /\ (rollouts = 0 => template = NoVersions)'
          /\ (object["Configmap"].content = "required" => object["Configmap"].version > 0)'
      BY <2>1, <2>2 DEF OrderInv, LogsOrdered
    <3>2. ASSUME NEW a \in Annotated PROVE Named(a)'
      <4>1. template[a] <= Seen(a) /\ template'[a] = template[a] /\ template[a] \in Nat
        BY SeenTyped DEF OrderInv, Named
      <4>2. template[a] <= Seen(a)'
        BY <2>1, <2>2, <4>1 DEF Seen, Cached
      <4>3. ~Collected(a)'
        BY PositionFacts DEF Collected, Fail
      <4>4. QED
        BY <4>1, <4>2, <4>3 DEF Named
    <3>3. QED
      BY <3>1, <3>2 DEF OrderInv
  <2>4. \A a \in Annotated : Due(a)' <= Due(a)
    <3>1. TAKE a \in Annotated
    <3>2. \A v \in Nat : Left(a, v)' <= Left(a, v)
      <4>1. TAKE v \in Nat
      <4>2. CASE a = c
        BY <2>1, <4>2 DEF Left
      <4>3. CASE a # c
        <5>1. Left(a, v)' = Left(a, v) /\ Left(a, v) \in Nat
          BY <4>3, DueTyped DEF Left
        <5>2. QED
          BY <5>1
      <4>4. QED
        BY <4>2, <4>3
    <3>3. QED
      BY <3>2, DueAborted DEF Fail
  <2>5. Debt' <= Debt /\ Debt \in Nat /\ Debt' \in Nat /\ Spent \in Nat
    BY <2>4, DebtDown, DueTyped, DueTypedNext, SpentTyped
  <2>6. Debt' <= Debt + 0 /\ Spent' = Spent + 0
    BY <2>5
  <2>7. QED
    BY <2>3, <2>6, Charged
<1>3. QED
  BY <1>1, <1>2

LEMMA CauseApply ==
    ASSUME TypeOK, TypeOK', OrderInv, CauseInv, NEW o \in Objects, Apply(o)
    PROVE  OrderInv' /\ CauseInv'
<1>1. UNCHANGED <<secret, template, rollouts>> /\ At(o)
  BY DEF Apply
<1>2. CASE /\ Keep(o) \/ Write(o)
           /\ annotations' = IF o \in Annotated
                             THEN [annotations EXCEPT ![o] = object'[o].version]
                             ELSE annotations
           /\ Advance
           /\ UNCHANGED used
  BY <1>1, <1>2, CauseApplied
<1>3. CASE Fail /\ UNCHANGED <<object, used>>
  <2>1. Spent' = Spent
    BY <1>3 DEF Spent
  <2>2. QED
    BY <1>1, <1>3, <2>1, CauseApplyFailed
<1>4. CASE Spend("apiFailure") /\ (UNCHANGED object \/ Write(o)) /\ Fail
  <2>1. Spent' = Spent
    BY <1>4, SpentBy, SpentTyped DEF EnvironmentSteps
  <2>2. QED
    BY <1>1, <1>4, <2>1, CauseApplyFailed
<1>5. CASE Down /\ UNCHANGED <<object, used>>
  <2>1. Spent' = Spent
    BY <1>5 DEF Spent
  <2>2. QED
    BY <1>1, <1>5, <2>1, CauseAborted DEF Down
<1>6. QED
  BY <1>2, <1>3, <1>4, <1>5 DEF Apply

LEMMA SumOfThree ==
    ASSUME NEW d, NEW e \in Nat, NEW x \in {0, 1}, NEW y \in {0, 1}, NEW z \in {0, 1},
           d = e + x + y + z
    PROVE  /\ x = 1 \/ y = 1 \/ z = 1 => e + 1 <= d
           /\ x = 1 /\ y = 1 /\ z = 1 => e + 3 <= d
OBVIOUS

LEMMA Pays ==
    ASSUME NEW d \in Nat, NEW e \in Nat, NEW s \in Nat
    PROVE  /\ d <= s + 3 /\ e + 3 <= d => 1 + e <= s + 1
           /\ \A r \in Nat : r + d <= s + 1 /\ e + 1 <= d => r + 1 + e <= s + 1
OBVIOUS

\* The pod template takes on what the sync has collected, and differs for it.
LEMMA CauseRollout ==
    ASSUME TypeOK, TypeOK', OrderInv, CauseInv, step = 24, step' = 0,
           template' = annotations, template' # template, rollouts' = rollouts + 1,
           Spent' = Spent, UNCHANGED <<object, secret, annotations>>
    PROVE  OrderInv' /\ CauseInv'
<1>1. \A a \in Annotated :
         /\ Collected(a) /\ ~Collected(a)' /\ template'[a] = annotations[a]
         /\ annotations[a] > 0 /\ annotations[a] <= Seen(a) /\ Seen(a)' = Seen(a)
         /\ Left(a, annotations[a]) \in Nat
  <2>1. TAKE a \in Annotated
  <2>2. Collected(a) /\ ~Collected(a)'
    BY PositionFacts DEF Collected
  <2>3. annotations[a] > 0 /\ annotations[a] <= Seen(a) /\ Seen(a)' = Seen(a)
    BY <2>2 DEF OrderInv, Named, Seen, Cached
  <2>4. Left(a, annotations[a]) \in Nat
    BY DueTyped, SeenTyped
  <2>5. QED
    BY <2>2, <2>3, <2>4
<1>2. rollouts \in Nat /\ rollouts' # 0
  BY DEF TypeOK
<1>3. OrderInv'
  <2>1. LogsOrdered'
    BY DEF OrderInv, LogsOrdered
  <2>2. \A a \in Annotated : Named(a)'
    BY <1>1 DEF Named
  <2>3. QED
    BY <1>2, <2>1, <2>2 DEF OrderInv
<1> DEFINE fresh(a) == IF annotations[a] # template[a] THEN 1 ELSE 0
<1>4. \A a \in Annotated : Due(a) = Due(a)' + fresh(a) /\ Due(a)' \in Nat
  <2>1. TAKE a \in Annotated
  <2>2. Due(a) = Left(a, annotations[a]) + fresh(a)
    BY <1>1 DEF Due
  <2>3. Due(a)' = Left(a, annotations[a])
    BY <1>1 DEF Due, Left
  <2>4. QED
    BY <1>1, <2>2, <2>3
<1>5. PICK b \in Annotated : annotations[b] # template[b]
  BY DEF TypeOK
<1>6. rollouts = 0 => \A a \in Annotated : annotations[a] # template[a]
  BY <1>1 DEF OrderInv, NoVersions
<1>7. Debt = Debt' + fresh("WebhookSecret") + fresh("MetricsSecret") + fresh("Configmap")
  BY <1>4 DEF Debt, Annotated, Secrets
<1>8. /\ Debt' + 1 <= Debt
      /\ rollouts = 0 => Debt' + 3 <= Debt
  <2>1. Debt' \in Nat
    BY DueTypedNext
  <2>2. /\ fresh("WebhookSecret") \in {0, 1} /\ fresh("MetricsSecret") \in {0, 1}
        /\ fresh("Configmap") \in {0, 1}
        /\ fresh("WebhookSecret") = 1 \/ fresh("MetricsSecret") = 1 \/ fresh("Configmap") = 1
        /\ rollouts = 0 => /\ fresh("WebhookSecret") = 1 /\ fresh("MetricsSecret") = 1
                           /\ fresh("Configmap") = 1
    BY <1>5, <1>6 DEF Annotated, Secrets
  <2> HIDE DEF fresh
  <2>3. QED
    BY <1>7, <2>1, <2>2, SumOfThree
<1>9. Debt \in Nat /\ Debt' \in Nat /\ Spent \in Nat
  BY DueTyped, DueTypedNext, SpentTyped
<1>10. rollouts' + Debt' <= Spent' + 1
  <2>1. CASE rollouts = 0
    <3>1. Debt <= Spent + 3
      BY <1>9, <2>1 DEF CauseInv, Spent
    <3>2. 1 + Debt' <= Spent + 1
      BY <1>8, <1>9, <2>1, <3>1, Pays
    <3>3. rollouts' = 1 /\ Spent' = Spent
      BY <2>1
    <3>4. QED
      BY <3>2, <3>3
  <2>2. CASE rollouts # 0
    <3>1. rollouts + Debt <= Spent + 1
      BY <2>2 DEF CauseInv, Spent
    <3>2. rollouts + 1 + Debt' <= Spent + 1
      BY <1>2, <1>8, <1>9, <3>1, Pays
    <3>3. QED
      BY <3>2
  <2>3. QED
    BY <2>1, <2>2
<1>11. QED
  BY <1>2, <1>3, <1>10 DEF CauseInv, Spent

LEMMA CauseDeployments ==
    ASSUME TypeOK, TypeOK', OrderInv, CauseInv, ManageDeployments
    PROVE  OrderInv' /\ CauseInv'
<1>1. step = 24 /\ step' = 0
  <2>1. step \in 1..24 /\ Pipeline[step] = "Deployments"
    BY PipelineLength DEF ManageDeployments, At, TypeOK
  <2>2. step = 24
    BY <2>1, PipelineLast
  <2>3. QED
    BY <2>2, PipelineLength DEF ManageDeployments, Advance, Fail
<1>2. Spent' = Spent
  <2>1. UNCHANGED used \/ Spend("apiFailure")
    BY DEF ManageDeployments
  <2>2. QED
    BY <2>1, SpentBy, SpentTyped DEF EnvironmentSteps, Spent
<1>3. CASE template' = template
  BY <1>1, <1>2, <1>3, CauseAborted DEF ManageDeployments
<1>4. CASE template' # template
  BY <1>1, <1>2, <1>4, CauseRollout DEF ManageDeployments
<1>5. QED
  BY <1>3, <1>4

\* One step per action.
LEMMA CauseStep ==
    ASSUME TypeOK, OrderInv, CauseInv, [Next]_vars
    PROVE  OrderInv' /\ CauseInv'
<1>1. TypeOK'
  BY TypeStep
<1>2. ASSUME NEW o \in Objects, Apply(o) PROVE OrderInv' /\ CauseInv'
  BY <1>1, <1>2, CauseApply
<1>3. ASSUME NEW s \in Secrets, CheckSecretReady(s) PROVE OrderInv' /\ CauseInv'
  BY <1>1, <1>3, CauseCheckSecret
<1>4. CASE ManageDeployments
  BY <1>1, <1>4, CauseDeployments
<1>5. CASE Dequeue
  BY <1>1, <1>5, CauseAborted DEF Dequeue, Spent
<1>6. CASE Crash
  <2>1. Spent' = Spent
    BY <1>6, SpentBy, SpentTyped DEF Crash, EnvironmentSteps
  <2>2. QED
    BY <1>1, <1>6, <2>1, CauseAborted DEF Crash, Down
<1>7. CASE RetryAfterBackoff \/ PeriodicResync \/ ConfigMapEvent \/ Restart \/ UNCHANGED vars
  <2>1. UNCHANGED <<object, secret, template, rollouts, step, annotations, used>>
    BY <1>7 DEF RetryAfterBackoff, PeriodicResync, ConfigMapEvent, Restart, worker, vars
  <2>2. QED
    BY <1>1, <2>1, CauseCalm DEF Spent
<1>8. ASSUME NEW s \in Secrets, SecretEvent(s) PROVE OrderInv' /\ CauseInv'
  BY <1>1, <1>8, CauseSecretEvent
<1>9. ASSUME NEW s \in Secrets, IssueSecret(s) PROVE OrderInv' /\ CauseInv'
  <2>1. /\ Live(s).data # "keys" /\ Spent' = Spent
        /\ UNCHANGED <<object, template, rollouts, step, annotations>>
        /\ \E d \in {"absent", "empty", "keys"} : StoreSecret(s, d)
    BY <1>9 DEF IssueSecret, worker, Spent
  <2>2. QED
    BY <1>1, <2>1, CauseStoreSecret
<1>10. ASSUME NEW s \in Secrets, RotateSecret(s) \/ LoseSecret(s) PROVE OrderInv' /\ CauseInv'
  <2>1. /\ UNCHANGED <<object, template, rollouts, step, annotations>>
        /\ \E d \in {"absent", "empty", "keys"} : StoreSecret(s, d)
    BY <1>10 DEF RotateSecret, LoseSecret, worker
  <2>2. Spent' = Spent + 1
    BY <1>10, SpentBy DEF RotateSecret, LoseSecret, EnvironmentSteps
  <2>3. QED
    BY <1>1, <2>1, <2>2, CauseStoreSecret
<1>11. ASSUME NEW o \in Touchable, Touch(o) PROVE OrderInv' /\ CauseInv'
  BY <1>1, <1>11, CauseTouch
<1>12. QED
  BY <1>2, <1>3, <1>4, <1>5, <1>6, <1>7, <1>8, <1>9, <1>10, <1>11 DEF Next, Worker

\* Nothing is named yet and everything is still to come.
LEMMA CauseInit == Init => OrderInv /\ CauseInv
<1> SUFFICES ASSUME Init PROVE OrderInv /\ CauseInv
  OBVIOUS
<1> DEFINE blank == [data |-> "absent", version |-> 0]
<1>1. /\ \A s \in Secrets : secret[s] = <<blank>>
      /\ object["Configmap"] = [content |-> "absent", version |-> 0]
      /\ \A a \in Annotated : template[a] = 0
      /\ step = 0 /\ rollouts = 0 /\ \A k \in EnvironmentSteps : used[k] = 0
  BY KindsApart DEF Init, NoVersions
<1>2. OrderInv
  <2>1. LogsOrdered
    BY <1>1 DEF LogsOrdered, Increasing, KeysNumbered
  <2>2. \A a \in Annotated : Named(a)
    BY <1>1, PositionFacts DEF Named, Collected, Seen, Cached, Annotated
  <2>3. QED
    BY <1>1, <2>1, <2>2 DEF OrderInv, Init
<1>3. \A a \in Annotated : Due(a) = 1
  <2>1. TAKE a \in Annotated
  <2>2. Due(a) = Left(a, 0)
    BY <1>1, PositionFacts DEF Due, Collected
  <2>3. CASE a = "Configmap"
    BY <1>1, <2>2, <2>3 DEF Left
  <2>4. CASE a # "Configmap"
    <3>1. secret[a] = <<blank>>
      BY <1>1, <2>4 DEF Annotated
    <3>2. KeysAfter(<<blank>>, 0) = {}
      BY DEF KeysAfter, Entries
    <3>3. Ahead(<<blank>>, 0) = 1
      BY <3>2, FS_EmptySet DEF Ahead
    <3>4. QED
      BY <2>2, <2>4, <3>1, <3>3 DEF Left
  <2>5. QED
    BY <2>3, <2>4
<1>4. CauseInv
  BY <1>1, <1>3 DEF CauseInv, Debt, Annotated, Secrets, EnvironmentSteps
<1>5. QED
  BY <1>2, <1>4

\* The pod template changes once for the first rollout and at most once more for each
\* rotated or lost Secret and each change people make, however syncs are retried, resynced,
\* cut off by crashes or fed by an informer that lags behind.
THEOREM NoNeedlessRollout == Spec => []RolloutsHaveCause
<1>1. TypeOK /\ OrderInv /\ CauseInv /\ [Next]_vars => OrderInv' /\ CauseInv'
  BY CauseStep
<1>2. TypeOK /\ CauseInv => RolloutsHaveCause
  <2> SUFFICES ASSUME TypeOK, CauseInv PROVE RolloutsHaveCause
    OBVIOUS
  <2>1. Debt \in Nat /\ Spent \in Nat /\ rollouts \in Nat
    BY DueTyped, SpentTyped DEF TypeOK
  <2>2. CASE rollouts = 0
    <3>1. 0 <= 1 + Spent
      BY <2>1
    <3>2. QED
      BY <2>2, <3>1 DEF RolloutsHaveCause, Spent, TypeOK, EnvironmentSteps
  <2>3. CASE rollouts # 0
    <3>1. rollouts + Debt <= Spent + 1
      BY <2>3 DEF CauseInv, Spent
    <3>2. rollouts <= 1 + Spent
      BY <2>1, <3>1
    <3>3. QED
      BY <3>2 DEF RolloutsHaveCause, Spent, TypeOK, EnvironmentSteps
  <2>4. QED
    BY <2>2, <2>3
<1>3. QED
  BY <1>1, <1>2, CauseInit, RolloutTypeCorrect, PTL DEF Spec

-----------------------------------------------------------------------------
(* What a rollout names was fit to run with                                 *)

Reach == TypeOK /\ CacheInv /\ OrderInv /\ CauseInv

LEMMA ReachStep == Reach /\ [Next]_vars => Reach'
<1> SUFFICES ASSUME Reach, [Next]_vars PROVE Reach'
  OBVIOUS
<1>1. TypeOK' /\ CacheInv'
  BY TypeStep, CacheStep DEF Reach
<1>2. OrderInv' /\ CauseInv'
  BY CauseStep DEF Reach
<1>3. QED
  BY <1>1, <1>2 DEF Reach

LEMMA ReachInit == Init => Reach
BY TypeInit, CacheInit, CauseInit DEF Reach

\* A Secret's log stays, loses its first version to the informer or gets one more.
LogMove(log, moved) ==
    \/ moved = log
    \/ Len(log) > 1 /\ moved = Tail(log)
    \/ \E e \in SecretVersion : /\ e.version = log[Len(log)].version + 1
                                /\ moved = Append(log, e)

LEMMA LogMoves ==
    ASSUME TypeOK, OrderInv, [Next]_vars, NEW s \in Secrets
    PROVE  LogMove(secret[s], secret'[s])
<1> DEFINE Goal == LogMove(secret[s], secret'[s])
<1> HIDE DEF Goal
<1>1. ASSUME secret' = secret PROVE Goal
  BY <1>1 DEF Goal, LogMove
<1>2. ASSUME NEW t \in Secrets, SecretEvent(t) PROVE Goal
  BY <1>2 DEF SecretEvent, TypeOK, Goal, LogMove
<1>3. ASSUME NEW t \in Secrets, NEW d \in {"absent", "empty", "keys"}, StoreSecret(t, d)
      PROVE  Goal
  BY <1>3, SecretStored DEF Goal, LogMove
<1>4. ASSUME NEW t \in Secrets, IssueSecret(t) \/ RotateSecret(t) \/ LoseSecret(t) PROVE Goal
  BY <1>3, <1>4 DEF IssueSecret, RotateSecret, LoseSecret
<1>5. Goal
  BY <1>1, <1>2, <1>4
  DEF Next, Worker, Dequeue, Apply, CheckSecretReady, ManageDeployments, RetryAfterBackoff,
      PeriodicResync, ConfigMapEvent, Crash, Restart, Touch, vars
<1>6. QED
  BY <1>5 DEF Goal

LEMMA ConfigmapMoves ==
    ASSUME TypeOK, CacheInv, [Next]_vars
    PROVE  \/ object'["Configmap"] = object["Configmap"]
           \/ object'["Configmap"].version = object["Configmap"].version + 1
<1> DEFINE c == "Configmap"
<1>1. c \in Objects
  BY KindsApart
<1>2. ASSUME NEW o \in Objects, Apply(o)
      PROVE  object'[c] = object[c] \/ object'[c].version = object[c].version + 1
  <2>1. /\ c # o => object'[c] = object[c]
        /\ \/ object'[o] = object[o]
           \/ object'[o] = [content |-> "required", version |-> object[o].version + 1]
    BY <1>1, <1>2, ApplyOutcome
  <2>2. object'[o] = object[o] \/ object'[o].version = object[o].version + 1
    BY <2>1
  <2>3. QED
    BY <2>1, <2>2
<1>3. ASSUME NEW o \in Touchable, Touch(o)
      PROVE  object'[c] = object[c] \/ object'[c].version = object[c].version + 1
  <2>1. o \in Objects
    BY TouchableAssumption
  <2>2. PICK k \in Damage(o) : Store(o, k)
    BY <1>3 DEF Touch
  <2>3. /\ object'[o] = [content |-> k, version |-> object[o].version + 1]
        /\ c # o => object'[c] = object[c]
    BY <1>1, <2>1, <2>2, StoreTyped
  <2>4. object'[o].version = object[o].version + 1
    BY <2>3
  <2>5. QED
    BY <2>3, <2>4
<1>4. ASSUME UNCHANGED object
      PROVE  object'[c] = object[c] \/ object'[c].version = object[c].version + 1
  BY <1>4
<1>5. QED
  BY <1>2, <1>3, <1>4
  DEF Next, Worker, Dequeue, CheckSecretReady, ManageDeployments, RetryAfterBackoff,
      PeriodicResync, ConfigMapEvent, Crash, Restart, SecretEvent, IssueSecret, RotateSecret,
      LoseSecret, vars

\* A move makes the last version no older, and every other version was there before.
OthersFrom(log, moved) ==
    \A i \in 1..Len(moved) :
        moved[i] = moved[Len(moved)] \/ \E j \in 1..Len(log) : moved[i] = log[j]

LEMMA LogEnds ==
    ASSUME NEW log \in Seq(SecretVersion), Len(log) > 0, Increasing(log), NEW moved,
           LogMove(log, moved)
    PROVE  /\ log[Len(log)].version \in Nat /\ log[1].version \in Nat
           /\ log[Len(log)].version <= moved[Len(moved)].version
           /\ OthersFrom(log, moved)
<1>1. Len(log) \in Nat /\ log[Len(log)] \in SecretVersion /\ log[1] \in SecretVersion
  OBVIOUS
<1>2. log[Len(log)].version \in Nat /\ log[1].version \in Nat
  BY <1>1 DEF SecretVersion
<1>3. CASE moved = log
  BY <1>1, <1>2, <1>3 DEF OthersFrom
<1>4. CASE Len(log) > 1 /\ moved = Tail(log)
  <2>1. /\ Len(moved) = Len(log) - 1
        /\ \A i \in 1..Len(log) - 1 : moved[i] = log[i + 1]
    BY <1>4
  <2>2. moved[Len(moved)] = log[Len(log)]
    BY <1>1, <1>4, <2>1
  <2>3. QED
    BY <1>1, <1>2, <2>1, <2>2 DEF OthersFrom
<1>5. ASSUME NEW e \in SecretVersion, e.version = log[Len(log)].version + 1,
             moved = Append(log, e)
      PROVE  /\ log[Len(log)].version <= moved[Len(moved)].version
             /\ OthersFrom(log, moved)
  <2>1. /\ Len(moved) = Len(log) + 1 /\ moved[Len(moved)] = e
        /\ \A i \in 1..Len(log) : moved[i] = log[i]
    BY <1>5
  <2>2. QED
    BY <1>1, <1>2, <1>5, <2>1 DEF OthersFrom
<1>6. QED
  BY <1>2, <1>3, <1>4, <1>5 DEF LogMove

\* What the API server holds of an annotated object only gets newer.
LEMMA VersionsGrow ==
    ASSUME TypeOK, CacheInv, OrderInv, [Next]_vars, NEW a \in Annotated
    PROVE  CurrentVersions[a] \in Nat /\ CurrentVersions[a] <= CurrentVersions'[a]
<1>1. CASE a = "Configmap"
  <2>1. object[a].version \in Nat
    BY <1>1, KindsApart DEF TypeOK, Object
  <2>2. object[a].version <= object'[a].version
    BY <1>1, <2>1, ConfigmapMoves
  <2>3. QED
    BY <1>1, <2>1, <2>2 DEF CurrentVersions
<1>2. CASE a # "Configmap"
  <2>1. a \in Secrets /\ secret[a] \in Seq(SecretVersion) /\ Len(secret[a]) > 0
    BY <1>2, SecretTyped DEF Annotated
  <2>2. Increasing(secret[a])
    BY <2>1 DEF OrderInv, LogsOrdered
  <2>3. /\ secret[a][Len(secret[a])].version \in Nat
        /\ secret[a][Len(secret[a])].version <= secret'[a][Len(secret'[a])].version
    BY <2>1, <2>2, LogMoves, LogEnds
  <2>4. QED
    BY <1>2, <2>3 DEF CurrentVersions, Live
<1>3. QED
  BY <1>1, <1>2

\* What a sync has collected of a after a step, it had collected before, or it has just
\* read it from the lister or from the reply of an apply.
CollectedBefore(a) == Collected(a) /\ annotations'[a] = annotations[a]
ReadFromLister(a) ==
    /\ a \in Secrets /\ Cached(a).data = "keys" /\ secret' = secret
    /\ annotations'[a] = Cached(a).version
ReadFromReply(a) ==
    /\ a = "Configmap" /\ object'[a].content = "required"
    /\ annotations'[a] = object'[a].version

LEMMA AnnotationsMove ==
    ASSUME TypeOK, CacheInv, [Next]_vars, NEW a \in Annotated, Collected(a)'
    PROVE  /\ template' = template
           /\ CollectedBefore(a) \/ ReadFromLister(a) \/ ReadFromReply(a)
<1> DEFINE Goal == /\ template' = template
                   /\ CollectedBefore(a) \/ ReadFromLister(a) \/ ReadFromReply(a)
<1> HIDE DEF Goal
<1>1. TypeOK' /\ Position[a] \in {14, 16, 17} /\ step \in 0..24
  BY TypeStep, SeenTyped
<1>2. step' > 1
  <2>1. step' \in 0..24
    BY <1>1, PipelineLength DEF TypeOK
  <2>2. QED
    BY <1>1, <2>1 DEF Collected
<1>3. ASSUME UNCHANGED <<step, annotations, template>> PROVE Goal
  BY <1>3 DEF Goal, CollectedBefore, Collected
<1>4. ASSUME NEW o \in Objects, Apply(o) PROVE Goal
  <2>1. ~Fail /\ ~Down
    BY <1>2 DEF Fail, Down
  <2>2. Advance
    BY <1>4, <2>1, ApplyOutcome
  <2>3. /\ annotations' = IF o \in Annotated
                          THEN [annotations EXCEPT ![o] = object'[o].version]
                          ELSE annotations
        /\ At(o) /\ template' = template
        /\ o = "Configmap" => object'[o].content = "required"
    BY <1>4, <2>1, ApplyOutcome, OnlyServicesOverlooked DEF Apply
  <2>4. running /\ step > 0 /\ Pipeline[step] = o /\ o # "Deployments"
    BY <2>3, KindsApart DEF At
  <2>5. IF o = a THEN ~Collected(a) ELSE Collected(a)
    BY <1>1, <2>2, <2>4, CallAdvances
  <2>6. CASE a = o
    <3>1. a = "Configmap"
      BY <2>6, KindsApart DEF Annotated
    <3>2. QED
      BY <2>3, <2>6, <3>1 DEF Goal, ReadFromReply, TypeOK
  <2>7. CASE a # o
    <3>1. annotations'[a] = annotations[a]
      BY <2>3, <2>7 DEF TypeOK
    <3>2. QED
      BY <2>3, <2>5, <2>7, <3>1 DEF Goal, CollectedBefore
  <2>8. QED
    BY <2>6, <2>7
<1>5. ASSUME NEW s \in Secrets, CheckSecretReady(s) PROVE Goal
  <2>1. /\ Advance /\ Cached(s).data = "keys" /\ At(s)
        /\ annotations' = [annotations EXCEPT ![s] = Cached(s).version]
        /\ UNCHANGED <<template, secret>>
    BY <1>2, <1>5 DEF CheckSecretReady, Fail
  <2>2. running /\ step > 0 /\ Pipeline[step] = s /\ s # "Deployments"
    BY <2>1, KindsApart DEF At
  <2>3. IF s = a THEN ~Collected(a) ELSE Collected(a)
    BY <1>1, <2>1, <2>2, CallAdvances
  <2>4. annotations'[a] = IF a = s THEN Cached(s).version ELSE annotations[a]
    BY <2>1 DEF TypeOK
  <2>5. QED
    BY <2>1, <2>3, <2>4 DEF Goal, CollectedBefore, ReadFromLister
<1>6. ~(Dequeue \/ Crash)
  BY <1>2 DEF Dequeue, Crash, Down
<1>7. ~ManageDeployments
  <2> SUFFICES ASSUME ManageDeployments PROVE FALSE
    OBVIOUS
  <2>1. step \in 1..24 /\ Pipeline[step] = "Deployments"
    BY <1>1 DEF ManageDeployments, At
  <2>2. step = 24
    BY <2>1, PipelineLast
  <2>3. QED
    BY <1>2, <2>2, PipelineLength DEF ManageDeployments, Advance, Fail
<1>8. Goal
  BY <1>3, <1>4, <1>5, <1>6, <1>7
  DEF Next, Worker, RetryAfterBackoff, PeriodicResync, ConfigMapEvent, Restart, SecretEvent,
      IssueSecret, RotateSecret, LoseSecret, Touch, worker, vars
<1>9. QED
  BY <1>8 DEF Goal

\* The pod template changes only in the last call, to what the sync has collected.
LEMMA TemplateMoves ==
    ASSUME TypeOK, [Next]_vars, template' # template
    PROVE  /\ step = 24 /\ template' = annotations
           /\ UNCHANGED <<object, secret>>
<1>1. ManageDeployments
  BY DEF Next, Worker, Dequeue, Apply, CheckSecretReady, RetryAfterBackoff, PeriodicResync,
         ConfigMapEvent, Crash, Restart, SecretEvent, IssueSecret, RotateSecret, LoseSecret,
         Touch, worker, vars
<1>2. step \in 1..24 /\ Pipeline[step] = "Deployments"
  BY <1>1, PipelineLength DEF ManageDeployments, At, TypeOK
<1>3. QED
  BY <1>1, <1>2, PipelineLast DEF ManageDeployments

\* The strengthening: every version that is still to be read and fit, and every version a
\* sync has collected, is in the history, and nothing in the history is newer than what
\* the API server holds; what a sync has collected is no older than what the template names.
FitInv ==
    /\ fit \in [Annotated -> SUBSET Nat]
    /\ \A a \in Annotated : \A v \in fit[a] : v <= CurrentVersions[a]
    /\ \A s \in Secrets : \A i \in 1..Len(secret[s]) :
          secret[s][i].data = "keys" => secret[s][i].version \in fit[s]
    /\ object["Configmap"].content = "required" => object["Configmap"].version \in fit["Configmap"]
    /\ \A a \in Annotated :
          Collected(a) => annotations[a] \in fit[a] /\ template[a] <= annotations[a]

\* What a step adds to the history is what the API server holds after it.
LEMMA FitGrows ==
    ASSUME Reach, FitInv, HistoryNext, NEW a \in Annotated
    PROVE  /\ fit[a] \subseteq fit'[a]
           /\ \A v \in fit'[a] \ fit[a] : v = CurrentVersions'[a]
           /\ Fit(a)' => CurrentVersions'[a] \in fit'[a]
           /\ CurrentVersions[a] \in Nat /\ CurrentVersions'[a] \in Nat
           /\ CurrentVersions[a] <= CurrentVersions'[a]
<1>1. Next
  BY DEF HistoryNext
<1>2. Reach'
  BY <1>1, ReachStep
<1>3. /\ CurrentVersions[a] \in Nat /\ CurrentVersions[a] <= CurrentVersions'[a]
  BY <1>1, VersionsGrow DEF Reach
<1>4. CurrentVersions'[a] \in Nat
  <2>1. CASE a = "Configmap"
    <3>1. object'[a].version \in Nat
      BY <1>2, <2>1, KindsApart DEF Reach, TypeOK, Object
    <3>2. QED
      BY <2>1, <3>1 DEF CurrentVersions
  <2>2. CASE a # "Configmap"
    <3>1. secret'[a] \in Seq(SecretVersion) /\ Len(secret'[a]) > 0
      BY <1>2, <2>2 DEF Reach, TypeOK, Annotated
    <3>2. secret'[a][Len(secret'[a])] \in SecretVersion
      BY <3>1
    <3>3. QED
      BY <2>2, <3>2 DEF CurrentVersions, Live, SecretVersion
  <2>3. QED
    BY <2>1, <2>2
<1>5. fit'[a] = fit[a] \cup FitVersions(a)'
  BY DEF HistoryNext
<1>6. FitVersions(a)' = IF Fit(a)' THEN {CurrentVersions'[a]} ELSE {}
  BY DEF FitVersions
<1>7. QED
  BY <1>3, <1>4, <1>5, <1>6

LEMMA FitStep ==
    ASSUME Reach, FitInv, HistoryNext
    PROVE  FitInv'
<1>1. Next /\ Reach' /\ TypeOK /\ CacheInv /\ OrderInv
  BY ReachStep DEF HistoryNext, Reach
<1>2. fit' \in [Annotated -> SUBSET Nat]
  <2>1. fit' = [a \in Annotated |-> fit[a] \cup FitVersions(a)']
    BY DEF HistoryNext
  <2>2. ASSUME NEW a \in Annotated PROVE fit'[a] \in SUBSET Nat
    <3>1. fit[a] \subseteq Nat
      BY DEF FitInv
    <3>2. \A v \in fit'[a] : v \in fit[a] \/ v = CurrentVersions'[a]
      BY FitGrows
    <3>3. CurrentVersions'[a] \in Nat
      BY FitGrows
    <3>4. QED
      BY <3>1, <3>2, <3>3
  <2>3. QED
    BY <2>1, <2>2
<1>3. ASSUME NEW a \in Annotated, NEW v \in fit'[a]
      PROVE  v <= CurrentVersions'[a]
  <2>1. CASE v \in fit[a]
    <3>1. v <= CurrentVersions[a] /\ v \in Nat
      BY <2>1 DEF FitInv
    <3>2. QED
      BY <3>1, FitGrows
  <2>2. CASE v \notin fit[a]
    <3>1. v = CurrentVersions'[a] /\ CurrentVersions'[a] \in Nat
      BY <1>3, <2>2, FitGrows
    <3>2. QED
      BY <3>1
  <2>3. QED
    BY <2>1, <2>2
<1>4. ASSUME NEW s \in Secrets, NEW i \in 1..Len(secret'[s]), secret'[s][i].data = "keys"
      PROVE  secret'[s][i].version \in fit'[s]
  <2>1. s \in Annotated /\ s # "Configmap"
    BY KindsApart
  <2>2. secret[s] \in Seq(SecretVersion) /\ Len(secret[s]) > 0 /\ Increasing(secret[s])
    BY <1>1, SecretTyped DEF OrderInv, LogsOrdered
  <2>3. secret'[s][i] = secret'[s][Len(secret'[s])]
        \/ \E j \in 1..Len(secret[s]) : secret'[s][i] = secret[s][j]
    <3>1. LogMove(secret[s], secret'[s])
      BY <1>1, LogMoves
    <3>2. OthersFrom(secret[s], secret'[s])
      BY <2>2, <3>1, LogEnds
    <3>3. QED
      BY <1>4, <3>2 DEF OthersFrom
  <2>4. CASE secret'[s][i] = secret'[s][Len(secret'[s])]
    <3>1. Fit(s)' /\ CurrentVersions'[s] = secret'[s][i].version
      BY <1>4, <2>1, <2>4 DEF Fit, Live, CurrentVersions
    <3>2. QED
      BY <2>1, <3>1, FitGrows
  <2>5. ASSUME NEW j \in 1..Len(secret[s]), secret'[s][i] = secret[s][j]
        PROVE  secret'[s][i].version \in fit'[s]
    <3>1. secret'[s][i].version \in fit[s]
      BY <1>4, <2>5 DEF FitInv
    <3>2. QED
      BY <2>1, <3>1, FitGrows
  <2>6. QED
    BY <2>3, <2>4, <2>5
<1>5. ASSUME object'["Configmap"].content = "required"
      PROVE  object'["Configmap"].version \in fit'["Configmap"]
  <2>1. "Configmap" \in Annotated
    BY DEF Annotated
  <2>2. Fit("Configmap")' /\ CurrentVersions'["Configmap"] = object'["Configmap"].version
    BY <1>5, <2>1 DEF Fit, CurrentVersions
  <2>3. QED
    BY <2>1, <2>2, FitGrows
<1>6. ASSUME NEW a \in Annotated, Collected(a)'
      PROVE  annotations'[a] \in fit'[a] /\ template'[a] <= annotations'[a]
  <2>1. /\ template'[a] = template[a]
        /\ CollectedBefore(a) \/ ReadFromLister(a) \/ ReadFromReply(a)
    BY <1>1, <1>6, AnnotationsMove
  <2>2. template[a] <= Seen(a) /\ template[a] \in Nat
    BY <1>1, SeenTyped DEF OrderInv, Named
  <2>3. CASE CollectedBefore(a)
    BY <2>1, <2>3, FitGrows DEF CollectedBefore, FitInv
  <2>4. CASE ReadFromLister(a)
    <3>1. 1 \in 1..Len(secret[a])
      BY <1>1, <2>4, SecretTyped DEF ReadFromLister
    <3>2. annotations'[a] \in fit[a]
      BY <2>4, <3>1 DEF ReadFromLister, FitInv, Cached
    <3>3. template[a] <= annotations'[a]
      BY <2>2, <2>4, KindsApart DEF ReadFromLister, Seen
    <3>4. QED
      BY <2>1, <3>2, <3>3, FitGrows
  <2>5. CASE ReadFromReply(a)
    <3>1. annotations'[a] \in fit'[a]
      BY <1>5, <2>5 DEF ReadFromReply
    <3>2. object[a].version \in Nat /\ object'[a].version \in Nat
      <4>1. a \in Objects /\ object[a] \in Object /\ object'[a] \in Object
        BY <1>1, <2>5, KindsApart DEF ReadFromReply, Reach, TypeOK
      <4>2. QED
        BY <4>1 DEF Object
    <3>3. object[a].version <= object'[a].version
      BY <1>1, <2>5, <3>2, ConfigmapMoves DEF ReadFromReply
    <3>4. template[a] <= annotations'[a]
      BY <2>2, <2>5, <3>2, <3>3 DEF ReadFromReply, Seen
    <3>5. QED
      BY <2>1, <3>1, <3>4
  <2>6. QED
    BY <2>1, <2>3, <2>4, <2>5
<1>7. QED
  BY <1>2, <1>3, <1>4, <1>5, <1>6 DEF FitInv

LEMMA FitInit == HistoryInit => FitInv
<1> SUFFICES ASSUME HistoryInit PROVE FitInv
  OBVIOUS
<1>1. /\ \A s \in Secrets : secret[s] = <<[data |-> "absent", version |-> 0]>>
      /\ object["Configmap"] = [content |-> "absent", version |-> 0]
      /\ \A a \in Annotated : fit[a] = {}
      /\ fit \in [Annotated -> SUBSET Nat]
      /\ step = 0
  BY KindsApart DEF HistoryInit, Init
<1>2. \A a \in Annotated : ~Collected(a)
  BY <1>1, PositionFacts DEF Collected
<1>3. QED
  BY <1>1, <1>2 DEF FitInv

\* A step leaves the template, and offers versions; or it is a rollout, and offers none.
LEMMA ContractStep ==
    ASSUME Reach, FitInv, [HistoryNext]_historyVars
    PROVE  [Contract!Next]_(Contract!vars)
<1>1. CASE UNCHANGED historyVars
  BY <1>1 DEF historyVars, vars, Contract!vars
<1>2. CASE HistoryNext /\ template' = template
  <2>1. ASSUME NEW a \in Annotated
        PROVE  /\ fit[a] \subseteq fit'[a]
               /\ \A old \in fit[a], new \in fit'[a] \ fit[a] : old < new
    <3>1. fit[a] \subseteq fit'[a]
      BY <1>2, FitGrows
    <3>2. ASSUME NEW old \in fit[a], NEW new \in fit'[a] \ fit[a]
          PROVE  old < new
      <4>1. old <= CurrentVersions[a] /\ old \in Nat /\ old # new
        BY DEF FitInv
      <4>2. /\ new = CurrentVersions'[a] /\ CurrentVersions'[a] \in Nat
            /\ CurrentVersions[a] \in Nat /\ CurrentVersions[a] <= CurrentVersions'[a]
        BY <1>2, FitGrows
      <4>3. QED
        BY <4>1, <4>2
    <3>3. QED
      BY <3>1, <3>2
  <2>2. Contract!Offer
    BY <1>2, <2>1 DEF Contract!Offer
  <2>3. QED
    BY <2>2 DEF Contract!Next
<1>3. CASE HistoryNext /\ template' # template
  <2>1. /\ step = 24 /\ template' = annotations /\ UNCHANGED <<object, secret>>
    BY <1>3, TemplateMoves DEF HistoryNext, Reach
  <2>2. \A a \in Annotated : Collected(a)
    BY <2>1, PositionFacts DEF Collected
  <2>3. /\ template' \in [Annotated -> Nat]
        /\ \A a \in Annotated : template'[a] \in fit[a] /\ template'[a] >= template[a]
    <3>1. template' \in [Annotated -> Nat] /\ template \in [Annotated -> Nat]
      BY <2>1 DEF Reach, TypeOK
    <3>2. QED
      BY <2>1, <2>2, <3>1 DEF FitInv
  <2>4. fit' = fit
    <3>1. ASSUME NEW a \in Annotated PROVE fit'[a] = fit[a]
      <4>1. CurrentVersions'[a] = CurrentVersions[a] /\ (Fit(a)' <=> Fit(a))
        BY <2>1 DEF CurrentVersions, Live, Fit
      <4>2. Fit(a) => CurrentVersions[a] \in fit[a]
        <5>1. CASE a = "Configmap"
          BY <5>1 DEF Fit, CurrentVersions, FitInv
        <5>2. CASE a # "Configmap"
          <6>1. a \in Secrets /\ Len(secret[a]) \in 1..Len(secret[a])
            BY <5>2, SecretTyped DEF Annotated, Reach
          <6>2. QED
            BY <5>2, <6>1 DEF Fit, Live, CurrentVersions, FitInv
        <5>3. QED
          BY <5>1, <5>2
      <4>3. fit'[a] = fit[a] \cup (IF Fit(a)' THEN {CurrentVersions'[a]} ELSE {})
        BY <1>3 DEF HistoryNext, FitVersions
      <4>4. QED
        BY <4>1, <4>2, <4>3
    <3>2. fit \in [Annotated -> SUBSET Nat]
      BY DEF FitInv
    <3>3. fit' = [a \in Annotated |-> fit'[a]]
      BY <1>3 DEF HistoryNext
    <3>4. QED
      BY <3>1, <3>2, <3>3
  <2>5. Contract!Rollout
    BY <2>3, <2>4 DEF Contract!Rollout
  <2>6. QED
    BY <2>5 DEF Contract!Next
<1>4. QED
  BY <1>1, <1>2, <1>3

LEMMA ContractInit == HistoryInit => Contract!Init
BY DEF HistoryInit, Init, NoVersions, Contract!Init

\* Every rollout names, for both Secrets and the ConfigMap at once, a version that was fit
\* to run with, and never an older one than the template named before: whatever the lister
\* shows, whichever call fails and wherever the operator crashes.
THEOREM RolloutRefines == HistorySpec => ImplementsRollout
<1>1. HistoryInit => Reach /\ FitInv
  BY ReachInit, FitInit DEF HistoryInit
<1>2. Reach /\ FitInv /\ [HistoryNext]_historyVars => Reach' /\ FitInv'
  <2> SUFFICES ASSUME Reach, FitInv, [HistoryNext]_historyVars PROVE Reach' /\ FitInv'
    OBVIOUS
  <2>1. CASE HistoryNext
    BY <2>1, ReachStep, FitStep DEF HistoryNext
  <2>2. CASE UNCHANGED historyVars
    <3>1. Reach'
      BY <2>2, ReachStep DEF historyVars
    <3>2. FitInv'
      BY <2>2 DEF historyVars, vars, FitInv, CurrentVersions, Live, Collected
    <3>3. QED
      BY <3>1, <3>2
  <2>3. QED
    BY <2>1, <2>2
<1>3. Reach /\ FitInv /\ [HistoryNext]_historyVars => [Contract!Next]_(Contract!vars)
  BY ContractStep
<1>4. QED
  BY <1>1, <1>2, <1>3, ContractInit, PTL DEF HistorySpec, ImplementsRollout, Contract!Spec

=============================================================================
