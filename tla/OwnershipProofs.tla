--------------------------- MODULE OwnershipProofs ---------------------------
(***************************************************************************)
(* Proofs about Ownership, for any pipeline, any number of CRs and any     *)
(* budget of environment steps: its type invariant, that owners only move  *)
(* forward, and that an undisturbed sync leaves everything to its CR.      *)
(***************************************************************************)
EXTENDS Ownership, TLAPS

USE PipelineAssumption, MemoAssumption, LimitAssumption

LEMMA Numbers == /\ None = 0 /\ Absent = MaxUid + 1 /\ Uids = 1..MaxUid
                 /\ Len(Pipeline) \in Nat /\ Len(Pipeline) > 0
BY DEF None, Absent, Uids

LEMMA StepNames == ASSUME TypeOK PROVE This \in Objects
BY DEF TypeOK, This, Objects

LEMMA NoWriteIsNone == NoWrite \notin Writes
BY DEF NoWrite, Writes

-----------------------------------------------------------------------------
(* The type invariant but for its weakest part, one operator for each group *)
(* of variables the steps write together.                                   *)

WorkerType == /\ pc \in {"idle", "getCr", "get", "write"}
              /\ step \in 1..Len(Pipeline)
              /\ uid \in 0..MaxUid
CrType == cr \in {None, created} /\ created \in 0..MaxUid /\ seen \in 0..MaxUid
ObjectType == owner \in [Objects -> 0..Absent] /\ condemned \subseteq {o \in Objects : Exists(o)}
FlagType == queued \in BOOLEAN /\ undisturbed \in BOOLEAN /\ synced \in BOOLEAN
MemoType == /\ copy \in {"absent", "current", "outdated"}
            /\ cache \in [Objects -> 0..MaxUid]
LateType == late \in Writes \cup {NoWrite}
UsedType == used \in [EnvironmentSteps -> Nat]

LEMMA TypeParts == TypeOK <=> /\ WorkerType /\ CrType /\ ObjectType /\ FlagType
                              /\ MemoType /\ LateType /\ UsedType
BY DEF TypeOK, WorkerType, CrType, ObjectType, FlagType, MemoType, LateType, UsedType

\* A sync that goes on has its owner.
HasOwner == pc \in {"get", "write"} => uid \in Uids /\ uid <= created

\* What comes from a write in flight.
LateUid == late # NoWrite => late.uid <= created

LEMMA SpendType ==
    ASSUME NEW k \in EnvironmentSteps, UsedType, Spend(k)
    PROVE  UsedType'
BY DEF Spend, UsedType

LEMMA ReturnType == Return => WorkerType'
BY Numbers DEF Return, WorkerType

LEMMA AppliedType ==
    ASSUME WorkerType, Applied
    PROVE  WorkerType' /\ (synced' = synced \/ synced' = TRUE)
BY Numbers, ReturnType DEF Applied, WorkerType

LEMMA LateOutdated ==
    ASSUME LateType, late # NoWrite
    PROVE  [late EXCEPT !.current = FALSE] \in Writes
BY DEF LateType, Writes

LEMMA DisturbedType ==
    ASSUME MemoType, LateType, NEW S, Disturbed(S)
    PROVE  MemoType' /\ LateType' /\ undisturbed' = FALSE
<1>1. MemoType'
  BY Numbers DEF Disturbed, MemoType
<1>2. LateType'
  BY LateOutdated DEF Disturbed, LateType
<1> QED BY <1>1, <1>2 DEF Disturbed

LEMMA FailType == Fail /\ FlagType => WorkerType' /\ queued' = TRUE /\ synced' = synced
BY ReturnType DEF Fail

LEMMA StoreType ==
    ASSUME TypeOK, HasOwner, pc = "write", Store(uid)
    PROVE  ObjectType' /\ LateType'
<1>1. This \in Objects
  BY StepNames
<1>2. uid \in 1..MaxUid
  BY Numbers DEF HasOwner
<1>3. owner' = [owner EXCEPT ![This] = uid]
  BY DEF Store, SetOwner
<1>4. ObjectType'
  BY <1>1, <1>2, <1>3, Numbers DEF Store, TypeOK, ObjectType, Exists
<1>5. LateType'
  BY LateOutdated DEF Store, TypeOK, LateType
<1> QED BY <1>4, <1>5

LEMMA RememberedType ==
    ASSUME MemoType, NEW u \in 0..MaxUid
    PROVE  Remembered(u) \in [Objects -> 0..MaxUid]
BY DEF MemoType, Remembered

\* Type correctness of one step, and that a sync past its Get of the CR has an owner.
Typed == /\ WorkerType /\ CrType /\ ObjectType /\ FlagType /\ MemoType /\ LateType /\ UsedType
         /\ HasOwner

LEMMA SyncTyped == Typed /\ Sync => Typed'
<1> SUFFICES ASSUME Typed, Sync PROVE Typed'
  OBVIOUS
<1> USE Numbers
<1>0. WorkerType /\ CrType /\ ObjectType /\ FlagType /\ MemoType /\ LateType /\ UsedType
  BY DEF Typed
<1>1. CASE BeginSync
  <2>1. WorkerType' /\ HasOwner'
    BY <1>0, <1>1 DEF BeginSync, WorkerType, HasOwner, Typed
  <2>2. FlagType'
    BY <1>0, <1>1 DEF BeginSync, FlagType
  <2> QED BY <1>0, <1>1, <2>1, <2>2
          DEF BeginSync, Typed, CrType, ObjectType, Exists, MemoType, LateType, UsedType
<1>2. CASE GetCr
  <2>1. WorkerType' /\ HasOwner'
    <3>1. CASE Fail
      BY <1>0, <3>1, FailType DEF Fail, Return, HasOwner
    <3>2. CASE cr # None /\ uid' = OwnerReference(cr) /\ pc' = "get" /\ step' = 1
      BY <1>0, <1>2, <3>2 DEF GetCr, OwnerReference, WorkerType, HasOwner, CrType
    <3> QED BY <1>2, <3>1, <3>2 DEF GetCr
  <2>2. FlagType'
    BY <1>0, <1>2, FailType DEF GetCr, FlagType
  <2>3. UsedType'
    BY <1>0, <1>2, SpendType DEF GetCr, UsedType, EnvironmentSteps
  <2> QED BY <1>0, <1>2, <2>1, <2>2, <2>3
          DEF GetCr, Typed, CrType, ObjectType, Exists, MemoType, LateType
<1>3. CASE Get
  <2>1. WorkerType'
    BY <1>0, <1>3, FailType, AppliedType DEF Get, WorkerType
  <2>2. HasOwner'
    BY <1>0, <1>3 DEF Get, Fail, Return, Applied, HasOwner, Typed
  <2>3. FlagType'
    BY <1>0, <1>3, FailType, AppliedType DEF Get, FlagType
  <2>4. UsedType'
    BY <1>0, <1>3, SpendType DEF Get, UsedType, EnvironmentSteps
  <2>5. MemoType'
    <3>1. uid \in 0..MaxUid
      BY <1>0 DEF WorkerType
    <3> QED BY <1>0, <1>3, <3>1, RememberedType DEF Get, MemoType
  <2> QED BY <1>0, <1>3, <2>1, <2>2, <2>3, <2>4, <2>5
          DEF Get, Typed, CrType, ObjectType, Exists, LateType
<1>4. CASE Write
  <2>1. WorkerType'
    BY <1>0, <1>4, FailType, AppliedType DEF Write
  <2>2. HasOwner'
    BY <1>0, <1>4 DEF Write, Fail, Return, Applied, HasOwner, Typed
  <2>3. FlagType'
    BY <1>0, <1>4, FailType, AppliedType DEF Write, FlagType
  <2>4. UsedType'
    BY <1>0, <1>4, SpendType DEF Write, UsedType, EnvironmentSteps
  <2>5. MemoType'
    <3>1. uid \in 0..MaxUid /\ None \in 0..MaxUid
      BY <1>0 DEF WorkerType
    <3>2. cache' \in [Objects -> 0..MaxUid]
      BY <1>0, <1>4, <3>1, RememberedType DEF Write, MemoType
    <3> QED BY <1>4, <3>2 DEF Write, MemoType
  <2>6. ObjectType' /\ LateType'
    <3>1. CASE Store(uid)
      BY <1>4, <3>1, StoreType, TypeParts DEF Write, Typed
    <3>2. CASE UNCHANGED <<owner, condemned, late>>
      BY <1>0, <3>2 DEF ObjectType, Exists, LateType
    <3> QED BY <1>4, <3>1, <3>2 DEF Write
  <2> QED BY <1>0, <1>4, <2>1, <2>2, <2>3, <2>4, <2>5, <2>6 DEF Write, Typed, CrType
<1> QED BY <1>1, <1>2, <1>3, <1>4 DEF Sync

LEMMA EnvironmentTyped ==
    ASSUME Typed,
           \/ CrEvent \/ Resync \/ Crash \/ LateWrite \/ CreateCr \/ DeleteCr \/ OrphanCr
           \/ \E o \in Objects : Condemn(o) \/ Collect(o)
    PROVE  Typed'
<1> USE Numbers
<1>0. WorkerType /\ CrType /\ ObjectType /\ FlagType /\ MemoType /\ LateType /\ UsedType
  BY DEF Typed
<1>1. CASE CrEvent \/ Resync
  <2>1. FlagType'
    BY <1>0, <1>1 DEF CrEvent, Resync, FlagType
  <2>2. CrType'
    BY <1>0, <1>1 DEF CrEvent, Resync, CrType
  <2> QED BY <1>0, <1>1, <2>1, <2>2
          DEF CrEvent, Resync, worker, Typed, WorkerType, HasOwner, ObjectType, Exists,
              MemoType, LateType, UsedType
<1>2. CASE Crash
  <2>1. WorkerType' /\ HasOwner'
    BY <1>2, ReturnType DEF Crash, Return, HasOwner
  <2>2. FlagType'
    BY <1>0, <1>2 DEF Crash, FlagType
  <2>5. MemoType' /\ CrType'
    BY <1>0, <1>2 DEF Crash, MemoType, CrType
  <2>3. UsedType'
    BY <1>0, <1>2, SpendType DEF Crash, EnvironmentSteps
  <2>4. LateType'
    <3>1. CASE UNCHANGED late
      BY <1>0, <3>1 DEF LateType
    <3>2. CASE pc = "write" /\ late' = [verb |-> Verb, object |-> This, uid |-> uid,
                                        current |-> copy = "current"]
      <4>1. Verb \in {"create", "update"} /\ (copy = "current") \in BOOLEAN
        BY DEF Verb
      <4>2. uid \in Uids
        BY <3>2 DEF HasOwner, Typed
      <4>3. This \in Objects
        BY StepNames, TypeParts DEF Typed
      <4> QED BY <3>2, <4>1, <4>2, <4>3 DEF LateType, Writes
    <3> QED BY <1>2, <3>1, <3>2 DEF Crash
  <2> QED BY <1>0, <1>2, <2>1, <2>2, <2>3, <2>4, <2>5 DEF Crash, Typed, ObjectType, Exists
<1>3. CASE LateWrite
  <2>1. late \in Writes
    BY <1>0, <1>3 DEF LateWrite, LateType
  <2>2. late.object \in Objects /\ late.uid \in 1..MaxUid
    BY <2>1 DEF Writes
  <2>3. ObjectType'
    BY <1>0, <1>3, <2>2 DEF LateWrite, SetOwner, ObjectType, Exists
  <2>4. MemoType'
    BY <1>0, <1>3, <2>2 DEF LateWrite, MemoType
  <2>5. FlagType' /\ LateType'
    BY <1>0, <1>3 DEF LateWrite, FlagType, LateType
  <2> QED BY <1>0, <1>3, <2>3, <2>4, <2>5
          DEF LateWrite, worker, Typed, WorkerType, HasOwner, CrType, UsedType
<1>4. CASE CreateCr
  <2>1. CrType'
    BY <1>0, <1>4 DEF CreateCr, CrType
  <2>3. FlagType'
    BY <1>0, <1>4 DEF CreateCr, FlagType
  <2>2. HasOwner'
    BY <1>0, <1>4 DEF CreateCr, worker, CrType, HasOwner, Typed, WorkerType
  <2> QED BY <1>0, <1>4, <2>1, <2>2, <2>3
          DEF CreateCr, worker, Typed, WorkerType, ObjectType, Exists, MemoType, LateType,
              UsedType
<1>5. CASE DeleteCr
  <2>1. CrType'
    BY <1>0, <1>5 DEF DeleteCr, CrType
  <2>3. FlagType'
    BY <1>0, <1>5 DEF DeleteCr, FlagType
  <2>2. UsedType'
    BY <1>0, <1>5, SpendType DEF DeleteCr, EnvironmentSteps
  <2> QED BY <1>0, <1>5, <2>1, <2>2, <2>3
          DEF DeleteCr, worker, Typed, WorkerType, HasOwner, ObjectType, Exists, MemoType,
              LateType
<1>6. CASE OrphanCr
  <2>1. PICK S \in SUBSET {o \in Objects : owner[o] = cr} :
            /\ owner' = [o \in Objects |-> IF o \in S THEN None ELSE owner[o]]
            /\ Disturbed(S)
    BY <1>6 DEF OrphanCr
  <2>2. MemoType' /\ LateType' /\ undisturbed' = FALSE
    BY <1>0, <2>1, DisturbedType
  <2>3. ObjectType'
    BY <1>0, <1>6, <2>1 DEF OrphanCr, ObjectType, Exists
  <2>4. CrType'
    BY <1>0, <1>6 DEF OrphanCr, CrType
  <2>6. FlagType'
    BY <1>0, <1>6, <2>2 DEF OrphanCr, FlagType
  <2>5. UsedType'
    BY <1>0, <1>6, SpendType DEF OrphanCr, EnvironmentSteps
  <2> QED BY <1>0, <1>6, <2>2, <2>3, <2>4, <2>5, <2>6
          DEF OrphanCr, worker, Typed, WorkerType, HasOwner
<1>7. ASSUME NEW o \in Objects, Condemn(o) PROVE Typed'
  BY <1>0, <1>7
     DEF Condemn, worker, Typed, WorkerType, HasOwner, CrType, ObjectType, Exists, FlagType,
         MemoType, LateType, UsedType
<1>8. ASSUME NEW o \in Objects, Collect(o) PROVE Typed'
  <2>1. MemoType' /\ LateType' /\ undisturbed' = FALSE
    BY <1>0, <1>8, DisturbedType DEF Collect
  <2>2. ObjectType'
    BY <1>0, <1>8 DEF Collect, SetOwner, ObjectType, Exists
  <2>3. FlagType'
    BY <1>0, <1>8, <2>1 DEF Collect, FlagType
  <2> QED BY <1>0, <1>8, <2>1, <2>2, <2>3
          DEF Collect, worker, Typed, WorkerType, HasOwner, CrType, UsedType
<1> QED BY <1>1, <1>2, <1>3, <1>4, <1>5, <1>6, <1>7, <1>8

LEMMA Typing == Spec => []Typed
<1>1. Init => Typed
  <2> SUFFICES ASSUME Init PROVE Typed
    OBVIOUS
  <2>1. WorkerType /\ CrType /\ ObjectType /\ LateType /\ UsedType
    BY Numbers DEF Init, WorkerType, CrType, ObjectType, LateType, UsedType
  <2>2. MemoType
    BY Numbers DEF Init, MemoType
  <2>3. FlagType
    BY DEF Init, FlagType
  <2> QED BY <2>1, <2>2, <2>3 DEF Init, Typed, HasOwner
<1>2. Typed /\ [Next]_vars => Typed'
  <2>1. Typed /\ UNCHANGED vars => Typed'
    BY DEF vars, worker, Typed, WorkerType, CrType, ObjectType, Exists, FlagType, MemoType,
           LateType, UsedType, HasOwner
  <2> QED BY <2>1, SyncTyped, EnvironmentTyped DEF Next
<1> QED BY <1>1, <1>2, PTL DEF Spec

\* Every variable has its type in every reachable state.
THEOREM TypeCorrect == Spec => []TypeOK
<1>1. Typed => TypeOK
  BY TypeParts DEF Typed
<1> QED BY <1>1, Typing, PTL

-----------------------------------------------------------------------------
(* Owners move forward *)

\* Owners are CRs there were; no object runs ahead of the sync that is under way, nor an
\* object ahead of a write that can still land on it.
Bounded == \A o \in Objects : owner[o] \in Uids => owner[o] <= created
Ahead == pc \in {"get", "write"} => /\ \A o \in Objects : owner[o] \in Uids => owner[o] <= uid
                                    /\ late # NoWrite => late.uid <= uid
LateAhead == late # NoWrite => /\ late.uid <= created
                               /\ late.current /\ owner[late.object] \in Uids
                                    => owner[late.object] <= late.uid
Forward == Bounded /\ Ahead /\ LateAhead

Moved == \A o \in Objects : owner[o] \in Uids /\ owner'[o] \in Uids => owner[o] <= owner'[o]

\* Writes of others only make a write in flight outdated, and take owners away.
LEMMA LetGo ==
    ASSUME Typed, Forward, NEW S, Disturbed(S), UNCHANGED <<created, pc, uid>>,
           \A o \in Objects : owner'[o] = owner[o] \/ owner'[o] \notin Uids
    PROVE  Forward' /\ Moved
<1>1. late' = late \/ (late # NoWrite /\ late' = [late EXCEPT !.current = FALSE])
  BY DEF Disturbed
<1>2. late # NoWrite => late \in Writes
  BY DEF Typed, LateType
<1>3. late' # NoWrite => late # NoWrite /\ late'.uid = late.uid /\ late'.object = late.object
                         /\ (late'.current => late.current)
  BY <1>1, <1>2 DEF Writes
<1>4. late' # NoWrite => late.object \in Objects
  BY <1>2, <1>3 DEF Writes
<1>5. Bounded' /\ Moved
  BY Numbers DEF Forward, Bounded, Moved, Typed, ObjectType
<1>6. Ahead'
  BY <1>3 DEF Forward, Ahead
<1>7. LateAhead'
  BY <1>3, <1>4 DEF Forward, LateAhead
<1> QED BY <1>5, <1>6, <1>7 DEF Forward

LEMMA Standing ==
    ASSUME Forward, UNCHANGED <<owner, late, uid>>, created <= created', Typed,
           created' \in Nat, pc' \in {"get", "write"} => pc \in {"get", "write"}
    PROVE  Forward' /\ Moved
<1> USE Numbers
<1>1. late # NoWrite => late.uid \in Nat
  BY DEF Typed, LateType, Writes
<1>2. Bounded' /\ Moved
  BY DEF Forward, Bounded, Moved, Typed, CrType
<1>3. Ahead'
  BY DEF Forward, Ahead
<1>4. LateAhead'
  BY <1>1 DEF Forward, LateAhead, Typed, CrType
<1> QED BY <1>2, <1>3, <1>4 DEF Forward

LEMMA Idle ==
    ASSUME Forward, UNCHANGED <<owner, late, created>>, pc' = "idle", Typed
    PROVE  Forward' /\ Moved
BY Numbers DEF Forward, Bounded, Ahead, LateAhead, Moved, Typed, ObjectType

LEMMA StoreForward ==
    ASSUME Typed, Forward, pc = "write", Store(uid), UNCHANGED created,
           pc' = "idle" \/ UNCHANGED uid
    PROVE  Forward' /\ Moved
<1> USE Numbers
<1>1. This \in Objects /\ uid \in Uids /\ uid <= created
  BY StepNames, TypeParts DEF Typed, HasOwner
<1>2. owner' = [owner EXCEPT ![This] = uid]
  BY DEF Store, SetOwner
<1>3. \A o \in Objects : owner'[o] = owner[o] \/ owner'[o] = uid
  BY <1>1, <1>2 DEF Typed, ObjectType
<1>4. \A o \in Objects : owner[o] \in Uids => owner[o] <= uid
  BY DEF Forward, Ahead
<1>5. late # NoWrite => late \in Writes /\ late.uid <= uid
  BY DEF Typed, LateType, Forward, Ahead
<1>6. late' = late \/ (late # NoWrite /\ late' = [late EXCEPT !.current = FALSE])
  BY DEF Store
<1>7. late' # NoWrite => late # NoWrite /\ late'.uid = late.uid /\ late'.object = late.object
                         /\ (late'.current => late.current /\ late.object # This)
  BY <1>5, <1>6 DEF Store, Writes
<1>8. Moved
  BY <1>1, <1>3, <1>4 DEF Moved
<1>9. Bounded'
  BY <1>1, <1>3 DEF Forward, Bounded
<1>10. Ahead'
  <2>1. CASE pc' = "idle"
    BY <2>1 DEF Ahead
  <2>2. CASE UNCHANGED uid
    BY <1>1, <1>3, <1>4, <1>5, <1>7, <2>2 DEF Ahead
  <2> QED BY <2>1, <2>2
<1>11. LateAhead'
  BY <1>2, <1>5, <1>7 DEF Forward, LateAhead, Writes, Typed, ObjectType
<1> QED BY <1>8, <1>9, <1>10, <1>11 DEF Forward

LEMMA SyncForward == Typed /\ Forward /\ Sync => Forward' /\ Moved
<1> SUFFICES ASSUME Typed, Forward, Sync PROVE Forward' /\ Moved
  OBVIOUS
<1>0. created \in Nat
  BY Numbers DEF Typed, CrType
<1>1. CASE BeginSync
  <2>1. UNCHANGED <<owner, late, uid, created>>
    BY <1>1 DEF BeginSync
  <2>2. pc' \notin {"get", "write"}
    BY <1>1 DEF BeginSync
  <2>3. created <= created'
    BY <1>0, <2>1
  <2> QED BY <1>0, <2>1, <2>2, <2>3, Standing
<1>2. CASE GetCr
  <2>1. CASE Fail
    BY <1>2, <2>1, Idle DEF GetCr, Fail, Return
  <2>2. CASE cr # None /\ uid' = OwnerReference(cr) /\ pc' = "get"
    <3>1. uid' = created /\ UNCHANGED <<owner, late, created>>
      BY <1>2, <2>2 DEF GetCr, OwnerReference, Typed, CrType
    <3> QED BY <3>1, Numbers
            DEF Forward, Bounded, Ahead, LateAhead, Moved, Typed, ObjectType
  <2> QED BY <1>2, <2>1, <2>2 DEF GetCr
<1>3. CASE Get
  <2>1. UNCHANGED <<owner, late, created>>
    BY <1>3 DEF Get
  <2>2. pc' = "idle" \/ UNCHANGED uid
    BY <1>3 DEF Get, Applied, Fail, Return
  <2> QED BY <1>0, <1>3, <2>1, <2>2, Idle, Standing DEF Get
<1>4. CASE Write
  <2>1. pc = "write" /\ UNCHANGED created
    BY <1>4 DEF Write
  <2>2. pc' = "idle" \/ UNCHANGED uid
    BY <1>4 DEF Write, Applied, Fail, Return
  <2>3. CASE Store(uid)
    BY <2>1, <2>2, <2>3, StoreForward
  <2>4. CASE UNCHANGED <<owner, late>> /\ Fail
    BY <2>1, <2>4, Idle DEF Fail, Return
  <2> QED BY <1>4, <2>3, <2>4 DEF Write
<1> QED BY <1>1, <1>2, <1>3, <1>4 DEF Sync

LEMMA CrashForward == Typed /\ Forward /\ Crash => Forward' /\ Moved
<1> SUFFICES ASSUME Typed, Forward, Crash PROVE Forward' /\ Moved
  OBVIOUS
<1>1. pc' = "idle" /\ UNCHANGED <<owner, created>>
  BY DEF Crash, Return
<1>2. CASE UNCHANGED late
  BY <1>1, <1>2, Idle
<1>3. CASE pc = "write" /\ late' = [verb |-> Verb, object |-> This, uid |-> uid,
                                    current |-> copy = "current"]
  <2>1. This \in Objects /\ uid <= created
    BY <1>3, StepNames, TypeParts DEF Typed, HasOwner
  <2>2. late'.uid = uid /\ late'.object = This
    BY <1>3
  <2>3. LateAhead'
    BY <1>1, <1>3, <2>1, <2>2 DEF Forward, Ahead, LateAhead
  <2> QED BY <1>1, <2>3, Numbers DEF Forward, Bounded, Ahead, Moved, Typed, ObjectType
<1> QED BY <1>2, <1>3 DEF Crash

LEMMA LateWriteForward == Typed /\ Forward /\ LateWrite => Forward' /\ Moved
<1> SUFFICES ASSUME Typed, Forward, LateWrite PROVE Forward' /\ Moved
  OBVIOUS
<1> USE Numbers
<1>1. late # NoWrite /\ late' = NoWrite /\ UNCHANGED <<created, pc, uid>>
  BY DEF LateWrite, worker
<1>2. late \in Writes /\ late.object \in Objects /\ late.uid \in 1..MaxUid
  BY <1>1 DEF Typed, LateType, Writes
<1>3. LateAhead'
  BY <1>1 DEF LateAhead
<1>4. CASE UNCHANGED owner
  BY <1>1, <1>3, <1>4 DEF Forward, Bounded, Ahead, Moved, Typed, ObjectType
<1>5. CASE /\ Lands(late.verb, late.object, late.current)
           /\ owner' = [owner EXCEPT ![late.object] = late.uid]
  <2>1. owner[late.object] \in Uids => owner[late.object] <= late.uid
    BY <1>1, <1>5 DEF Lands, Exists, Forward, LateAhead
  <2>2. \A o \in Objects : owner'[o] = owner[o] \/ (o = late.object /\ owner'[o] = late.uid)
    BY <1>2, <1>5 DEF Typed, ObjectType
  <2>3. Moved
    BY <2>1, <2>2 DEF Moved, Typed, ObjectType
  <2>4. Bounded'
    BY <1>1, <2>2 DEF Forward, Bounded, LateAhead
  <2>5. Ahead'
    BY <1>1, <2>2 DEF Forward, Ahead
  <2> QED BY <1>3, <2>3, <2>4, <2>5 DEF Forward
<1> QED BY <1>4, <1>5 DEF LateWrite, SetOwner

LEMMA NextForward == Typed /\ Forward /\ [Next]_vars => Forward' /\ Moved
<1> SUFFICES ASSUME Typed, Forward, [Next]_vars PROVE Forward' /\ Moved
  OBVIOUS
<1> USE Numbers
<1>0. created \in Nat
  BY DEF Typed, CrType
<1>1. CASE CrEvent \/ Resync \/ DeleteCr
  <2>1. UNCHANGED <<owner, late, uid, pc, created>>
    BY <1>1 DEF CrEvent, Resync, DeleteCr, worker
  <2> QED BY <1>0, <2>1, Standing
<1>2. CASE CreateCr
  BY <1>0, <1>2, Standing DEF CreateCr, worker
<1>3. CASE OrphanCr
  <2>1. PICK S \in SUBSET {o \in Objects : owner[o] = cr} :
            /\ owner' = [o \in Objects |-> IF o \in S THEN None ELSE owner[o]]
            /\ Disturbed(S)
    BY <1>3 DEF OrphanCr
  <2> QED BY <1>3, <2>1, LetGo DEF OrphanCr, worker
<1>4. ASSUME NEW o \in Objects, Condemn(o) PROVE Forward' /\ Moved
  BY <1>0, <1>4, Standing DEF Condemn, worker
<1>5. ASSUME NEW o \in Objects, Collect(o) PROVE Forward' /\ Moved
  <2>1. \A x \in Objects : owner'[x] = owner[x] \/ owner'[x] \notin Uids
    BY <1>5 DEF Collect, SetOwner, Typed, ObjectType
  <2> QED BY <1>5, <2>1, LetGo DEF Collect, worker
<1>6. CASE UNCHANGED vars
  BY <1>0, <1>6, Standing DEF vars, worker
<1> QED BY <1>1, <1>2, <1>3, <1>4, <1>5, <1>6, SyncForward, CrashForward, LateWriteForward
        DEF Next

LEMMA ForwardAlways == Spec => []Forward
<1>1. Init => Forward
  BY Numbers DEF Init, Forward, Bounded, Ahead, LateAhead
<1> QED BY <1>1, NextForward, Typing, PTL DEF Spec

\* No write, not even one that arrives after its process died, hands an object back to
\* a CR that came before its owner.
THEOREM OwnersNeverGoBack == Spec => OwnersMoveForward
<1>1. Typed /\ Forward /\ [Next]_vars => [Moved]_vars
  BY NextForward
<1>2. Spec => [][Moved]_vars
  BY <1>1, Typing, ForwardAlways, PTL DEF Spec
<1> QED BY <1>2 DEF OwnersMoveForward, Moved

-----------------------------------------------------------------------------
(* An undisturbed sync leaves everything to its CR *)

\* The resourceCache is right about the objects nobody has written since.
CacheRight == \A o \in Memoized : cache[o] # None => owner[o] = cache[o]

\* Where an undisturbed sync is, the objects before it belong to the CR.
Done(n) == \A i \in 1..n : owner[Pipeline[i]] = cr
Progress == undisturbed => /\ pc \in {"get", "write"} => uid = cr /\ Done(step - 1)
                           /\ synced => Done(Len(Pipeline))
Owned == CacheRight /\ Progress

LEMMA PipelineNames == \A i \in 1..Len(Pipeline) : Pipeline[i] \in Objects
BY DEF Objects

\* Where the object at hand belongs to the CR already, the sync may go on.
LEMMA AppliedOwned ==
    ASSUME Typed, Progress, Applied, pc \in {"get", "write"}, UNCHANGED <<cr, undisturbed>>,
           undisturbed => owner'[This] = uid,
           \A o \in Objects : owner'[o] = owner[o] \/ owner'[o] = uid
    PROVE  Progress'
<1> USE Numbers
<1> SUFFICES ASSUME undisturbed
             PROVE  /\ pc' \in {"get", "write"} => uid' = cr' /\ Done(step - 1)'
                    /\ synced' => Done(Len(Pipeline))'
  BY DEF Progress
<1>1. uid = cr /\ Done(step - 1) /\ step \in 1..Len(Pipeline)
  BY DEF Progress, Typed, WorkerType
<1>2. \A i \in 1..step : owner'[Pipeline[i]] = cr
  <2> SUFFICES ASSUME NEW i \in 1..step PROVE owner'[Pipeline[i]] = cr
    OBVIOUS
  <2>1. Pipeline[i] \in Objects
    BY <1>1, PipelineNames
  <2>2. CASE i = step
    BY <1>1, <2>2 DEF This
  <2>3. CASE i \in 1..(step - 1)
    BY <1>1, <2>1, <2>3 DEF Done
  <2> QED BY <1>1, <2>2, <2>3
<1>3. CASE step < Len(Pipeline)
  <2>1. step' = step + 1 /\ pc' = "get" /\ UNCHANGED <<uid, synced>>
    BY <1>3 DEF Applied
  <2>2. Done(step - 1)'
    BY <1>1, <1>2, <2>1 DEF Done
  <2>3. synced => Done(Len(Pipeline))
    BY DEF Progress
  <2>4. synced => Done(Len(Pipeline))'
    BY <1>1, <2>3, PipelineNames DEF Done
  <2> QED BY <1>1, <2>1, <2>2, <2>4
<1>4. CASE ~(step < Len(Pipeline))
  <2>1. pc' = "idle" /\ step = Len(Pipeline)
    BY <1>1, <1>4 DEF Applied, Return
  <2> QED BY <1>2, <2>1 DEF Done
<1> QED BY <1>3, <1>4

\* Where sync() ends with an error, or has not come to its first object.
LEMMA StandingOwned ==
    ASSUME Progress, pc' \notin {"get", "write"}, UNCHANGED <<cr, undisturbed, synced>>,
           \/ UNCHANGED owner
           \/ /\ undisturbed => uid = cr
              /\ \A o \in Objects : owner'[o] = owner[o] \/ owner'[o] = uid
    PROVE  Progress'
<1>1. \A i \in 1..Len(Pipeline) : Pipeline[i] \in Objects
  BY PipelineNames
<1> QED BY <1>1 DEF Progress, Done

LEMMA SyncOwned == Typed /\ Owned /\ Sync => Owned'
<1> SUFFICES ASSUME Typed, Owned, Sync PROVE Owned'
  OBVIOUS
<1> USE Numbers
<1>0. /\ This \in Objects
      /\ pc \in {"get", "write"} => uid \in Uids
      /\ cache \in [Objects -> 0..MaxUid] /\ owner \in [Objects -> 0..Absent]
      /\ Memoized \subseteq Objects
  BY StepNames, TypeParts DEF Typed, HasOwner, MemoType, ObjectType
<1>1. CASE BeginSync
  <2>1. CacheRight'
    BY <1>1 DEF BeginSync, Owned, CacheRight
  <2>2. Progress'
    BY <1>1 DEF BeginSync, Progress
  <2> QED BY <2>1, <2>2 DEF Owned
<1>2. CASE GetCr
  <2>1. CacheRight'
    BY <1>2 DEF GetCr, Owned, CacheRight
  <2>2. CASE Fail
    BY <1>2, <2>1, <2>2, StandingOwned DEF GetCr, Fail, Return, Owned
  <2>3. CASE cr # None /\ uid' = OwnerReference(cr) /\ pc' = "get" /\ step' = 1
    <3>1. uid' = cr /\ UNCHANGED <<cr, owner, undisturbed, synced>>
      BY <1>2, <2>3 DEF GetCr, OwnerReference, Fail, Return
    <3>2. Done(step - 1)'
      BY <2>3 DEF Done
    <3>3. synced /\ undisturbed => Done(Len(Pipeline))'
      BY <3>1 DEF Owned, Progress, Done
    <3> QED BY <2>1, <2>3, <3>1, <3>2, <3>3 DEF Owned, Progress
  <2> QED BY <1>2, <2>2, <2>3 DEF GetCr
<1>3. CASE Get
  <2>1. UNCHANGED <<cr, owner, undisturbed>> /\ pc = "get"
    BY <1>3 DEF Get
  <2>2. CASE Fail /\ UNCHANGED cache
    <3>1. UNCHANGED <<cache, synced>> /\ pc' = "idle"
      BY <2>2 DEF Fail, Return
    <3>2. CacheRight'
      BY <2>1, <3>1 DEF Owned, CacheRight
    <3> QED BY <2>1, <3>1, <3>2, StandingOwned DEF Owned
  <2>3. CASE /\ SafeToSkip(This) \/ owner[This] = uid
             /\ cache' = IF SafeToSkip(This) THEN cache ELSE Remembered(uid)
             /\ Applied
    <3>1. owner[This] = uid
      BY <1>0, <2>1, <2>3 DEF SafeToSkip, Owned, CacheRight, Uids, None
    <3>2. CacheRight'
      BY <1>0, <2>1, <2>3, <3>1 DEF Remembered, Owned, CacheRight
    <3> QED BY <2>1, <2>3, <3>1, <3>2, AppliedOwned DEF Owned
  <2>4. CASE pc' = "write" /\ UNCHANGED <<step, uid, cache, synced>>
    BY <2>1, <2>4 DEF Owned, CacheRight, Progress, Done
  <2> QED BY <1>3, <2>2, <2>3, <2>4 DEF Get
<1>4. CASE Write
  <2>1. UNCHANGED <<cr, undisturbed>> /\ pc = "write"
    BY <1>4 DEF Write
  <2>2. ASSUME Store(uid), NEW u \in {None, uid}, cache' = Remembered(u)
        PROVE  /\ CacheRight'
               /\ owner'[This] = uid
               /\ \A o \in Objects : owner'[o] = owner[o] \/ owner'[o] = uid
    <3>1. owner' = [owner EXCEPT ![This] = uid]
      BY <2>2 DEF Store, SetOwner
    <3>2. /\ owner'[This] = uid
          /\ \A o \in Objects : o # This => owner'[o] = owner[o]
      BY <1>0, <3>1
    <3>3. CacheRight'
      <4> SUFFICES ASSUME NEW o \in Memoized, cache'[o] # None PROVE owner'[o] = cache'[o]
        BY DEF CacheRight
      <4>1. CASE o = This
        <5>1. cache'[o] = u
          BY <1>0, <2>2, <4>1 DEF Remembered
        <5> QED BY <2>2, <3>2, <4>1, <5>1
      <4>2. CASE o # This
        <5>1. cache'[o] = cache[o]
          BY <1>0, <2>2, <4>2 DEF Remembered
        <5> QED BY <1>0, <3>2, <4>2, <5>1 DEF Owned, CacheRight
      <4> QED BY <4>1, <4>2
    <3> QED BY <3>2, <3>3
  <2>3. undisturbed => uid = cr
    BY <2>1 DEF Owned, Progress
  <2>4. CASE Applied /\ Store(uid)
                /\ cache' = Remembered(IF This \in Unstructured /\ Verb = "update"
                                       THEN None ELSE uid)
    BY <2>1, <2>2, <2>4, AppliedOwned DEF Owned
  <2>5. CASE Fail /\ Store(uid) /\ cache' = Remembered(None)
    <3>1. pc' = "idle" /\ UNCHANGED synced
      BY <2>5 DEF Fail, Return
    <3> QED BY <2>1, <2>2, <2>3, <2>5, <3>1, StandingOwned DEF Owned
  <2>6. CASE Fail /\ UNCHANGED <<owner, cache>>
    <3>1. pc' = "idle" /\ UNCHANGED synced
      BY <2>6 DEF Fail, Return
    <3>2. CacheRight'
      BY <2>6 DEF Owned, CacheRight
    <3> QED BY <2>1, <2>6, <3>1, <3>2, StandingOwned DEF Owned
  <2> QED BY <1>4, <2>4, <2>5, <2>6 DEF Write
<1> QED BY <1>1, <1>2, <1>3, <1>4 DEF Sync

LEMMA NextOwned == Typed /\ Owned /\ [Next]_vars => Owned'
<1> SUFFICES ASSUME Typed, Owned, [Next]_vars PROVE Owned'
  OBVIOUS
<1> USE Numbers
<1>0. /\ cache \in [Objects -> 0..MaxUid] /\ owner \in [Objects -> 0..Absent]
      /\ Memoized \subseteq Objects
  BY DEF Typed, MemoType, ObjectType
<1>1. ASSUME UNCHANGED <<cr, owner, cache, undisturbed, synced>>, UNCHANGED worker PROVE Owned'
  BY <1>1 DEF worker, Owned, CacheRight, Progress, Done
<1>2. CASE CrEvent \/ Resync
  BY <1>1, <1>2 DEF CrEvent, Resync
<1>3. CASE Crash
  BY <1>3 DEF Crash, Return, Owned, CacheRight, Progress
<1>4. CASE LateWrite
  <2>1. CASE UNCHANGED <<owner, copy, cache, undisturbed>>
    BY <1>1, <1>4, <2>1 DEF LateWrite
  <2>2. CASE /\ SetOwner(late.object, late.uid)
             /\ cache' = [cache EXCEPT ![late.object] = None]
             /\ undisturbed' = FALSE
    BY <1>0, <2>2 DEF SetOwner, Owned, CacheRight, Progress
  <2> QED BY <1>4, <2>1, <2>2 DEF LateWrite
<1>5. CASE CreateCr \/ DeleteCr
  BY <1>5 DEF CreateCr, DeleteCr, Owned, CacheRight, Progress
<1>6. CASE OrphanCr
  <2>1. PICK S \in SUBSET {o \in Objects : owner[o] = cr} :
            /\ owner' = [o \in Objects |-> IF o \in S THEN None ELSE owner[o]]
            /\ Disturbed(S)
    BY <1>6 DEF OrphanCr
  <2> QED BY <1>0, <2>1 DEF Disturbed, Owned, CacheRight, Progress
<1>7. ASSUME NEW o \in Objects, Condemn(o) PROVE Owned'
  BY <1>1, <1>7 DEF Condemn
<1>8. ASSUME NEW o \in Objects, Collect(o) PROVE Owned'
  BY <1>0, <1>8 DEF Collect, SetOwner, Disturbed, Owned, CacheRight, Progress
<1>9. CASE UNCHANGED vars
  BY <1>1, <1>9 DEF vars
<1> QED BY <1>2, <1>3, <1>4, <1>5, <1>6, <1>7, <1>8, <1>9, SyncOwned DEF Next

\* What the resourceCache skips is right: after a sync that nobody disturbed, every
\* object belongs to the CR that exists.
THEOREM SyncsLeaveOwned == Spec => []SyncedIsOwned
<1>1. Init => Owned
  BY DEF Init, Owned, CacheRight, Progress, MemoAssumption
<1>2. Owned => SyncedIsOwned
  BY DEF Owned, Progress, Done, SyncedIsOwned, Objects
<1> QED BY <1>1, <1>2, NextOwned, Typing, PTL DEF Spec

=============================================================================
