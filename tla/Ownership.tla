------------------------------ MODULE Ownership ------------------------------
(***************************************************************************)
(* Whose the operand's objects are.  Every manifest sync() applies names   *)
(* the CR, by its UID, as the owner; the garbage collector deletes objects *)
(* whose owner is gone.  A CR that is deleted and created again has the    *)
(* same name and another UID: every object must move to the new one, while *)
(* the collector works on what the old one left behind.                    *)
(*                                                                         *)
(* Here the CR is managed, cert-manager is installed and its Secrets are   *)
(* filled; of an object only its existence and its owner matter.  An apply *)
(* is a Get and a write: the object may change hands between the two, and  *)
(* a write the operator did not live to see may land later.                *)
(***************************************************************************)
EXTENDS Naturals, Sequences

CONSTANTS
    Pipeline,   \* the objects sync() applies, in its order
    Memoized,   \* those whose apply asks the resourceCache
    Unstructured, \* those whose Update is filed under a hash no manifest matches
    MaxUid,     \* bound: how often a CR is created
    Limit       \* bound: how often the environment does each kind of step

EnvironmentSteps == {"delete", "orphan", "apiFailure", "crash"}
Objects == {Pipeline[i] : i \in 1..Len(Pipeline)}
Uids == 1..MaxUid
None == 0           \* no CR; no owner
Absent == MaxUid + 1  \* in "owner": there is no such object

ASSUME PipelineAssumption == Pipeline \in Seq(STRING) /\ Len(Pipeline) > 0
ASSUME MemoAssumption == Memoized \subseteq Objects /\ Unstructured \subseteq Memoized
ASSUME LimitAssumption == MaxUid \in Nat /\ Limit \in [EnvironmentSteps -> Nat]

VARIABLES
    cr,         \* UID of the CR, None when there is none
    created,    \* how many CRs there have been: their UIDs are 1..created
    seen,       \* UID of the CR in the informer's store
    owner,      \* of each object: the UID its ownerReference names, None or Absent
    condemned,  \* objects the collector found without an owner and is about to delete
    queued,     \* the controller's only key is in the work queue
    pc,         \* the worker: idle, getCr, get or write
    step,       \* position of the worker in the pipeline
    uid,        \* sync()'s ownerReference
    copy,       \* what the last Get returned: absent, current or (by now) outdated
    cache,      \* resourceCache: the UID in the manifest an unchanged object was given
    late,       \* a write of a crashed process that may still arrive
    undisturbed, \* history: nobody but the worker touched the CR or an object in this sync
    synced,     \* history: the worker is idle after a sync that succeeded
    used        \* used[k]: how often the environment has done k

worker == <<pc, step, uid>>
vars == <<cr, created, seen, owner, condemned, queued, worker, copy, cache, late,
          undisturbed, synced, used>>

NoWrite == [verb |-> "none"]
Writes == [verb : {"create", "update"}, object : Objects, uid : Uids, current : BOOLEAN]

Spend(k) == used[k] < Limit[k] /\ used' = [used EXCEPT ![k] = @ + 1]

This == Pipeline[step]
Exists(o) == owner[o] # Absent

\* Somebody other than the worker wrote the objects of S: their resourceVersions moved on.
Disturbed(S) ==
    /\ copy' = IF pc = "write" /\ This \in S /\ copy = "current" THEN "outdated" ELSE copy
    /\ cache' = [o \in Objects |-> IF o \in S THEN None ELSE cache[o]]
    /\ late' = IF late # NoWrite /\ late.object \in S THEN [late EXCEPT !.current = FALSE]
               ELSE late
    /\ undisturbed' = FALSE

-----------------------------------------------------------------------------
(* The worker                                                               *)

\* The lister must know a CR, or the sync fails.
BeginSync ==
    /\ pc = "idle" /\ queued
    /\ IF seen = None
       THEN UNCHANGED <<pc, queued, undisturbed>>
       ELSE pc' = "getCr" /\ queued' = FALSE /\ undisturbed' = TRUE
    /\ synced' = FALSE
    /\ UNCHANGED <<cr, created, seen, owner, condemned, step, uid, copy, cache, late, used>>

\* sync() returns, and its locals are gone.
Return ==
    /\ pc' = "idle"
    /\ step' = 1
    /\ uid' = None

Fail ==
    /\ Return
    /\ queued' = TRUE
    /\ UNCHANGED synced

\* Fault: the manifests name no owner.
NoOwnerReference(u) == None

\* The ownerReference every manifest carries.
OwnerReference(u) == u

\* The owner comes from a live Get of the CR.
GetCr ==
    /\ pc = "getCr"
    /\ \/ /\ cr # None
          /\ uid' = OwnerReference(cr)
          /\ pc' = "get"
          /\ step' = 1
          /\ UNCHANGED <<queued, synced, used>>
       \/ /\ cr = None
          /\ Fail
          /\ UNCHANGED used
       \/ /\ Spend("apiFailure")
          /\ Fail
    /\ UNCHANGED <<cr, created, seen, owner, condemned, copy, cache, late, undisturbed>>

\* Fault: the cache forgets that the owner is part of the manifest.
SafeToSkipAnyOwner(o) == o \in Memoized /\ Exists(o) /\ cache[o] # None

\* SafeToSkipApply: the hash covers the whole manifest, its ownerReferences among it.
SafeToSkip(o) == o \in Memoized /\ Exists(o) /\ cache[o] = uid

\* Fault: one object too many.
AppliedPast ==
    IF step <= Len(Pipeline)
    THEN pc' = "get" /\ step' = step + 1 /\ UNCHANGED <<uid, synced>>
    ELSE Return /\ synced' = TRUE

\* Found as required, or made so; after the last object sync() has succeeded.
Applied ==
    IF step < Len(Pipeline)
    THEN pc' = "get" /\ step' = step + 1 /\ UNCHANGED <<uid, synced>>
    ELSE Return /\ synced' = TRUE

Remembered(u) == IF This \in Memoized THEN [cache EXCEPT ![This] = u] ELSE cache

Get ==
    /\ pc = "get"
    /\ \/ /\ SafeToSkip(This) \/ owner[This] = uid
          /\ cache' = IF SafeToSkip(This) THEN cache ELSE Remembered(uid)
          /\ Applied
          /\ UNCHANGED <<queued, copy, used>>
       \/ /\ ~SafeToSkip(This) /\ owner[This] # uid
          /\ copy' = IF Exists(This) THEN "current" ELSE "absent"
          /\ pc' = "write"
          /\ UNCHANGED <<queued, step, uid, cache, synced, used>>
       \/ /\ Spend("apiFailure")
          /\ Fail
          /\ UNCHANGED <<copy, cache>>
    /\ UNCHANGED <<cr, created, seen, owner, condemned, late, undisturbed>>

\* Fault: the Update carries no resourceVersion.
LandsBlindly(verb, o, current) == (verb = "create") = ~Exists(o)

\* Create needs the name to be free, Update the resourceVersion that was read.
Lands(verb, o, current) == IF verb = "create" THEN ~Exists(o) ELSE current /\ Exists(o)

\* MergeOwnerRefs: the reference with the CR's name, kind and group takes the UID.
SetOwner(o, u) == owner' = [owner EXCEPT ![o] = u]

Verb == IF copy = "absent" THEN "create" ELSE "update"

\* The server takes the write: a created object is another one than was condemned.
Store(u) ==
    /\ Lands(Verb, This, copy = "current")
    /\ SetOwner(This, u)
    /\ condemned' = IF Verb = "create" THEN condemned \ {This} ELSE condemned
    /\ late' = IF late # NoWrite /\ late.object = This THEN [late EXCEPT !.current = FALSE]
               ELSE late

Write ==
    /\ pc = "write"
    /\ \/ /\ Store(uid)
          /\ cache' = Remembered(IF This \in Unstructured /\ Verb = "update" THEN None ELSE uid)
          /\ Applied
          /\ UNCHANGED <<queued, used>>
       \/ /\ ~Lands(Verb, This, copy = "current")
          /\ Fail
          /\ UNCHANGED <<owner, condemned, late, cache, used>>
       \/ /\ Spend("apiFailure")          \* an error, or the reply is lost
          /\ \/ UNCHANGED <<owner, condemned, late, cache>>
             \/ Store(uid) /\ cache' = Remembered(None)
          /\ Fail
    /\ copy' = "absent"
    /\ UNCHANGED <<cr, created, seen, undisturbed>>

-----------------------------------------------------------------------------
(* What wakes the worker                                                    *)

CrEvent ==
    /\ seen # cr
    /\ seen' = cr
    /\ queued' = TRUE
    /\ UNCHANGED <<cr, created, owner, condemned, worker, copy, cache, late, undisturbed,
                   synced, used>>

\* Fault: no periodic resync.
NoResync == FALSE /\ UNCHANGED vars

\* Every five minutes; the events of the objects that have an informer only come earlier.
Resync ==
    /\ ~queued
    /\ queued' = TRUE
    /\ UNCHANGED <<cr, created, seen, owner, condemned, worker, copy, cache, late,
                   undisturbed, synced, used>>

\* The process dies and starts again; a write on its way may be lost or come later.
Crash ==
    /\ Spend("crash")
    /\ Return
    /\ copy' = "absent"
    /\ seen' = None
    /\ queued' = FALSE
    /\ cache' = [o \in Objects |-> None]
    /\ synced' = FALSE
    /\ \/ UNCHANGED late
       \/ /\ pc = "write"
          /\ late' = [verb |-> Verb, object |-> This, uid |-> uid,
                      current |-> copy = "current"]
    /\ UNCHANGED <<cr, created, owner, condemned, undisturbed>>

LateWrite ==
    /\ late # NoWrite
    /\ IF Lands(late.verb, late.object, late.current)
       THEN /\ SetOwner(late.object, late.uid)
            /\ condemned' = IF late.verb = "create" THEN condemned \ {late.object}
                            ELSE condemned
            /\ copy' = IF pc = "write" /\ This = late.object /\ copy = "current"
                       THEN "outdated" ELSE copy
            /\ cache' = [cache EXCEPT ![late.object] = None]
            /\ undisturbed' = FALSE
       ELSE UNCHANGED <<owner, condemned, copy, cache, undisturbed>>
    /\ late' = NoWrite
    /\ UNCHANGED <<cr, created, seen, queued, worker, synced, used>>

-----------------------------------------------------------------------------
(* The CR and the garbage collector                                         *)

CreateCr ==
    /\ cr = None /\ created < MaxUid
    /\ created' = created + 1
    /\ cr' = created'
    /\ undisturbed' = FALSE
    /\ UNCHANGED <<seen, owner, condemned, queued, worker, copy, cache, late, synced, used>>

\* The CR goes and leaves its objects to the collector.
DeleteCr ==
    /\ cr # None
    /\ Spend("delete")
    /\ cr' = None
    /\ undisturbed' = FALSE
    /\ UNCHANGED <<created, seen, owner, condemned, queued, worker, copy, cache, late, synced>>

\* The CR goes with --cascade=orphan: its objects lose their references first, unless a
\* sync under way has given some of them back.
OrphanCr ==
    /\ cr # None
    /\ Spend("orphan")
    /\ cr' = None
    /\ \E orphaned \in SUBSET {o \in Objects : owner[o] = cr} :
        /\ owner' = [o \in Objects |-> IF o \in orphaned THEN None ELSE owner[o]]
        /\ Disturbed(orphaned)
    /\ UNCHANGED <<created, seen, condemned, queued, worker, synced>>

\* The collector looks the owner up, and deletes what it found orphaned later: the
\* delete names the object's UID, not the version it saw.
Condemn(o) ==
    /\ owner[o] \in Uids \ {cr}
    /\ o \notin condemned
    /\ condemned' = condemned \cup {o}
    /\ UNCHANGED <<cr, created, seen, owner, queued, worker, copy, cache, late,
                   undisturbed, synced, used>>

Collect(o) ==
    /\ o \in condemned
    /\ SetOwner(o, Absent)
    /\ condemned' = condemned \ {o}
    /\ Disturbed({o})
    /\ UNCHANGED <<cr, created, seen, queued, worker, synced, used>>

-----------------------------------------------------------------------------
Init ==
    /\ cr = None /\ created = 0 /\ seen = None
    /\ owner = [o \in Objects |-> Absent]
    /\ condemned = {}
    /\ queued = FALSE
    /\ pc = "idle" /\ step = 1 /\ uid = None
    /\ copy = "absent"
    /\ cache = [o \in Objects |-> None]
    /\ late = NoWrite
    /\ undisturbed = TRUE /\ synced = FALSE
    /\ used = [k \in EnvironmentSteps |-> 0]

Sync == BeginSync \/ GetCr \/ Get \/ Write

Next ==
    \/ Sync
    \/ CrEvent \/ Resync \/ Crash \/ LateWrite
    \/ CreateCr \/ DeleteCr \/ OrphanCr
    \/ \E o \in Objects : Condemn(o) \/ Collect(o)

\* Retries, the resync, events and the collector go on; people and failures owe nothing.
Fairness ==
    /\ WF_vars(Sync)
    /\ WF_vars(CrEvent)
    /\ WF_vars(Resync)
    /\ WF_vars(LateWrite)
    /\ \A o \in Objects : WF_vars(Condemn(o)) /\ WF_vars(Collect(o))

Spec == Init /\ [][Next]_vars
FairSpec == Spec /\ Fairness

-----------------------------------------------------------------------------
(* Properties                                                               *)

\* Type invariant.
TypeOK ==
    /\ cr \in {None, created}
    /\ created \in 0..MaxUid
    /\ seen \in 0..MaxUid
    /\ owner \in [Objects -> 0..Absent]
    /\ condemned \subseteq {o \in Objects : Exists(o)}
    /\ queued \in BOOLEAN
    /\ pc \in {"idle", "getCr", "get", "write"}
    /\ step \in 1..Len(Pipeline)
    /\ uid \in 0..MaxUid
    /\ copy \in {"absent", "current", "outdated"}
    /\ cache \in [Objects -> 0..MaxUid]
    /\ late \in Writes \cup {NoWrite}
    /\ undisturbed \in BOOLEAN /\ synced \in BOOLEAN
    /\ used \in [EnvironmentSteps -> Nat]

\* After a sync that succeeded while nobody else touched the CR or its objects, every
\* object belongs to the CR that exists, whatever the resourceCache let the sync skip.
SyncedIsOwned == synced /\ undisturbed => \A o \in Objects : owner[o] = cr

\* An object is never handed back to a CR that came before its owner, not even by a
\* write that arrives after its process died: the collector would delete it.
OwnersMoveForward ==
    [][\A o \in Objects :
         owner[o] \in Uids /\ owner'[o] \in Uids => owner[o] <= owner'[o]]_vars

\* Once the CR is left alone, every object exists and belongs to it, though the
\* collector may still delete some that moved to it after it had condemned them.
OperandFollowsCr == <>[](cr # None => \A o \in Objects : owner[o] = cr)

\* Once the CR is gone for good nothing is left that named it, and nothing at all unless
\* somebody chose to keep it, though a sync may have gone on applying objects for a while.
OperandLeavesWithCr ==
    <>[](cr = None => \A o \in Objects : owner[o] = Absent
                                         \/ (owner[o] = None /\ used["orphan"] > 0))

=============================================================================
