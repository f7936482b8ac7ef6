------------------------- MODULE ConversionCRDProofs -------------------------
(***************************************************************************)
(* Proofs about ConversionCRD for every list of CRD files, every choice of *)
(* converting CRDs and every budget of environment steps.                  *)
(***************************************************************************)
EXTENDS ConversionCRD, TLAPS

USE FilesAssumption, CAsAssumption, LimitAssumption

\* Only a CRD that exists and has the webhook carries a bundle, and only a converting
\* CRD has the webhook.
Unhooked ==
    \A n \in Names :
        /\ ~crd[n].exists \/ crd[n].conversion = "none" => crd[n].bundle = "none"
        /\ n \notin Converting => crd[n].conversion = "none"

\* The manifest starts without a bundle; from the operator's first read on it carries
\* the bundle of the live CRD until somebody else writes that.
BundleCopied ==
    /\ pc \in {"idle", "applied", "down", "getCurrent"} => bundle = "none"
    /\ Current \notin Converting => bundle = "none"
    /\ pc \in {"getExisting", "create", "update"} /\ ~touched
          => crd[Current].bundle = bundle

Inv == TypeOK /\ Unhooked /\ BundleCopied

LEMMA CurrentIsName == ASSUME TypeOK PROVE Current \in Names
BY DEF TypeOK, Current, Names

LEMMA SpendTyped ==
    ASSUME NEW k \in Kinds, used \in [Kinds -> Nat], Spend(k)
    PROVE  used' \in [Kinds -> Nat]
BY DEF Spend

LEMMA FilesCounted == Len(CrdFiles) \in Nat /\ 1 \in 1..Len(CrdFiles)
OBVIOUS

\* What the operator does with its own locals at the end of a file or of a sync.
LEMMA EndTyped ==
    ASSUME TypeOK, EndSync \/ Applied
    PROVE  /\ pc' \in {"idle", "applied", "getCurrent"}
           /\ file' \in 1..Len(CrdFiles)
           /\ bundle' = "none"
<1>1. CASE EndSync
  BY <1>1, FilesCounted DEF EndSync
<1>2. CASE Applied
  BY <1>2, FilesCounted DEF Applied, EndSync, TypeOK
<1>3. QED
  BY <1>1, <1>2

LEMMA WriteKeeps ==
    ASSUME Inv, NEW accepted \in BOOLEAN, Write(accepted),
           pc \in {"create", "update"}
    PROVE  Inv'
<1> DEFINE n == Current
           new == Merged(crd[n], Required(n, bundle))
<1>1. n \in Names
  BY CurrentIsName DEF Inv
<1>2. new \in Crd
  BY <1>1 DEF Inv, TypeOK, Merged, Required, CaInjected, Crd, Bundles
<1>3. /\ new.exists /\ new.bundle = bundle
      /\ new.conversion = IF n \in Converting THEN "webhook" ELSE "none"
  BY DEF Merged, Required
<1>4. crd' = crd \/ crd' = [crd EXCEPT ![n] = new]
  BY DEF Write
<1>5. EndSync \/ Applied
  BY DEF Write
<1>6. /\ pc' \in {"idle", "applied", "getCurrent"} /\ file' \in 1..Len(CrdFiles) /\ bundle' = "none"
  BY <1>5, EndTyped DEF Inv
<1>7. TypeOK'
  <2>1. crd' \in [Names -> Crd]
    BY <1>1, <1>2, <1>4 DEF Inv, TypeOK
  <2>2. used' \in [Kinds -> Nat]
    BY SpendTyped DEF Write, Inv, TypeOK, Kinds
  <2>3. QED
    BY <1>6, <2>1, <2>2 DEF Write, Inv, TypeOK, Bundles
<1>8. Unhooked'
  <2>1. CASE crd' = crd
    BY <2>1 DEF Inv, Unhooked
  <2>2. CASE crd' = [crd EXCEPT ![n] = new]
    BY <1>1, <1>3, <2>2 DEF Inv, Unhooked, BundleCopied, TypeOK
  <2>3. QED
    BY <1>4, <2>1, <2>2
<1>9. BundleCopied'
  BY <1>6 DEF BundleCopied
<1>10. QED
  BY <1>7, <1>8, <1>9 DEF Inv

LEMMA TouchKeeps ==
    ASSUME Inv, NEW n \in Names, NEW d \in Crd, Touch(n, d),
           ~d.exists \/ d.conversion = "none" => d.bundle = "none",
           n \notin Converting => d.conversion = "none",
           UNCHANGED <<pc, file, bundle>>
    PROVE  crd' \in [Names -> Crd] /\ Unhooked' /\ BundleCopied'
           /\ fresh' \in BOOLEAN /\ touched' \in BOOLEAN
<1>1. crd' = [crd EXCEPT ![n] = d] /\ crd \in [Names -> Crd]
  BY DEF Touch, Inv, TypeOK
<1>2. Unhooked'
  BY <1>1 DEF Inv, Unhooked
<1>3. BundleCopied'
  <2>1. Current' = Current /\ Current \in Names
    BY CurrentIsName DEF Current, Inv
  <2>2. CASE n = Current
    BY <2>1, <2>2 DEF Touch, Inv, BundleCopied
  <2>3. CASE n # Current
    <3>1. crd'[Current] = crd[Current] /\ touched' = touched
      BY <1>1, <2>1, <2>3 DEF Touch, Inv, TypeOK
    <3>2. QED
      BY <2>1, <3>1 DEF Inv, BundleCopied
  <2>4. QED
    BY <2>2, <2>3
<1>4. QED
  BY <1>1, <1>2, <1>3 DEF Touch, Inv, TypeOK

LEMMA InvInit == Init => Inv
<1> SUFFICES ASSUME Init PROVE Inv
  OBVIOUS
<1>1. crd \in [Names -> Crd] /\ \A n \in Names : crd[n] \in Foreign(n) \cup {Absent}
  BY DEF Init
<1>2. Unhooked
  BY <1>1 DEF Unhooked, Foreign, Absent
<1>3. TypeOK
  BY <1>1, FilesCounted DEF Init, TypeOK, Bundles, Kinds
<1>4. BundleCopied
  BY DEF Init, BundleCopied
<1>5. QED
  BY <1>2, <1>3, <1>4 DEF Inv

LEMMA InvStep == Inv /\ [Next]_vars => Inv'
<1> SUFFICES ASSUME Inv, [Next]_vars PROVE Inv'
  OBVIOUS
<1> USE DEF operatorVars
<1>a. Current \in Names /\ crd[Current] \in Crd /\ TypeOK
  BY CurrentIsName DEF Inv, TypeOK
<1>1. CASE StartSync \/ Restart
  BY <1>1 DEF StartSync, Restart, Inv, TypeOK, Unhooked, BundleCopied, Current
<1>2. ASSUME UNCHANGED <<crd, ca>>, fresh' \in BOOLEAN, touched' \in BOOLEAN,
             used' \in [Kinds -> Nat], pc' \in {"idle", "applied", "down", "getCurrent"},
             edited' \in SUBSET Names,
             file' \in 1..Len(CrdFiles), bundle' = "none"
      PROVE  Inv'
  BY <1>2 DEF Inv, TypeOK, Unhooked, BundleCopied, Bundles
<1>3. CASE GetCurrent
  <2>1. UNCHANGED <<crd, ca, fresh, edited>> /\ touched' = FALSE /\ used' \in [Kinds -> Nat]
    BY <1>3, <1>a, SpendTyped DEF GetCurrent, TypeOK, Kinds
  <2>2. CASE pc' = "down" /\ file' = 1 /\ bundle' = "none"
    BY <1>2, <1>a, <2>1, <2>2, FilesCounted DEF TypeOK
  <2>3. CASE EndSync
    BY <1>2, <1>a, <2>1, <2>3, FilesCounted DEF EndSync, TypeOK
  <2>4. CASE /\ crd[Current].exists /\ Current \in Converting
             /\ pc' = "getExisting" /\ bundle' = crd[Current].bundle /\ UNCHANGED file
    BY <1>a, <2>1, <2>4 DEF Inv, TypeOK, Unhooked, BundleCopied, Current, Crd
  <2>5. CASE /\ ~crd[Current].exists \/ Current \notin Converting
             /\ pc = "getCurrent" /\ pc' = "getExisting" /\ UNCHANGED <<file, bundle>>
    <3>1. crd[Current].bundle = "none"
      BY <1>a, <2>5 DEF Inv, Unhooked
    <3>2. Current' = Current
      BY <2>5 DEF Current
    <3>3. bundle = "none"
      BY <2>5 DEF Inv, BundleCopied
    <3>4. QED
      BY <1>a, <2>1, <2>5, <3>1, <3>2, <3>3 DEF Inv, TypeOK, Unhooked, BundleCopied
  <2>6. QED
    BY <1>3, <2>2, <2>3, <2>4, <2>5 DEF GetCurrent
<1>4. CASE GetExisting
  <2>1. /\ UNCHANGED <<crd, ca, touched>> /\ edited' \in SUBSET Names
        /\ used' \in [Kinds -> Nat] /\ fresh' \in BOOLEAN
    BY <1>4, <1>a, SpendTyped DEF GetExisting, TypeOK, Kinds
  <2>2. CASE EndSync \/ Applied
    BY <1>2, <1>a, <2>1, <2>2, EndTyped DEF TypeOK
  <2>3. CASE pc = "getExisting" /\ pc' \in {"create", "update"} /\ UNCHANGED <<file, bundle>>
    BY <1>a, <2>1, <2>3 DEF Inv, TypeOK, Unhooked, BundleCopied, Current
  <2>4. QED
    BY <1>4, <2>2, <2>3 DEF GetExisting
<1>5. CASE CreateCrd \/ UpdateCrd
  <2>1. crd[Current].exists \in BOOLEAN /\ fresh \in BOOLEAN
    BY <1>a DEF TypeOK, Crd
  <2>2. QED
    BY <1>5, <2>1, WriteKeeps DEF CreateCrd, UpdateCrd
<1>6. ASSUME NEW n \in Names, NEW d \in Crd, Touch(n, d),
             ~d.exists \/ d.conversion = "none" => d.bundle = "none",
             n \notin Converting => d.conversion = "none",
             UNCHANGED <<ca, pc, file, bundle>>, used' \in [Kinds -> Nat],
             edited' \in SUBSET Names
      PROVE  Inv'
  BY <1>6, <1>a, TouchKeeps DEF Inv, TypeOK
<1>7. CASE InjectCA
  <2>1. PICK n \in Names : /\ crd[n].exists /\ crd[n].conversion = "webhook"
                           /\ Touch(n, [crd[n] EXCEPT !.bundle = ca])
    BY <1>7 DEF InjectCA
  <2> DEFINE d == [crd[n] EXCEPT !.bundle = ca]
  <2>2. d \in Crd /\ d.exists = crd[n].exists /\ d.conversion = crd[n].conversion
    BY <1>a DEF TypeOK, Crd, Bundles
  <2>3. QED
    BY <1>6, <1>7, <1>a, <2>1, <2>2 DEF InjectCA, Inv, TypeOK, Unhooked
<1>8. CASE RotateCA
  BY <1>8, <1>a, SpendTyped
  DEF RotateCA, Inv, TypeOK, Unhooked, BundleCopied, Current, Kinds
<1>9. CASE EditCrd
  <2>a. PICK n \in Names : (\E d \in Foreign(n) : Touch(n, d)) /\ edited' = edited \cup {n}
    BY <1>9 DEF EditCrd
  <2>1. PICK d \in Foreign(n) : Touch(n, d)
    BY <2>a
  <2>2. /\ d \in Crd /\ d.exists /\ (d.conversion = "none" => d.bundle = "none")
        /\ n \notin Converting => d.conversion = "none"
    BY DEF Foreign
  <2>3. used' \in [Kinds -> Nat]
    BY <1>9, <1>a, SpendTyped DEF EditCrd, TypeOK, Kinds
  <2>4. edited' \in SUBSET Names
    BY <1>a, <2>a DEF TypeOK
  <2>5. QED
    BY <1>6, <1>9, <2>1, <2>2, <2>3, <2>4 DEF EditCrd
<1>10. CASE DeleteCrd
  <2>1. PICK n \in Names : Touch(n, Absent) /\ edited' = edited \cup {n}
    BY <1>10 DEF DeleteCrd
  <2>2. Absent \in Crd /\ Absent.bundle = "none" /\ Absent.conversion = "none"
    BY DEF Absent, Crd, Bundles
  <2>3. used' \in [Kinds -> Nat]
    BY <1>10, <1>a, SpendTyped DEF DeleteCrd, TypeOK, Kinds
  <2>4. edited' \in SUBSET Names
    BY <1>a, <2>1 DEF TypeOK
  <2>5. QED
    BY <1>6, <1>10, <2>1, <2>2, <2>3, <2>4 DEF DeleteCrd
<1>11. CASE Crash
  BY <1>2, <1>11, <1>a, SpendTyped, FilesCounted DEF Crash, TypeOK, Kinds
<1>12. CASE UNCHANGED vars
  BY <1>12 DEF vars, Inv, TypeOK, Unhooked, BundleCopied, Current
<1>13. QED
  BY <1>1, <1>3, <1>4, <1>5, <1>7, <1>8, <1>9, <1>10, <1>11, <1>12 DEF Next, Operator

LEMMA InvAlways == Spec => []Inv
BY InvInit, InvStep, PTL DEF Spec

\* Every variable of ConversionCRD keeps its shape.
THEOREM CrdTypeCorrect == Spec => []TypeOK
<1>1. Inv => TypeOK
  BY DEF Inv
<1>2. QED
  BY <1>1, InvAlways, PTL

\* The operator rolls a CA bundle back only when somebody wrote the CRD between its
\* two reads.
THEOREM BundleKeptUnlessRaced == Spec => BundleLostOnlyByRace
<1>1. Inv /\ [Next]_vars
        => [Updates => crd'[Current].bundle = crd[Current].bundle \/ touched]_vars
  <2> SUFFICES ASSUME Inv, [Next]_vars, Updates, ~touched
               PROVE  crd'[Current].bundle = crd[Current].bundle
    OBVIOUS
  <2>1. UpdateCrd \/ UNCHANGED pc \/ Crash
    BY DEF Updates, Next, Operator, StartSync, GetCurrent, GetExisting, CreateCrd, Restart,
       InjectCA, RotateCA, EditCrd, DeleteCrd, operatorVars, vars
  <2>2. UpdateCrd
    BY <2>1 DEF Updates, Crash
  <2>3. crd' = [crd EXCEPT ![Current] = Merged(crd[Current], Required(Current, bundle))]
    BY <2>2 DEF Updates, UpdateCrd, Write
  <2>4. Current \in Names /\ crd \in [Names -> Crd]
    BY CurrentIsName DEF Inv, TypeOK
  <2>5. crd'[Current].bundle = bundle
    BY <2>3, <2>4 DEF Merged, Required
  <2>6. QED
    BY <2>5 DEF Inv, BundleCopied, Updates
<1>2. QED
  BY <1>1, InvAlways, PTL DEF Spec, BundleLostOnlyByRace

-----------------------------------------------------------------------------
(* A success means every file                                               *)

\* n is as its manifest says, but for the CA bundle.
Right(n) == crd[n].exists /\ UpToDate(crd[n], Required(n, crd[n].bundle))

Applying == pc \in {"getCurrent", "getExisting", "create", "update"}

\* The files behind the operator are right, unless people wrote them meanwhile, and past
\* the last one all are.  A list that names a CRD twice comes back to it.
Behind ==
    /\ Applying => \A i \in 1..(file - 1) : CrdFiles[i] \in edited \cup {Current} \/ Right(CrdFiles[i])
    /\ pc = "applied" => \A n \in Names : n \in edited \/ Right(n)
    /\ ~Applying => file = 1

\* A CRD by its fields, and its fields by name.
CrdOf(e, s, y, h, b) ==
    [exists |-> e, spec |-> s, annotated |-> y, conversion |-> h, bundle |-> b]

\* The fields every manifest has, whether the injector's annotation is in the manifest n,
\* and whether it is in the merge of it with d: names that keep the values from the provers
\* where only their identity matters.
MadeOf(n, e, s, h) ==
    e = TRUE /\ s = "required" /\ h = IF n \in Converting THEN "webhook" ELSE "none"

Injected(n, z) == z = CaInjected(n)
Annotated(n, d, y) == y = (CaInjected(n) \/ d.annotated)

LEMMA ExistsOf ==
    ASSUME NEW e, NEW s, NEW y, NEW h, NEW b PROVE CrdOf(e, s, y, h, b).exists = e
BY DEF CrdOf

LEMMA AnnotatedOf ==
    ASSUME NEW e, NEW s, NEW y, NEW h, NEW b PROVE CrdOf(e, s, y, h, b).annotated = y
BY DEF CrdOf

LEMMA BundleOf ==
    ASSUME NEW e, NEW s, NEW y, NEW h, NEW b PROVE CrdOf(e, s, y, h, b).bundle = b
BY DEF CrdOf

LEMMA OtherBundle ==
    ASSUME NEW e, NEW s, NEW y, NEW h, NEW b, NEW c
    PROVE  [CrdOf(e, s, y, h, b) EXCEPT !.bundle = c] = CrdOf(e, s, y, h, c)
BY DEF CrdOf

LEMMA OtherAnnotation ==
    ASSUME NEW e, NEW s, NEW y, NEW h, NEW b, NEW z
    PROVE  [CrdOf(e, s, y, h, b) EXCEPT !.annotated = z] = CrdOf(e, s, z, h, b)
BY DEF CrdOf

\* A merge differs from the manifest in the annotation only.
LEMMA MergedIs ==
    ASSUME NEW n, NEW e, NEW s, NEW h, NEW d, NEW x, NEW y,
           MadeOf(n, e, s, h), Annotated(n, d, y)
    PROVE  Merged(d, Required(n, x)) = CrdOf(e, s, y, h, x)
<1>1. PICK z : Injected(n, z)
  BY DEF Injected
<1>2. Required(n, x) = CrdOf(e, s, z, h, x)
  BY <1>1, Zenon DEF Required, CrdOf, MadeOf, Injected
<1>3. Required(n, x).annotated = z
  <2>1. CrdOf(e, s, z, h, x).annotated = z
    BY AnnotatedOf
  <2>2. QED
    BY <1>2, <2>1, Zenon
<1>4. y = (Required(n, x).annotated \/ d.annotated)
  BY <1>1, <1>3 DEF Annotated, Injected
<1>5. Merged(d, Required(n, x)) = [Required(n, x) EXCEPT !.annotated = y]
  BY <1>4, Zenon DEF Merged
<1>6. [CrdOf(e, s, z, h, x) EXCEPT !.annotated = y] = CrdOf(e, s, y, h, x)
  BY OtherAnnotation
<1>7. QED
  BY <1>2, <1>5, <1>6, Zenon

\* Merging a manifest a second time changes nothing; nor does another bundle.
LEMMA MergedIsRight ==
    ASSUME NEW n \in Names, NEW d \in Crd, NEW b, NEW c
    PROVE  /\ UpToDate(Merged(d, Required(n, b)), Required(n, b))
           /\ Merged(d, Required(n, b)).bundle = b
           /\ Merged(d, Required(n, b)).exists
           /\ UpToDate(d, Required(n, b)) => d.bundle = b
           /\ UpToDate(d, Required(n, b))
                => UpToDate([d EXCEPT !.bundle = c], Required(n, c))
<1>1. PICK y : Annotated(n, d, y)
  BY DEF Annotated
<1>2. PICK e, s, h : MadeOf(n, e, s, h)
  BY DEF MadeOf
<1>3. Merged(d, Required(n, b)) = CrdOf(e, s, y, h, b)
  BY <1>1, <1>2, MergedIs
<1>4. ASSUME NEW x
      PROVE  Merged(CrdOf(e, s, y, h, x), Required(n, x)) = CrdOf(e, s, y, h, x)
  <2>1. CrdOf(e, s, y, h, x).annotated = y
    BY AnnotatedOf
  <2>2. Annotated(n, CrdOf(e, s, y, h, x), y)
    BY <1>1, <2>1 DEF Annotated
  <2>3. QED
    BY <1>2, <2>2, MergedIs
<1>5. UpToDate(Merged(d, Required(n, b)), Required(n, b))
  BY <1>3, <1>4, Zenon DEF UpToDate
<1>6. Merged(d, Required(n, b)).bundle = b
  <2>1. CrdOf(e, s, y, h, b).bundle = b
    BY BundleOf
  <2>2. QED
    BY <1>3, <2>1, Zenon
<1>7. Merged(d, Required(n, b)).exists
  <2>1. CrdOf(e, s, y, h, b).exists = e
    BY ExistsOf
  <2>2. Merged(d, Required(n, b)).exists = e
    BY <1>3, <2>1, Zenon
  <2>3. QED
    BY <1>2, <2>2 DEF MadeOf
<1>8. UpToDate(d, Required(n, b)) => d.bundle = b
  BY <1>6, Zenon DEF UpToDate
<1>9. ASSUME UpToDate(d, Required(n, b))
      PROVE  UpToDate([d EXCEPT !.bundle = c], Required(n, c))
  <2>1. d = CrdOf(e, s, y, h, b)
    BY <1>3, <1>9, Zenon DEF UpToDate
  <2>2. [CrdOf(e, s, y, h, b) EXCEPT !.bundle = c] = CrdOf(e, s, y, h, c)
    BY OtherBundle
  <2>3. [d EXCEPT !.bundle = c] = CrdOf(e, s, y, h, c)
    BY <2>1, <2>2, Zenon
  <2>4. QED
    BY <1>4, <2>3, Zenon DEF UpToDate
<1>10. QED
  BY <1>5, <1>6, <1>7, <1>8, <1>9, Zenon

\* The operator moves on: what was behind it still is, and so is the present file.
LEMMA BehindApplied ==
    ASSUME Inv, Behind, Applying, Applied, NEW n \in Names, n = Current, Right(n)',
           \A m \in Names \ {n} : crd'[m] = crd[m],
           edited \ {n} \subseteq edited'
    PROVE  Behind'
<1>1. file \in 1..Len(CrdFiles) /\ Len(CrdFiles) \in Nat
  BY DEF Inv, TypeOK
<1>2. ASSUME NEW i \in 1..file
      PROVE  CrdFiles[i] \in Names /\ (CrdFiles[i] \in edited' \/ Right(CrdFiles[i])')
  <2>1. CrdFiles[i] \in Names
    BY <1>1 DEF Names
  <2>2. CASE CrdFiles[i] = n
    BY <2>1, <2>2
  <2>3. CASE CrdFiles[i] # n
    <3>1. i # file
      BY <2>3 DEF Current
    <3>2. i \in 1..(file - 1)
      BY <1>1, <3>1
    <3>3. CrdFiles[i] \in edited \/ Right(CrdFiles[i])
      BY <2>3, <3>2 DEF Behind
    <3>4. crd'[CrdFiles[i]] = crd[CrdFiles[i]]
      BY <2>1, <2>3
    <3>5. QED
      BY <2>1, <2>3, <3>3, <3>4 DEF Right
  <2>4. QED
    BY <2>2, <2>3
<1>3. CASE file < Len(CrdFiles)
  <2>1. pc' = "getCurrent" /\ file' = file + 1
    BY <1>3 DEF Applied
  <2>2. file' - 1 = file
    BY <1>1, <2>1
  <2>3. QED
    BY <1>2, <2>1, <2>2 DEF Behind, Applying
<1>4. CASE ~(file < Len(CrdFiles))
  <2>1. pc' = "applied" /\ file' = 1
    BY <1>4 DEF Applied
  <2>2. file = Len(CrdFiles)
    BY <1>1, <1>4
  <2>3. \A m \in Names : m \in edited' \/ Right(m)'
    BY <1>2, <2>2 DEF Names
  <2>4. QED
    BY <2>1, <2>3 DEF Behind, Applying
<1>5. QED
  BY <1>3, <1>4

\* The operator has no sync under way, or is at the first file.
LEMMA BehindNothing ==
    ASSUME file' = 1, pc' # "applied"
    PROVE  Behind'
BY DEF Behind

\* Within a file the operator spoils nothing behind it.
LEMMA BehindStays ==
    ASSUME Inv, Behind, Applying, Applying', UNCHANGED <<crd, file>>,
           edited \ {Current} \subseteq edited'
    PROVE  Behind'
<1>1. Current' = Current /\ pc' # "applied"
  BY DEF Current, Applying
<1>2. ASSUME NEW i \in 1..(file' - 1)
      PROVE  CrdFiles[i] \in edited' \cup {Current'} \/ Right(CrdFiles[i])'
  BY <1>1 DEF Behind, Right
<1>3. QED
  BY <1>1, <1>2 DEF Behind

\* Other writers leave a CRD right, or are in the history.
LEMMA BehindTouched ==
    ASSUME Inv, Behind, UNCHANGED <<pc, file>>, edited \subseteq edited',
           \A n \in Names : Right(n) => Right(n)' \/ n \in edited'
    PROVE  Behind'
<1>1. Current' = Current /\ (Applying' <=> Applying)
  BY DEF Current, Applying
<1>2. ASSUME Applying', NEW i \in 1..(file' - 1)
      PROVE  CrdFiles[i] \in edited' \cup {Current'} \/ Right(CrdFiles[i])'
  <2>1. CrdFiles[i] \in Names
    BY DEF Inv, TypeOK, Names
  <2>2. CrdFiles[i] \in edited \cup {Current} \/ Right(CrdFiles[i])
    BY <1>1, <1>2 DEF Behind
  <2>3. QED
    BY <1>1, <2>1, <2>2
<1>3. QED
  BY <1>1, <1>2 DEF Behind

LEMMA BehindStep ==
    ASSUME Inv, Behind, [Next]_vars
    PROVE  Behind'
<1> USE DEF operatorVars
<1>a. /\ Current \in Names /\ crd[Current] \in Crd /\ crd \in [Names -> Crd]
      /\ ~Applying => file = 1
  BY CurrentIsName DEF Inv, TypeOK, Behind
<1>1. CASE StartSync
  BY <1>1, <1>a, BehindNothing DEF StartSync, Applying
<1>2. CASE Restart
  BY <1>2, <1>a, BehindNothing DEF Restart, Applying
<1>3. CASE GetCurrent
  <2>1. CASE file' = 1 /\ pc' # "applied"
    BY <2>1, BehindNothing
  <2>2. CASE pc' = "getExisting" /\ UNCHANGED file
    BY <1>3, <2>2, BehindStays DEF GetCurrent, Applying
  <2>3. QED
    BY <1>3, <2>1, <2>2 DEF GetCurrent, EndSync
<1>4. CASE GetExisting
  <2>1. pc = "getExisting" /\ UNCHANGED crd /\ edited' = edited \ {Current}
    BY <1>4 DEF GetExisting
  <2>2. CASE EndSync
    BY <2>2, BehindNothing DEF EndSync
  <2>3. CASE pc' \in {"create", "update"} /\ UNCHANGED file
    BY <2>1, <2>3, BehindStays DEF Applying
  <2>4. CASE crd[Current].exists /\ UpToDate(crd[Current], Required(Current, bundle)) /\ Applied
    <3>1. PICK n \in Names : n = Current
      BY <1>a
    <3>2. crd[n] \in Crd /\ UpToDate(crd[n], Required(n, bundle))
      BY <1>a, <2>4, <3>1
    <3>3. crd[n].bundle = bundle
      BY <3>2, MergedIsRight
    <3>4. Right(n)'
      BY <2>1, <2>4, <3>1, <3>2, <3>3 DEF Right
    <3>5. QED
      BY <2>1, <2>4, <3>1, <3>4, BehindApplied DEF Applying
  <2>5. QED
    BY <1>4, <2>2, <2>3, <2>4 DEF GetExisting
<1>5. ASSUME NEW accepted \in BOOLEAN, Write(accepted), pc \in {"create", "update"}
      PROVE  Behind'
  <2>1. CASE EndSync
    BY <2>1, BehindNothing DEF EndSync
  <2>2. CASE ~EndSync
    <3>1. PICK n \in Names : n = Current
      BY <1>a
    <3>2. crd' = [crd EXCEPT ![n] = Merged(crd[n], Required(n, bundle))] /\ Applied
      BY <1>5, <2>2, <3>1 DEF Write
    <3>3. /\ crd'[n] = Merged(crd[n], Required(n, bundle)) /\ crd[n] \in Crd
          /\ \A m \in Names \ {n} : crd'[m] = crd[m]
      BY <1>a, <3>2
    <3>4. Right(n)'
      <4> DEFINE written == Merged(crd[n], Required(n, bundle))
      <4>1. written.exists
        BY <3>3, MergedIsRight
      <4>2. written.bundle = bundle
        BY <3>3, MergedIsRight
      <4>3. UpToDate(written, Required(n, bundle))
        BY <3>3, MergedIsRight
      <4> HIDE DEF written
      <4>4. UpToDate(written, Required(n, written.bundle))
        BY <4>2, <4>3, Zenon
      <4>5. crd'[n] = written
        BY <3>3 DEF written
      <4>6. QED
        BY <4>1, <4>4, <4>5 DEF Right
    <3>5. QED
      BY <1>5, <3>1, <3>2, <3>3, <3>4, BehindApplied DEF Write, Applying
  <2>3. QED
    BY <2>1, <2>2
<1>6. CASE CreateCrd \/ UpdateCrd
  <2>1. (~crd[Current].exists) \in BOOLEAN /\ fresh \in BOOLEAN
    BY <1>a DEF Inv, TypeOK
  <2>2. QED
    BY <1>5, <1>6, <2>1 DEF CreateCrd, UpdateCrd
<1>7. CASE InjectCA
  <2>1. PICK n \in Names : crd' = [crd EXCEPT ![n] = [crd[n] EXCEPT !.bundle = ca]]
    BY <1>7 DEF InjectCA, Touch
  <2>2. ASSUME NEW m \in Names, Right(m) PROVE Right(m)'
    <3>1. CASE m # n
      BY <1>a, <2>1, <2>2, <3>1 DEF Right
    <3>2. CASE m = n
      <4>1. crd'[n] = [crd[n] EXCEPT !.bundle = ca] /\ crd[n] \in Crd
        BY <1>a, <2>1
      <4>2. crd'[n].exists = crd[n].exists /\ crd'[n].bundle = ca
        BY <4>1 DEF Crd
      <4>3. UpToDate(crd'[n], Required(n, ca))
        BY <2>2, <3>2, <4>1, MergedIsRight DEF Right
      <4>4. QED
        BY <2>2, <3>2, <4>2, <4>3 DEF Right
    <3>3. QED
      BY <3>1, <3>2
  <2>3. QED
    BY <1>7, <2>2, BehindTouched DEF InjectCA
<1>8. ASSUME NEW n \in Names, NEW d, Touch(n, d), edited' = edited \cup {n},
             UNCHANGED <<pc, file>>
      PROVE  Behind'
  <2>1. \A m \in Names \ {n} : crd'[m] = crd[m]
    BY <1>8, <1>a DEF Touch
  <2>2. QED
    BY <1>8, <2>1, BehindTouched DEF Right
<1>9. CASE EditCrd
  BY <1>8, <1>9 DEF EditCrd
<1>10. CASE DeleteCrd
  BY <1>8, <1>10 DEF DeleteCrd
<1>11. CASE RotateCA \/ UNCHANGED vars
  BY <1>11, BehindTouched DEF RotateCA, vars, Right
<1>12. CASE Crash
  BY <1>12, BehindNothing DEF Crash
<1>13. QED
  BY <1>1, <1>2, <1>3, <1>4, <1>6, <1>7, <1>9, <1>10, <1>11, <1>12 DEF Next, Operator

\* A call of manageCustomResourceDefinition that returned without an error has left every
\* CRD as its manifest says, whichever of them was created, updated, found right, injected
\* by cert-manager or written by a process that died half-way.
THEOREM SuccessMeansEveryFile == Spec => []AppliedAsRequired
<1>1. Init => Behind
  BY DEF Init, Behind, Applying
<1>2. Inv /\ Behind /\ [Next]_vars => Behind'
  BY BehindStep
<1>3. Behind => AppliedAsRequired
  BY DEF Behind, AppliedAsRequired, Right
<1>4. QED
  BY <1>1, <1>2, <1>3, InvAlways, PTL DEF Spec

=============================================================================
