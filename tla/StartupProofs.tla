---------------------------- MODULE StartupProofs ----------------------------
(* Proofs about what starts a release and keeps it running: key rotation, the *)
(* boot and its audit, the exported contracts, the plugins' tables, the syncs *)
(* of the schedules, the settings that requests work with, and the monitor of *)
(* the jobs.                                                                  *)
EXTENDS MCStartup, FiniteSetTheorems, TLAPS

-----------------------------------------------------------------------------
(* Key rotation (Encryption)                                                  *)

KeyTypes ==
  /\ keys \in Nat \ {0}
  /\ ring \in Seq(1..keys) /\ ring # <<>> /\ Head(ring) = keys
  /\ loaded \in [Webs -> Seq(Nat) \ {<<>>}]
  /\ DOMAIN rows = Ring!Pks
  /\ verified \in Seq(1..keys)

\* What any process encrypts with, the configured ring can decrypt.
WritersAreReadable == \A w \in Webs : Ring!Readable(Ring!Newest(loaded[w]), ring)

\* While --verify's answer stands, no row is under an older key and none can come to be.
VerifiedMeansClean ==
  verified = ring => Ring!Clean /\ \A w \in Webs : Ring!Newest(loaded[w]) = Ring!Newest(ring)

KeysInv == KeyTypes /\ WritersAreReadable /\ VerifiedMeansClean /\ Ring!SecretsStayReadable

\* Head and ToSet of a ring.
LEMMA RingParts ==
  ASSUME NEW r \in Seq(Nat), r # <<>>
  PROVE  Ring!Newest(r) = r[1] /\ Head(r) = r[1] /\ Ring!Readable(r[1], r)
         /\ \A t : Ring!Readable(t, r) <=> \E i \in DOMAIN r : t = r[i]
BY DEF Ring!Newest, Ring!Readable, Ring!ToSet

LEMMA KeysStart == Ring!Init => KeysInv
<1> SUFFICES ASSUME Ring!Init PROVE KeysInv
  OBVIOUS
<1> USE DEF Ring!Init
<1>1. KeyTypes
  BY DEF KeyTypes
<1>5. ring \in Seq(Nat) /\ ring # <<>> /\ ring[1] = 1 /\ DOMAIN ring = {1}
  OBVIOUS
<1>6. Ring!Readable(1, ring) /\ Ring!Newest(ring) = 1
  BY <1>5, RingParts
<1>2. WritersAreReadable
  BY <1>6 DEF WritersAreReadable
<1>3. VerifiedMeansClean
  BY DEF VerifiedMeansClean
<1>4. Ring!SecretsStayReadable
  BY <1>6 DEF Ring!SecretsStayReadable, Ring!AllRows, Ring!Pks
<1> QED BY <1>1, <1>2, <1>3, <1>4 DEF KeysInv

\* Enrolments write under a key of the ring, rotations and deployments under the newest;
\* only a prepended key changes the ring while some row or process is not at its head.
LEMMA KeysSteps == KeysInv /\ [Ring!Next]_(Ring!vars) => KeysInv'
<1> SUFFICES ASSUME KeysInv, [Ring!Next]_(Ring!vars) PROVE KeysInv'
  OBVIOUS
<1> USE DEF KeysInv
<1>0. /\ KeyTypes /\ WritersAreReadable /\ VerifiedMeansClean /\ Ring!SecretsStayReadable
      /\ keys \in Nat \ {0} /\ ring \in Seq(Nat) /\ ring # <<>> /\ Head(ring) = keys
      /\ loaded \in [Webs -> Seq(Nat) \ {<<>>}] /\ DOMAIN rows = Ring!Pks /\ verified \in Seq(1..keys)
  BY DEF KeyTypes
<1>1. ASSUME NEW w \in Webs, Ring!Enrol(w) PROVE KeysInv'
  <2>1. /\ secrets' = secrets + 1 /\ owned' = owned \cup {secrets'}
        /\ rows' = [rows EXCEPT ![secrets'] = Ring!Newest(loaded[w])]
        /\ UNCHANGED <<ring, loaded, keys, verified>>
    BY <1>1 DEF Ring!Enrol
  <2>2. KeyTypes' /\ WritersAreReadable'
    BY <1>0, <2>1 DEF KeyTypes, WritersAreReadable
  <2>3. \A pk \in Ring!Pks : rows'[pk] = rows[pk] \/ (pk = secrets' /\ rows'[pk] = Ring!Newest(loaded[w]))
    BY <1>0, <2>1
  <2>4. VerifiedMeansClean'
    BY <1>0, <2>1, <2>3 DEF VerifiedMeansClean, Ring!Clean, Ring!AllRows
  <2>5. Ring!SecretsStayReadable'
    BY <1>0, <2>1, <2>3 DEF Ring!SecretsStayReadable, Ring!AllRows, WritersAreReadable
  <2> QED BY <2>2, <2>4, <2>5
<1>2. ASSUME NEW pk \in Ring!Pks, Ring!Delete(pk) PROVE KeysInv'
  <2>1. /\ owned' = owned \ {pk} /\ rows' = [rows EXCEPT ![pk] = NoRow]
        /\ UNCHANGED <<ring, loaded, keys, verified>>
    BY <1>2 DEF Ring!Delete
  <2>2. KeyTypes' /\ WritersAreReadable'
    BY <1>0, <2>1 DEF KeyTypes, WritersAreReadable
  <2>3. rows'[pk] = NoRow /\ \A x \in Ring!Pks \ {pk} : rows'[x] = rows[x]
    BY <1>0, <2>1
  <2>4. VerifiedMeansClean'
    BY <1>0, <2>1, <2>3 DEF VerifiedMeansClean, Ring!Clean, Ring!AllRows
  <2>5. Ring!SecretsStayReadable'
    BY <1>0, <2>1, <2>3 DEF Ring!SecretsStayReadable, Ring!AllRows
  <2> QED BY <2>2, <2>4, <2>5
<1>3. CASE Ring!Flush
  <2>1. /\ rows' = [pk \in Ring!Pks |-> IF pk \in Ring!Written THEN Ring!Newest(ring) ELSE rows[pk]]
        /\ UNCHANGED <<ring, loaded, keys, owned, verified>>
    BY <1>3 DEF Ring!Flush
  <2>2. KeyTypes' /\ WritersAreReadable'
    BY <1>0, <2>1 DEF KeyTypes, WritersAreReadable
  <2>3. ASSUME NEW pk \in Ring!Pks
        PROVE  rows'[pk] = rows[pk] \/ (pk \in Ring!AllRows /\ rows'[pk] = Ring!Newest(ring))
    <3>1. rows'[pk] = IF pk \in Ring!Written THEN Ring!Newest(ring) ELSE rows[pk]
      BY <2>1, Zenon
    <3>2. pk \in Ring!Written => pk \in Ring!AllRows
      BY Zenon DEF Ring!Written
    <3> QED BY <3>1, <3>2, Zenon
  <2>4. VerifiedMeansClean'
    BY <1>0, <2>1, <2>3 DEF VerifiedMeansClean, Ring!Clean, Ring!AllRows
  <2>5. Ring!Readable(Ring!Newest(ring), ring)
    BY <1>0, RingParts
  <2>6. Ring!SecretsStayReadable'
    BY <1>0, <2>1, <2>3, <2>5 DEF Ring!SecretsStayReadable, Ring!AllRows
  <2> QED BY <2>2, <2>4, <2>6
<1>4. CASE Ring!Verify
  <2>1. /\ verified' = IF Ring!Clean THEN ring ELSE <<>>
        /\ Ring!Deployed /\ UNCHANGED <<ring, loaded, keys, rows, owned>>
    BY <1>4 DEF Ring!Verify
  <2>5. ring \in Seq(1..keys) /\ <<>> \in Seq(1..keys)
    BY DEF KeyTypes
  <2>6. verified' \in Seq(1..keys)
    BY <2>1, <2>5, Zenon
  <2>2. KeyTypes' /\ WritersAreReadable'
    BY <1>0, <2>1, <2>5, <2>6 DEF KeyTypes, WritersAreReadable
  <2>7. verified' = ring => Ring!Clean
    BY <1>0, <2>1, Zenon
  <2>3. VerifiedMeansClean'
    BY <1>0, <2>1, <2>7 DEF VerifiedMeansClean, Ring!Clean, Ring!AllRows, Ring!Deployed
  <2>4. Ring!SecretsStayReadable'
    BY <1>0, <2>1 DEF Ring!SecretsStayReadable, Ring!AllRows
  <2> QED BY <2>2, <2>3, <2>4
<1>5. CASE Ring!Prepend
  <2>1. /\ keys' = keys + 1 /\ ring' = <<keys'>> \o ring
        /\ UNCHANGED <<loaded, rows, owned, verified>>
    BY <1>5 DEF Ring!Prepend
  <2>2. /\ ring' \in Seq(Nat) /\ ring' \in Seq(1..keys') /\ ring' # <<>>
        /\ ring'[1] = keys' /\ Head(ring') = keys'
        /\ \A i \in DOMAIN ring : i + 1 \in DOMAIN ring' /\ ring'[i + 1] = ring[i]
    BY <1>0, <2>1 DEF KeyTypes
  <2>3. KeyTypes'
    BY <1>0, <2>1, <2>2 DEF KeyTypes
  <2>4. \A t : Ring!Readable(t, ring) => Ring!Readable(t, ring')
    BY <1>0, <2>2, RingParts
  <2>5. WritersAreReadable'
    BY <1>0, <2>1, <2>4 DEF WritersAreReadable
  <2>6. verified' # ring'
    BY <1>0, <2>1, <2>2
  <2>7. Ring!SecretsStayReadable'
    BY <1>0, <2>1, <2>4 DEF Ring!SecretsStayReadable, Ring!AllRows
  <2> QED BY <2>3, <2>5, <2>6, <2>7 DEF VerifiedMeansClean
<1>6. CASE Ring!RemoveOldKeys
  <2>1. /\ Len(ring) > 1 /\ verified = ring /\ ring' = <<Ring!Newest(ring)>>
        /\ UNCHANGED <<loaded, keys, rows, owned, verified>>
    BY <1>6 DEF Ring!RemoveOldKeys
  <2>2. Ring!Newest(ring) = keys
    BY <1>0 DEF Ring!Newest
  <2>3. /\ ring' \in Seq(Nat) /\ ring' \in Seq(1..keys') /\ ring' # <<>> /\ Head(ring') = keys'
        /\ Len(ring') = 1 /\ ring'[1] = keys
    BY <1>0, <2>1, <2>2
  <2>4. Ring!Readable(keys, ring')
    BY <2>3, RingParts
  <2>5. KeyTypes'
    BY <1>0, <2>1, <2>3 DEF KeyTypes
  <2>6. WritersAreReadable'
    BY <1>0, <2>1, <2>2, <2>4 DEF WritersAreReadable, VerifiedMeansClean
  <2>7. verified' # ring'
    <3>1. Len(ring) > 1 /\ Len(ring') = 1 /\ verified' = ring
      BY <2>1, <2>3, Zenon
    <3>2. Len(ring) \in Nat
      BY <1>0
    <3>3. Len(ring) # Len(ring')
      BY <3>1, <3>2
    <3> QED BY <3>1, <3>3, Zenon
  <2>8. Ring!SecretsStayReadable'
    BY <1>0, <2>1, <2>2, <2>4 DEF Ring!SecretsStayReadable, Ring!AllRows, VerifiedMeansClean, Ring!Clean
  <2> QED BY <2>5, <2>6, <2>7, <2>8 DEF VerifiedMeansClean
<1>7. ASSUME NEW w \in Webs, Ring!Deploy(w) PROVE KeysInv'
  <2>1. loaded' = [loaded EXCEPT ![w] = ring] /\ UNCHANGED <<ring, keys, rows, owned, verified>>
    BY <1>7 DEF Ring!Deploy
  <2>2. KeyTypes'
    BY <1>0, <2>1 DEF KeyTypes
  <2>3. Ring!Readable(Ring!Newest(ring), ring)
    BY <1>0, RingParts
  <2>4. \A x \in Webs : loaded'[x] = loaded[x] \/ loaded'[x] = ring
    BY <1>0, <2>1
  <2>5. WritersAreReadable'
    BY <1>0, <2>1, <2>3, <2>4 DEF WritersAreReadable
  <2>6. VerifiedMeansClean'
    BY <1>0, <2>1, <2>4 DEF VerifiedMeansClean, Ring!Clean, Ring!AllRows
  <2>7. Ring!SecretsStayReadable'
    BY <1>0, <2>1 DEF Ring!SecretsStayReadable, Ring!AllRows
  <2> QED BY <2>2, <2>5, <2>6, <2>7
<1>8. CASE UNCHANGED <<ring, loaded, keys, rows, owned, verified>>
  BY <1>8 DEF KeyTypes, WritersAreReadable, VerifiedMeansClean, Ring!SecretsStayReadable,
              Ring!Clean, Ring!AllRows
<1>9. ASSUME NEW dry \in BOOLEAN, Ring!Rotate(dry) PROVE KeysInv'
  BY <1>8, <1>9 DEF Ring!Rotate
<1>10. CASE Ring!Scan \/ Ring!End \/ UNCHANGED Ring!vars
  BY <1>8, <1>10 DEF Ring!Scan, Ring!End, Ring!vars
<1> QED BY <1>1, <1>2, <1>3, <1>4, <1>5, <1>6, <1>7, <1>9, <1>10 DEF Ring!Next

\* The inductive invariant of the key ring, for any number of processes, keys and rows.
THEOREM KeysInductive == Ring!Spec => []KeysInv
BY KeysStart, KeysSteps, PTL DEF Ring!Spec

\* The procedure of rotate_encryption.py (prepend, deploy, rotate, verify, remove, deploy)
\* locks out no secret, whatever is enrolled or deleted meanwhile and wherever the command
\* dies, and brings no deleted secret back.
THEOREM NoSecretIsLockedOut == Ring!Spec => []SecretsStayReadable
<1>1. KeysInv => SecretsStayReadable
  BY DEF KeysInv, SecretsStayReadable
<1> QED BY <1>1, KeysInductive, PTL
-----------------------------------------------------------------------------
(* Boot (Registry, Configuration, Startup)                                    *)

\* A reconciler is being entered, or none is.
EnteringTyped ==
  \/ entering = Nobody
  \/ entering \in [spec : Declarations, step : {"job", "kind", "spec"}]
     /\ entering.spec.catalog = "reconcilers"

BootTypes ==
  /\ DOMAIN recorded = Catalogs
  /\ plan \in Seq(Declarations) /\ todo \in Seq(Declarations)
  /\ EnteringTyped

\* Where a declaration of the plan is once its turn has come.
Entered(d) == d \in recorded[d.catalog] \/ (entering # Nobody /\ entering.spec = d)
Position == Len(plan) - Len(todo)

\* todo is what is left of the plan, and what is before it has been entered.
PlanFollowed ==
  /\ boot = "settings" => todo = plan
  /\ boot \in {"settings", "ready"} =>
       /\ Len(todo) <= Len(plan)
       /\ \A j \in 1..Len(todo) : todo[j] = plan[Position + j]
       /\ \A i \in 1..Position : Entered(plan[i])
  /\ boot \in {"checks", "serving"} => \A i \in DOMAIN plan : plan[i] \in recorded[plan[i].catalog]

\* The job, the kind and the spec are entered in that order.
ReconcilersWhole ==
  /\ \A r \in recorded["reconcilers"] :
        JobOf(r) \in recorded["jobs"] /\ KindOf(r) \in recorded["finding_kinds"]
  /\ entering.step \in {"kind", "spec"} => JobOf(entering.spec) \in recorded["jobs"]
  /\ entering.step = "spec" => KindOf(entering.spec) \in recorded["finding_kinds"]

MenuKnown == "navigation" \in sealed => Undeclared = {}

Audited == boot \notin {"settings", "failed"} => ~Refused(Settings(env))

BootInv == BootTypes /\ PlanFollowed /\ ReconcilersWhole /\ MenuKnown /\ Audited

LEMMA DeclaredLate == \A d \in Late : d \in Declarations
BY DEF Declarations

LEMMA CatalogNames ==
  /\ {"jobs", "finding_kinds", "reconcilers", "permissions", "navigation"} \subseteq Catalogs
  /\ \A d : JobOf(d).catalog = "jobs" /\ KindOf(d).catalog = "finding_kinds"
BY DEF Catalogs, Keyed, JobOf, KindOf

\* A declaration recorded is in its catalog, and everything recorded stays.
LEMMA RecordAdds ==
  ASSUME DOMAIN recorded = Catalogs, NEW d, d.catalog \in Catalogs, Record(d)
  PROVE  /\ DOMAIN recorded' = Catalogs
         /\ recorded'[d.catalog] = recorded[d.catalog] \cup {d}
         /\ \A c \in Catalogs \ {d.catalog} : recorded'[c] = recorded[c]
         /\ \A c \in Catalogs : recorded[c] \subseteq recorded'[c]
<1>1. recorded' = [c \in Catalogs |-> IF c = d.catalog THEN recorded[c] \cup {d} ELSE recorded[c]]
  BY DEF Record
<1> QED BY <1>1

\* Registering into another catalog than navigation, or while navigation is open.
LEMMA MenuStays ==
  ASSUME DOMAIN recorded = Catalogs, MenuKnown, NEW d, d.catalog \in Catalogs, Record(d),
         d.catalog = "navigation" => "navigation" \notin sealed, sealed' = sealed
  PROVE  MenuKnown'
<1> SUFFICES ASSUME "navigation" \in sealed PROVE Undeclared' = {}
  BY DEF MenuKnown
<1>1. recorded'["navigation"] = recorded["navigation"]
      /\ recorded["permissions"] \subseteq recorded'["permissions"]
  BY RecordAdds, CatalogNames
<1>2. Codes \subseteq Codes'
  BY <1>1 DEF Codes
<1>3. Undeclared' \subseteq Undeclared
  BY <1>1, <1>2 DEF Undeclared
<1> QED BY <1>3 DEF MenuKnown

LEMMA BootStart == BootInit => BootInv
<1> SUFFICES ASSUME BootInit PROVE BootInv
  OBVIOUS
<1> USE DEF BootInit, Init
<1>1. plan \in Seq(Declarations)
  <2>1. Plans \subseteq Seq(Declarations) /\ <<>> \in Seq(Declarations)
    BY StartupAssumption
  <2> QED BY <2>1, Zenon
<1>2. recorded["reconcilers"] = {} /\ DOMAIN recorded = Catalogs
  BY CatalogNames
<1>3. BootTypes
  BY <1>1, <1>2 DEF BootTypes, EnteringTyped
<1>4. PlanFollowed
  BY <1>1 DEF PlanFollowed, Position
<1>5. ReconcilersWhole
  BY <1>2 DEF ReconcilersWhole, Nobody
<1>6. MenuKnown /\ Audited
  BY DEF MenuKnown, Audited
<1> QED BY <1>3, <1>4, <1>5, <1>6 DEF BootInv

\* What is recorded stays, and what was being entered is entered or still is.
EntersOn ==
  /\ \A c \in Catalogs : recorded[c] \subseteq recorded'[c]
  /\ entering # Nobody => \/ entering' # Nobody /\ entering'.spec = entering.spec
                          \/ entering.spec \in recorded'["reconcilers"]

LEMMA PlanStays ==
  ASSUME BootTypes, PlanFollowed, EntersOn, UNCHANGED <<plan, todo, boot>>
  PROVE  PlanFollowed'
<1>1. \A d \in Declarations : d \in recorded[d.catalog] => d \in recorded'[d.catalog]
  BY StartupAssumption DEF EntersOn
<1>2. \A d \in Declarations : Entered(d) => Entered(d)'
  BY <1>1 DEF EntersOn, Entered, BootTypes, EnteringTyped
<1>3. \A i \in DOMAIN plan : plan[i] \in Declarations
  BY DEF BootTypes
<1>4. Position' = Position /\ (Position \in Int) /\ Position <= Len(plan)
      /\ \A i \in 1..Position : i \in DOMAIN plan
  BY DEF Position, BootTypes
<1>5. boot' \in {"checks", "serving"} =>
        \A i \in DOMAIN plan' : plan'[i] \in recorded'[plan'[i].catalog]
  BY <1>1, <1>3 DEF PlanFollowed
<1>6. boot' \in {"settings", "ready"} => \A i \in 1..Position : Entered(plan[i])'
  BY <1>2, <1>3, <1>4 DEF PlanFollowed
<1>7. boot' \in {"settings", "ready"} =>
        Len(todo') <= Len(plan') /\ \A j \in 1..Len(todo') : todo'[j] = plan'[Position' + j]
  BY <1>4 DEF PlanFollowed
<1> QED BY <1>4, <1>5, <1>6, <1>7 DEF PlanFollowed

\* The next declaration has been entered.
LEMMA PlanAdvances ==
  ASSUME BootTypes, PlanFollowed, boot = "ready", boot' = "ready", todo # <<>>, entering = Nobody,
         plan' = plan, todo' = Tail(todo), EntersOn, NEW d, d = Head(todo), Entered(d)'
  PROVE  PlanFollowed'
<1>1. \A x \in Declarations : Entered(x) => Entered(x)'
  BY StartupAssumption DEF EntersOn, Entered, BootTypes, EnteringTyped
<1>2. /\ Len(todo') = Len(todo) - 1 /\ Len(todo) > 0 /\ Head(todo) = todo[1]
      /\ \A j \in 1..Len(todo') : todo'[j] = todo[j + 1]
  BY DEF BootTypes
<1>3. /\ Len(plan) \in Nat /\ Len(todo) \in Nat /\ DOMAIN plan = 1..Len(plan)
      /\ \A i \in DOMAIN plan : plan[i] \in Declarations
  BY DEF BootTypes
<1>4. /\ Len(todo) <= Len(plan) /\ \A j \in 1..Len(todo) : todo[j] = plan[Position + j]
      /\ \A i \in 1..Position : Entered(plan[i])
  BY DEF PlanFollowed
<1>5. Position' = Position + 1 /\ Position \in Nat /\ Position + 1 <= Len(plan)
  BY <1>2, <1>3, <1>4 DEF Position
<1>6. \A j \in 1..Len(todo') : todo'[j] = plan[Position' + j]
  BY <1>2, <1>3, <1>4, <1>5
<1>7. plan[Position + 1] = Head(todo)
  BY <1>2, <1>3, <1>4
<1>8. \A i \in 1..Position' : Entered(plan[i])'
  <2>1. ASSUME NEW i \in 1..Position' PROVE Entered(plan[i])'
    <3>1. i \in DOMAIN plan /\ plan[i] \in Declarations
      BY <1>3, <1>5
    <3>2. CASE i = Position + 1
      BY <1>7, <3>2
    <3>3. CASE i \in 1..Position
      BY <1>1, <1>4, <3>1, <3>3
    <3> QED BY <1>5, <3>2, <3>3
  <2> QED BY <2>1
<1>9. Len(todo') <= Len(plan')
  BY <1>2, <1>3, <1>4
<1> QED BY <1>6, <1>8, <1>9 DEF PlanFollowed

\* Registering a declaration, at boot or later.
LEMMA Registers ==
  ASSUME BootInv, NEW d \in Declarations, Register(d)
  PROVE  /\ DOMAIN recorded' = Catalogs /\ EnteringTyped' /\ EntersOn /\ ReconcilersWhole' /\ MenuKnown'
         /\ d \in recorded'[d.catalog]
<1>1. /\ d.catalog \in Catalogs /\ d.catalog # "reconcilers" /\ d.catalog \notin sealed
      /\ Record(d) /\ UNCHANGED <<sealed, entering>>
  BY StartupAssumption DEF Register, Accepted
<1>2. DOMAIN recorded = Catalogs /\ EnteringTyped /\ ReconcilersWhole /\ MenuKnown
  BY DEF BootInv, BootTypes
<1>3. /\ DOMAIN recorded' = Catalogs
      /\ recorded'[d.catalog] = recorded[d.catalog] \cup {d}
      /\ \A c \in Catalogs \ {d.catalog} : recorded'[c] = recorded[c]
      /\ \A c \in Catalogs : recorded[c] \subseteq recorded'[c]
  BY <1>1, <1>2, RecordAdds
<1>4. EnteringTyped' /\ EntersOn
  BY <1>1, <1>2, <1>3 DEF EnteringTyped, EntersOn
<1>5. ReconcilersWhole'
  BY <1>1, <1>2, <1>3, CatalogNames DEF ReconcilersWhole
<1>6. MenuKnown'
  BY <1>1, <1>2, MenuStays
<1> QED BY <1>3, <1>4, <1>5, <1>6

LEMMA StartsReconciler ==
  ASSUME BootInv, entering = Nobody, NEW d \in Declarations, StartReconciler(d)
  PROVE  /\ DOMAIN recorded' = Catalogs /\ EnteringTyped' /\ EntersOn /\ ReconcilersWhole' /\ MenuKnown'
         /\ entering' # Nobody /\ entering'.spec = d
<1>1. /\ d.catalog = "reconcilers" /\ entering' = [spec |-> d, step |-> "job"]
      /\ UNCHANGED <<recorded, sealed>>
  BY DEF StartReconciler
<1>2. entering' # Nobody
  BY <1>1 DEF Nobody
<1>3. EnteringTyped' /\ EntersOn
  BY <1>1 DEF EnteringTyped, EntersOn
<1>4. ReconcilersWhole'
  BY <1>1 DEF BootInv, ReconcilersWhole
<1>5. MenuKnown'
  BY <1>1 DEF BootInv, MenuKnown, Undeclared, Codes
<1> QED BY <1>1, <1>2, <1>3, <1>4, <1>5 DEF BootInv, BootTypes

\* Reading a catalog seals it; a menu is sealed only when it can be.
LEMMA ReadsSeal ==
  ASSUME MenuKnown, NEW c, Read(c)
  PROVE  MenuKnown' /\ UNCHANGED <<recorded, entering>>
<1>1. UNCHANGED <<recorded, entering>>
  BY DEF Read
<1>2. Undeclared' = Undeclared
  BY <1>1 DEF Undeclared, Codes
<1>3. CASE c = "navigation" /\ c \notin sealed
  BY <1>1, <1>2, <1>3 DEF Read, SealNavigation, MenuKnown
<1>4. CASE ~(c = "navigation" /\ c \notin sealed)
  BY <1>1, <1>2, <1>4 DEF Read, MenuKnown
<1> QED BY <1>1, <1>3, <1>4

\* What the steps of entering a reconciler do.
LEMMA Enters ==
  ASSUME BootInv, EnterJob \/ EnterKind \/ EnterSpec
  PROVE  DOMAIN recorded' = Catalogs /\ EnteringTyped' /\ EntersOn /\ ReconcilersWhole' /\ MenuKnown'
<1>1. DOMAIN recorded = Catalogs /\ EnteringTyped /\ ReconcilersWhole /\ MenuKnown
  BY DEF BootInv, BootTypes
<1>2. /\ entering \in [spec : Declarations, step : {"job", "kind", "spec"}]
      /\ entering.spec.catalog = "reconcilers" /\ entering # Nobody
  BY <1>1 DEF EnteringTyped, EnterJob, EnterKind, EnterSpec, Nobody
<1>3. PICK e : e = entering.spec
  OBVIOUS
<1>4. CASE EnterJob
  <2>1. /\ entering.step = "job" /\ Record(JobOf(e)) /\ sealed' = sealed
        /\ entering' = [entering EXCEPT !.step = "kind"]
    BY <1>3, <1>4 DEF EnterJob
  <2>2. /\ DOMAIN recorded' = Catalogs
        /\ recorded'["jobs"] = recorded["jobs"] \cup {JobOf(e)}
        /\ \A c \in Catalogs \ {"jobs"} : recorded'[c] = recorded[c]
        /\ \A c \in Catalogs : recorded[c] \subseteq recorded'[c]
    BY <1>1, <2>1, CatalogNames, RecordAdds
  <2>3. entering'.spec = e /\ entering'.step = "kind"
        /\ entering' \in [spec : Declarations, step : {"job", "kind", "spec"}] /\ entering' # Nobody
    BY <1>2, <1>3, <2>1 DEF Nobody
  <2>4. EnteringTyped' /\ EntersOn
    BY <1>2, <1>3, <2>2, <2>3 DEF EnteringTyped, EntersOn
  <2>5. ReconcilersWhole'
    BY <1>1, <2>2, <2>3, CatalogNames DEF ReconcilersWhole
  <2>6. MenuKnown'
    BY <1>1, <2>1, CatalogNames, MenuStays
  <2> QED BY <2>2, <2>4, <2>5, <2>6
<1>5. CASE EnterKind
  <2>1. /\ entering.step = "kind" /\ Record(KindOf(e)) /\ sealed' = sealed
        /\ entering' = [entering EXCEPT !.step = "spec"]
    BY <1>3, <1>5 DEF EnterKind
  <2>2. /\ DOMAIN recorded' = Catalogs
        /\ recorded'["finding_kinds"] = recorded["finding_kinds"] \cup {KindOf(e)}
        /\ \A c \in Catalogs \ {"finding_kinds"} : recorded'[c] = recorded[c]
        /\ \A c \in Catalogs : recorded[c] \subseteq recorded'[c]
    BY <1>1, <2>1, CatalogNames, RecordAdds
  <2>3. entering'.spec = e /\ entering'.step = "spec"
        /\ entering' \in [spec : Declarations, step : {"job", "kind", "spec"}] /\ entering' # Nobody
    BY <1>2, <1>3, <2>1 DEF Nobody
  <2>4. EnteringTyped' /\ EntersOn
    BY <1>2, <1>3, <2>2, <2>3 DEF EnteringTyped, EntersOn
  <2>5. ReconcilersWhole'
    BY <1>1, <1>3, <2>1, <2>2, <2>3, CatalogNames DEF ReconcilersWhole
  <2>6. MenuKnown'
    BY <1>1, <2>1, CatalogNames, MenuStays
  <2> QED BY <2>2, <2>4, <2>5, <2>6
<1>6. CASE EnterSpec
  <2>1. entering.step = "spec" /\ Record(e) /\ sealed' = sealed /\ entering' = Nobody
    BY <1>3, <1>6 DEF EnterSpec
  <2>2. /\ DOMAIN recorded' = Catalogs
        /\ recorded'["reconcilers"] = recorded["reconcilers"] \cup {e}
        /\ \A c \in Catalogs \ {"reconcilers"} : recorded'[c] = recorded[c]
        /\ \A c \in Catalogs : recorded[c] \subseteq recorded'[c]
    BY <1>1, <1>2, <1>3, <2>1, CatalogNames, RecordAdds
  <2>3. EnteringTyped' /\ EntersOn
    BY <1>3, <2>1, <2>2 DEF EnteringTyped, EntersOn
  <2>4. JobOf(e) \in recorded["jobs"] /\ KindOf(e) \in recorded["finding_kinds"]
    BY <1>1, <1>3, <2>1 DEF ReconcilersWhole
  <2>5. ReconcilersWhole'
    BY <1>1, <2>1, <2>2, <2>4, CatalogNames DEF ReconcilersWhole, Nobody
  <2>6. MenuKnown'
    BY <1>1, <1>2, <1>3, <2>1, CatalogNames, MenuStays
  <2> QED BY <2>2, <2>3, <2>5, <2>6
<1> QED BY <1>4, <1>5, <1>6

LEMMA BootSteps == BootInv /\ [MCBoot /\ UNCHANGED plan]_bootvars => BootInv'
<1> SUFFICES ASSUME BootInv, [MCBoot /\ UNCHANGED plan]_bootvars PROVE BootInv'
  OBVIOUS
<1>0. BootTypes /\ PlanFollowed /\ ReconcilersWhole /\ MenuKnown /\ Audited
  BY DEF BootInv
<1>p. plan' = plan
  BY DEF bootvars
<1>f. ASSUME boot' = "failed", todo' = todo, EnteringTyped', DOMAIN recorded' = Catalogs,
             ReconcilersWhole', MenuKnown'
      PROVE  BootInv'
  BY <1>0, <1>p, <1>f DEF BootInv, BootTypes, PlanFollowed, Audited
\* A step of the catalogs that leaves the process where it is.
<1>s. ASSUME UNCHANGED <<boot, todo, env>>, EnteringTyped', DOMAIN recorded' = Catalogs, EntersOn,
             ReconcilersWhole', MenuKnown'
      PROVE  BootInv'
  <2>1. PlanFollowed'
    BY <1>0, <1>p, <1>s, PlanStays
  <2> QED BY <1>0, <1>p, <1>s, <2>1 DEF BootInv, BootTypes, Audited
<1>c. ASSUME UNCHANGED catalogs
      PROVE  EnteringTyped' /\ DOMAIN recorded' = Catalogs /\ EntersOn /\ ReconcilersWhole' /\ MenuKnown'
  BY <1>0, <1>c DEF catalogs, BootTypes, EnteringTyped, EntersOn, ReconcilersWhole, MenuKnown,
                    Undeclared, Codes
<1>1. CASE ImportSettings
  <2>1. CASE Fail
    BY <1>1, <1>f, <1>c, <2>1 DEF ImportSettings, Fail
  <2>2. CASE ~Refused(Settings(env)) /\ Step("ready", todo)
    <3>1. boot = "settings" /\ boot' = "ready" /\ todo' = todo /\ env' = env /\ UNCHANGED catalogs
      BY <1>1, <2>2 DEF ImportSettings, Step
    <3>2. PlanFollowed'
      BY <1>0, <1>p, <3>1 DEF PlanFollowed, Position, Entered, catalogs
    <3> QED BY <1>0, <1>c, <1>p, <2>2, <3>1, <3>2 DEF BootInv, BootTypes, Audited
  <2> QED BY <1>1, <2>1, <2>2 DEF ImportSettings
<1>2. CASE Ready
  <2>1. boot = "ready" /\ entering = Nobody /\ todo # <<>> /\ todo \in Seq(Declarations)
    BY <1>0, <1>2 DEF Ready, BootTypes
  <2>2. PICK d : d = Head(todo)
    OBVIOUS
  <2>3. d \in Declarations
    BY <2>1, <2>2
  <2>4. CASE Refuse(d) /\ Fail
    BY <1>f, <1>c, <2>4 DEF Refuse, Fail
  <2>5. CASE (Register(d) \/ StartReconciler(d)) /\ Step("ready", Tail(todo))
    <3>1. /\ DOMAIN recorded' = Catalogs /\ EnteringTyped' /\ EntersOn /\ ReconcilersWhole' /\ MenuKnown'
          /\ Entered(d)'
      BY <2>1, <2>3, <2>5, Registers, StartsReconciler DEF Entered
    <3>2. boot' = "ready" /\ todo' = Tail(todo) /\ env' = env
      BY <2>5 DEF Step
    <3>3. PlanFollowed'
      BY <1>0, <1>p, <2>1, <2>2, <3>1, <3>2, PlanAdvances
    <3>4. todo' \in Seq(Declarations)
      BY <2>1, <3>2
    <3> QED BY <1>0, <1>p, <2>1, <3>1, <3>2, <3>3, <3>4 DEF BootInv, BootTypes, Audited
  <2> QED BY <1>2, <2>2, <2>4, <2>5 DEF Ready
<1>3. CASE Entering
  BY <1>3, <1>s, Enters DEF Entering, process
<1>4. CASE EnteringFails
  <2>1. entering # Nobody /\ entering' = Nobody /\ UNCHANGED <<recorded, sealed>>
    BY <1>4 DEF EnteringFails, EnteringRefused, Nobody
  <2>2. EnteringTyped' /\ DOMAIN recorded' = Catalogs /\ ReconcilersWhole' /\ MenuKnown'
    BY <1>0, <2>1 DEF BootTypes, EnteringTyped, ReconcilersWhole, MenuKnown, Undeclared, Codes, Nobody
  <2>3. CASE Fail
    BY <1>f, <2>2, <2>3 DEF Fail
  <2>4. CASE boot # "ready" /\ UNCHANGED process
    <3>1. UNCHANGED <<boot, todo, env>>
      BY <2>4 DEF process
    <3>2. PlanFollowed'
      <4>1. boot' = "settings" => todo' = plan' /\ Position' = 0 /\ Len(todo') \in Nat
        BY <1>0, <1>p, <3>1 DEF PlanFollowed, Position, BootTypes
      <4> QED BY <1>0, <1>p, <2>1, <2>4, <3>1, <4>1 DEF PlanFollowed
    <3> QED BY <1>0, <1>p, <2>2, <3>1, <3>2 DEF BootInv, BootTypes, Audited
  <2> QED BY <1>4, <2>3, <2>4 DEF EnteringFails
<1>5. CASE IsReady
  <2>1. /\ boot = "ready" /\ entering = Nobody /\ todo = <<>> /\ UNCHANGED catalogs
        /\ boot' \in {"checks", "serving"} /\ todo' = <<>> /\ env' = env
    BY <1>5 DEF IsReady, Step
  <2>2. Position = Len(plan) /\ DOMAIN plan = 1..Len(plan)
    BY <1>0, <2>1 DEF Position, BootTypes
  <2>3. \A i \in DOMAIN plan : plan[i] \in recorded[plan[i].catalog]
    BY <1>0, <2>1, <2>2 DEF PlanFollowed, Entered
  <2>4. PlanFollowed'
    BY <1>p, <2>1, <2>3 DEF PlanFollowed, catalogs
  <2> QED BY <1>0, <1>c, <1>p, <2>1, <2>4 DEF BootInv, BootTypes, Audited
<1>6. CASE RunChecks
  <2>1. /\ boot = "checks" /\ UNCHANGED <<recorded, entering, env>>
        /\ sealed' = IF Undeclared = {} THEN Catalogs ELSE Catalogs \ {"navigation"}
        /\ todo' \in {todo, <<>>} /\ boot' \in {"failed", "serving"}
    BY <1>6 DEF RunChecks, Fail, Step
  <2>2. MenuKnown'
    <3>1. Undeclared' = Undeclared
      BY <2>1 DEF Undeclared, Codes
    <3> QED BY <2>1, <3>1 DEF MenuKnown
  <2>3. EnteringTyped' /\ DOMAIN recorded' = Catalogs /\ ReconcilersWhole'
    BY <1>0, <2>1 DEF BootTypes, EnteringTyped, ReconcilersWhole
  <2>5. PlanFollowed'
    <3>1. \A i \in DOMAIN plan : plan[i] \in recorded[plan[i].catalog]
      BY <1>0, <2>1 DEF PlanFollowed
    <3> QED BY <1>p, <2>1, <3>1 DEF PlanFollowed
  <2>4. todo' \in Seq(Declarations)
    <3>1. todo \in Seq(Declarations) /\ <<>> \in Seq(Declarations)
      BY <1>0 DEF BootTypes
    <3> QED BY <2>1, <3>1, Zenon
  <2> QED BY <1>0, <1>p, <2>1, <2>2, <2>3, <2>4, <2>5 DEF BootInv, BootTypes, Audited
<1>7. ASSUME NEW c, ReadEarly(c) PROVE BootInv'
  <2>1. MenuKnown' /\ UNCHANGED <<recorded, entering>> /\ UNCHANGED <<boot, todo, env>>
    BY <1>0, <1>7, ReadsSeal DEF ReadEarly, process
  <2>2. EnteringTyped' /\ DOMAIN recorded' = Catalogs /\ EntersOn /\ ReconcilersWhole'
    BY <1>0, <2>1 DEF BootTypes, EnteringTyped, EntersOn, ReconcilersWhole
  <2> QED BY <1>s, <2>1, <2>2
<1>8. ASSUME NEW d \in Late, RegisterLate(d) PROVE BootInv'
  <2>1. d \in Declarations
    BY DeclaredLate
  <2>2. boot = "serving" /\ UNCHANGED <<boot, todo, env>>
    BY <1>8 DEF RegisterLate, process
  <2>3. CASE Register(d)
    BY <1>s, <2>1, <2>2, <2>3, Registers
  <2>4. CASE StartReconciler(d)
    <3>1. entering = Nobody
      BY <2>4 DEF StartReconciler, Free
    <3> QED BY <1>s, <2>1, <2>2, <2>4, <3>1, StartsReconciler
  <2>5. CASE Refuse(d)
    BY <1>c, <1>s, <2>2, <2>5 DEF Refuse
  <2> QED BY <1>8, <2>3, <2>4, <2>5 DEF RegisterLate
<1>9. CASE Export \/ UNCHANGED bootvars
  BY <1>9, <1>c, <1>s DEF Export, bootvars, startup, process, catalogs
<1> QED BY <1>1, <1>2, <1>3, <1>4, <1>5, <1>6, <1>7, <1>8, <1>9 DEF MCBoot

\* The inductive invariant of boot, for any declarations and any settings.
THEOREM BootInductive == BootSpec => []BootInv
BY BootStart, BootSteps, PTL DEF BootSpec

\* A process that serves has recorded everything its apps declare, its reconcilers with the
\* jobs and kinds they need, and its menu names only permissions that are declared, whatever
\* other threads read, and whatever is registered late.
THEOREM BootIsWhole == BootSpec => []BootServesWhole
<1>1. BootInv => BootServesWhole
  BY DEF BootInv, PlanFollowed, ReconcilersWhole, MenuKnown, BootServesWhole, ServesWhole
<1> QED BY <1>1, BootInductive, PTL

\* What kind of environment it is, settings.py takes from the environment as it is.
LEMMA SameEnvironment == \A e : ProductionLike(Settings(e)) <=> ProductionLike(e)
<1> SUFFICES ASSUME NEW e PROVE Settings(e).appEnv = e.appEnv
  BY DEF ProductionLike
<1> DEFINE Others == {StoreSettings(e), CelerySettings(e), CorsSettings(e), DeploymentSettings(e),
                      TokenSettings(e), ApiSettings, LogSettings(e),
                      [backends |-> Backends, hsts |-> 0, proxyHeader |-> FALSE]}
           All == {IdentitySettings(e)} \cup Others
<1>1. "appEnv" \in DOMAIN IdentitySettings(e) /\ IdentitySettings(e)["appEnv"] = e.appEnv
  BY DEF IdentitySettings
<1>2. \A r \in Others : "appEnv" \notin DOMAIN r
  BY DEF StoreSettings, CelerySettings, CorsSettings, DeploymentSettings, TokenSettings,
         ApiSettings, LogSettings
<1>3. Settings(e) = Joined(All)
  <2>1. All = {IdentitySettings(e), StoreSettings(e), CelerySettings(e), CorsSettings(e),
               DeploymentSettings(e), TokenSettings(e), ApiSettings, LogSettings(e),
               [backends |-> Backends, hsts |-> 0, proxyHeader |-> FALSE]}
    BY Zenon
  <2> QED BY <2>1 DEF Settings
<1> HIDE DEF Others
<1>4. (CHOOSE r \in All : "appEnv" \in DOMAIN r) = IdentitySettings(e)
  BY <1>1, <1>2
<1>5. "appEnv" \in UNION {DOMAIN r : r \in All}
  BY <1>1
<1> HIDE DEF All
<1> QED BY <1>1, <1>3, <1>4, <1>5 DEF Joined

\* What the audit accepts, the twins accept.
LEMMA AuditCoversTwins ==
  \A c : ProductionLike(c) /\ ~Refused(c) => ~SharedCacheError(c) /\ ~KeysError(c, {})
BY DEF Refused, Problem, Cache, EncryptionKeys, SharedCacheError, KeysError

\* In a production-like environment, a process that the audit lets through has none of the
\* errors that the system checks would find in its cache and its keys, whatever its environment.
THEOREM AuditStandsIn == BootSpec => []TwinsAgree
<1>1. BootInv => TwinsAgree
  BY SameEnvironment, AuditCoversTwins DEF BootInv, Audited, TwinsAgree
<1> QED BY <1>1, BootInductive, PTL

-----------------------------------------------------------------------------
(* What is exported *)

\* Everything is in the catalog it is declared for; the codes of a group are in its module.
CatalogsKept ==
  /\ \A c \in Catalogs \ {"jobs", "finding_kinds"} :
        \A d \in recorded[c] : d \in Declarations /\ d.catalog = c
  /\ \A g \in recorded["permissions"] : \A code \in Range(g.codes) : code.module = g.module

\* A command that has checked its catalogs has sealed them, and writes from no others.
CheckedIsSealed ==
  manage => /\ boot = "checks" => entering = Nobody
            /\ boot = "serving" => Catalogs \subseteq sealed /\ entering = Nobody

ContractsInv ==
  /\ CatalogsKept
  /\ CheckedIsSealed
  /\ plugins \subseteq PluginLabels
  /\ committed # <<>> => manage /\ boot = "serving" /\ committed = Rendered(plugins)

LEMMA LanesAreOwn ==
  ASSUME CatalogsKept, plugins \subseteq PluginLabels
  PROVE  /\ \A c \in {"permissions", "statuses", "public_routes", "navigation"} :
               \A d \in recorded[c] : d.module \in plugins <=> d.owner \in plugins
         /\ \A d \in recorded["api_routes"] : d.key \in plugins <=> d.owner \in plugins
<1>1. {"permissions", "statuses", "public_routes", "navigation", "api_routes"}
        \subseteq Catalogs \ {"jobs", "finding_kinds"}
  BY DEF Catalogs, Keyed
<1>2. InTheirLanes(Declarations, PluginLabels)
  BY StartupAssumption
<1> QED BY <1>1, <1>2 DEF CatalogsKept, InTheirLanes, InLane

LEMMA SameCodes ==
  ASSUME CatalogsKept, plugins \subseteq PluginLabels
  PROVE  PermissionsFile(plugins) = Boilerplate!PermissionsFile({})
<1>1. Own["permissions"] = {d \in recorded["permissions"] : d.owner \notin plugins}
  BY DEF Own, Catalogs
<1>2. Codes = UNION {Range(g.codes) : g \in recorded["permissions"]}
  BY DEF Codes, Range
<1>3. Boilerplate!Codes = UNION {Range(g.codes) : g \in Own["permissions"]}
  BY DEF Boilerplate!Codes, Range, Boilerplate!Range
<1>4. \A g \in recorded["permissions"] : \A code \in Range(g.codes) :
        code.module \in plugins <=> g.owner \in plugins
  BY LanesAreOwn DEF CatalogsKept
<1> QED BY <1>1, <1>2, <1>3, <1>4 DEF PermissionsFile, Boilerplate!PermissionsFile

LEMMA SameTables ==
  ASSUME CatalogsKept, plugins \subseteq PluginLabels
  PROVE  /\ StatusesFile(plugins) = Boilerplate!StatusesFile({})
         /\ PublicFile(plugins) = Boilerplate!PublicFile({})
         /\ Manifest(plugins) = Boilerplate!Manifest({})
         /\ OrderingFile(plugins) = Boilerplate!OrderingFile({})
         /\ Mounted(plugins) = Own["api_routes"] /\ Boilerplate!Mounted({}) = Own["api_routes"]
<1>1. \A c \in {"statuses", "public_routes", "navigation"} :
         /\ Own[c] = {d \in recorded[c] : d.owner \notin plugins}
         /\ \A d \in recorded[c] : d.module \in plugins <=> d.owner \in plugins
  BY LanesAreOwn DEF Own, Catalogs, Keyed
<1>2. /\ Own["api_routes"] = {d \in recorded["api_routes"] : d.owner \notin plugins}
      /\ \A d \in recorded["api_routes"] : d.key \in plugins <=> d.owner \in plugins
  BY LanesAreOwn DEF Own, Catalogs, Keyed
<1>3. StatusesFile(plugins) = Boilerplate!StatusesFile({})
  BY <1>1 DEF StatusesFile, Boilerplate!StatusesFile
<1>4. PublicFile(plugins) = Boilerplate!PublicFile({})
  BY <1>1 DEF PublicFile, Boilerplate!PublicFile
<1>5. Manifest(plugins) = Boilerplate!Manifest({})
  BY <1>1 DEF Manifest, Boilerplate!Manifest
<1>6. Mounted(plugins) = Own["api_routes"] /\ Boilerplate!Mounted({}) = Own["api_routes"]
  BY <1>2 DEF Mounted, Boilerplate!Mounted
<1>7. OrderingFile(plugins) = Boilerplate!OrderingFile({})
  BY <1>6 DEF OrderingFile, Boilerplate!OrderingFile
<1> QED BY <1>3, <1>4, <1>5, <1>6, <1>7

\* The components that the boilerplate's paths lead to are the boilerplate's: its schemas are
\* closed, so whatever plugins add to the whole, the fewest components are the same.
LEMMA SameComponents ==
  ASSUME CatalogsKept
  PROVE  Reached(Own["api_routes"]) = Boilerplate!Reached(Own["api_routes"])
<1> DEFINE paths == Own["api_routes"]
           own == Boilerplate!Schemas
           Whole(kept) == Refs(paths) \subseteq kept /\ Leads(kept) \subseteq kept
           OwnWhole(kept) == Boilerplate!Refs(paths) \subseteq kept /\ Boilerplate!Leads(kept) \subseteq kept
<1>1. paths \subseteq recorded["api_routes"] /\ own = UNION {r.schemas : r \in paths}
  BY DEF Own, Catalogs, Keyed, Boilerplate!Schemas
<1>2. own \subseteq Schemas
  BY <1>1 DEF Schemas
<1>3. \A r \in paths : \A s \in Schemas :
         s.name \in r.refs \cup UNION {t.leads : t \in r.schemas} => s \in r.schemas
  <2>1. \A r \in recorded["api_routes"] : r \in Declarations /\ r.catalog = "api_routes"
    BY DEF CatalogsKept, Catalogs, Keyed
  <2>2. SchemasWhole(Declarations)
    BY StartupAssumption
  <2> QED BY <1>1, <2>1, <2>2 DEF SchemasWhole, Schemas
<1>4. Refs(paths) \subseteq own /\ Boilerplate!Refs(paths) = Refs(paths)
  <2>1. \A s \in Refs(paths) : s \in Schemas /\ \E r \in paths : s.name \in r.refs
    BY DEF Refs
  <2>2. Refs(paths) \subseteq own
    BY <1>1, <1>3, <2>1
  <2> QED BY <1>2, <2>2 DEF Refs, Boilerplate!Refs
<1>5. \A kept \in SUBSET own : Leads(kept) \subseteq own /\ Boilerplate!Leads(kept) = Leads(kept)
  <2> TAKE kept \in SUBSET own
  <2>1. ASSUME NEW s \in Leads(kept) PROVE s \in own
    <3>1. s \in Schemas
      BY DEF Leads
    <3>2. PICK t \in kept : s.name \in t.leads
      BY DEF Leads
    <3>3. PICK r \in paths : t \in r.schemas
      BY <1>1
    <3>4. s \in r.schemas
      BY <1>3, <3>1, <3>2, <3>3
    <3> QED BY <1>1, <3>4
  <2> QED BY <1>2, <2>1 DEF Leads, Boilerplate!Leads
<1>6. Reached(paths) = {s \in Schemas : \A kept \in SUBSET Schemas : Whole(kept) => s \in kept}
  BY DEF Reached
<1>7. Boilerplate!Reached(paths) = {s \in own : \A kept \in SUBSET own : OwnWhole(kept) => s \in kept}
  BY DEF Boilerplate!Reached
<1>8. ASSUME NEW s \in Reached(paths) PROVE s \in Boilerplate!Reached(paths)
  <2>1. Whole(own)
    BY <1>4, <1>5
  <2>2. s \in own
    BY <1>2, <1>6, <1>8, <2>1
  <2>3. \A kept \in SUBSET own : OwnWhole(kept) => Whole(kept) /\ kept \in SUBSET Schemas
    BY <1>2, <1>4, <1>5
  <2> HIDE DEF Whole, OwnWhole, own, paths
  <2> QED BY <1>6, <1>7, <1>8, <2>2, <2>3
<1>9. ASSUME NEW s \in Boilerplate!Reached(paths) PROVE s \in Reached(paths)
  <2>1. ASSUME NEW kept \in SUBSET Schemas, Whole(kept) PROVE s \in kept
    <3>1. Boilerplate!Refs(paths) \subseteq kept \cap own
      BY <1>4, <2>1
    <3>2. Leads(kept \cap own) \subseteq Leads(kept)
      BY DEF Leads
    <3>3. Boilerplate!Leads(kept \cap own) \subseteq kept \cap own
      BY <1>5, <2>1, <3>2
    <3>4. OwnWhole(kept \cap own) /\ kept \cap own \in SUBSET own
      BY <3>1, <3>3
    <3> HIDE DEF OwnWhole, own, paths
    <3> QED BY <1>7, <1>9, <3>4
  <2>2. s \in Schemas
    BY <1>2, <1>7, <1>9
  <2> HIDE DEF Whole, paths
  <2> QED BY <1>6, <2>1, <2>2
<1> QED BY <1>8, <1>9

LEMMA SameContracts ==
  ASSUME CatalogsKept, plugins \subseteq PluginLabels
  PROVE  Rendered(plugins) = Boilerplate!Rendered({})
<1>1. Document(plugins) = Boilerplate!Document({})
  BY SameTables, SameComponents DEF Document, Boilerplate!Document
<1> QED BY <1>1, SameCodes, SameTables DEF Rendered, Boilerplate!Rendered

LEMMA ContractsStart == BootInit => ContractsInv
<1> SUFFICES ASSUME BootInit PROVE ContractsInv
  OBVIOUS
<1>1. \A c \in Catalogs : recorded[c] = {}
  BY DEF BootInit, Init
<1>2. CatalogsKept
  BY <1>1, CatalogNames DEF CatalogsKept
<1>3. plugins \subseteq PluginLabels
  <2>1. \A i \in DOMAIN plan : plan[i] \in Declarations
    BY BootStart DEF BootInv, BootTypes
  <2> QED BY <2>1 DEF BootInit, PluginLabels
<1>4. CheckedIsSealed /\ committed = <<>>
  BY DEF BootInit, CheckedIsSealed
<1> QED BY <1>2, <1>3, <1>4 DEF ContractsInv

\* A declaration that is accepted is kept in its catalog.
LEMMA KeepsCatalogs ==
  ASSUME BootTypes, CatalogsKept, NEW d, d.catalog \in Catalogs, Record(d),
         d.catalog \notin {"jobs", "finding_kinds"} => d \in Declarations,
         d.catalog = "permissions" => \A code \in Range(d.codes) : code.module = d.module
  PROVE  CatalogsKept'
<1>1. /\ recorded'[d.catalog] = recorded[d.catalog] \cup {d}
      /\ \A c \in Catalogs \ {d.catalog} : recorded'[c] = recorded[c]
  BY RecordAdds DEF BootTypes
<1>2. ASSUME NEW c \in Catalogs \ {"jobs", "finding_kinds"}, NEW x \in recorded'[c]
      PROVE  x \in Declarations /\ x.catalog = c
  BY <1>1, <1>2 DEF CatalogsKept
<1>3. \A g \in recorded'["permissions"] : \A code \in Range(g.codes) : code.module = g.module
  BY <1>1, CatalogNames DEF CatalogsKept
<1> QED BY <1>2, <1>3 DEF CatalogsKept

LEMMA RegistersInCatalog ==
  ASSUME BootTypes, CatalogsKept, NEW d \in Declarations, Register(d)
  PROVE  CatalogsKept' /\ d.catalog \notin sealed /\ UNCHANGED <<sealed, entering>>
<1>1. d.catalog \in Catalogs /\ Accepted(d) /\ Record(d)
  BY StartupAssumption DEF Register
<1>2. d.catalog = "permissions" => \A code \in Range(d.codes) : code.module = d.module
  <2>1. d.catalog = "permissions" => PermissionGroupOk(d)
    BY <1>1 DEF Accepted, Acceptable
  <2> QED BY <2>1 DEF PermissionGroupOk
<1> QED BY <1>1, <1>2, KeepsCatalogs DEF Accepted, Register

LEMMA EntersInCatalog ==
  ASSUME BootTypes, CatalogsKept, EnterJob \/ EnterKind \/ EnterSpec
  PROVE  CatalogsKept' /\ entering # Nobody /\ sealed' = sealed
<1>1. /\ entering.spec \in Declarations /\ entering.spec.catalog = "reconcilers" /\ entering # Nobody
  BY DEF BootTypes, EnteringTyped, EnterJob, EnterKind, EnterSpec, Nobody
<1>2. CASE EnterJob
  BY <1>1, <1>2, CatalogNames, KeepsCatalogs DEF EnterJob
<1>3. CASE EnterKind
  BY <1>1, <1>3, CatalogNames, KeepsCatalogs DEF EnterKind
<1>4. CASE EnterSpec
  BY <1>1, <1>4, CatalogNames, KeepsCatalogs DEF EnterSpec
<1> QED BY <1>1, <1>2, <1>3, <1>4 DEF EnterJob, EnterKind, EnterSpec

\* The stale files are written and the others are what was rendered.
LEMMA ExportWrites ==
  ASSUME Export, committed = <<>> \/ committed = Rendered(plugins)
  PROVE  committed' = Rendered(plugins) /\ manage /\ boot = "serving"
<1> DEFINE rendered == Rendered(plugins)
<1>1. rendered = [f \in DOMAIN rendered |-> rendered[f]]
  BY DEF Rendered
<1> HIDE DEF rendered
<1>2. /\ boot = "serving" /\ manage /\ Stale(rendered) # {}
      /\ committed' = [f \in DOMAIN rendered \cup DOMAIN committed |->
                          IF f \in Stale(rendered) THEN rendered[f] ELSE committed[f]]
  BY DEF Export, rendered
<1>3. committed = <<>>
  BY <1>2 DEF Stale, rendered
<1>4. DOMAIN committed = {}
  BY <1>3
<1>5. Stale(rendered) = DOMAIN rendered
  BY <1>4 DEF Stale
<1>6. DOMAIN rendered \cup DOMAIN committed = DOMAIN rendered
  BY <1>4
<1>7. committed' = [f \in DOMAIN rendered |-> rendered[f]]
  BY <1>2, <1>5, <1>6
<1> QED BY <1>1, <1>2, <1>7 DEF rendered

LEMMA ContractsSteps ==
  BootInv /\ ContractsInv /\ [MCBoot /\ UNCHANGED plan]_bootvars => ContractsInv'
<1> SUFFICES ASSUME BootInv, ContractsInv, [MCBoot /\ UNCHANGED plan]_bootvars
             PROVE  ContractsInv'
  OBVIOUS
<1>0. /\ BootTypes /\ CatalogsKept /\ CheckedIsSealed /\ plugins \subseteq PluginLabels
      /\ committed # <<>> => manage /\ boot = "serving" /\ committed = Rendered(plugins)
  BY DEF BootInv, ContractsInv
\* Nothing has been exported, and the process goes on or fails.
<1>n. ASSUME CatalogsKept', CheckedIsSealed', UNCHANGED <<plugins, committed>>, committed = <<>>
      PROVE  ContractsInv'
  BY <1>0, <1>n DEF ContractsInv
\* The catalogs stay, and so does what is rendered from them.
<1>c. ASSUME UNCHANGED <<recorded, manage, boot, plugins, committed>>, CheckedIsSealed'
      PROVE  ContractsInv'
  <2>1. CatalogsKept'
    BY <1>0, <1>c DEF CatalogsKept
  <2>2. (Rendered(plugins))' = Rendered(plugins)
    BY <1>c DEF Rendered, Document, Reached, Refs, Leads, Schemas, Mounted, PermissionsFile, Codes,
                StatusesFile, OrderingFile, PublicFile, Manifest
  <2> QED BY <1>0, <1>c, <2>1, <2>2 DEF ContractsInv
<1>1. CASE ImportSettings
  <2>1. /\ boot = "settings" /\ boot' \in {"failed", "ready"}
        /\ UNCHANGED <<recorded, sealed, entering, manage, plugins, committed>>
    BY <1>1 DEF ImportSettings, Fail, Step, catalogs
  <2>2. CatalogsKept' /\ CheckedIsSealed'
    BY <1>0, <2>1 DEF CatalogsKept, CheckedIsSealed
  <2> QED BY <1>0, <1>n, <2>1, <2>2
<1>2. CASE Ready
  <2>1. boot = "ready" /\ todo # <<>> /\ todo \in Seq(Declarations)
    BY <1>0, <1>2 DEF Ready, BootTypes
  <2>2. PICK d : d = Head(todo)
    OBVIOUS
  <2>3. d \in Declarations
    BY <2>1, <2>2
  <2>4. boot' \in {"failed", "ready"} /\ UNCHANGED <<manage, plugins, committed>>
    BY <1>2 DEF Ready, Fail, Step
  <2>5. CatalogsKept'
    <3>1. CASE Register(d)
      BY <1>0, <2>3, <3>1, RegistersInCatalog
    <3>2. CASE UNCHANGED recorded
      BY <1>0, <3>2 DEF CatalogsKept
    <3> QED BY <1>2, <2>2, <3>1, <3>2 DEF Ready, StartReconciler, Refuse, catalogs
  <2>6. CheckedIsSealed'
    BY <2>4 DEF CheckedIsSealed
  <2> QED BY <1>0, <1>n, <2>1, <2>4, <2>5, <2>6
<1>3. CASE Entering
  <2>1. CatalogsKept' /\ entering # Nobody /\ sealed' = sealed
    BY <1>0, <1>3, EntersInCatalog DEF Entering
  <2>2. UNCHANGED <<manage, boot, plugins, committed>>
    BY <1>3 DEF Entering, process
  <2>3. CheckedIsSealed' /\ committed = <<>>
    BY <1>0, <2>1, <2>2 DEF CheckedIsSealed
  <2> QED BY <1>n, <2>1, <2>2, <2>3
<1>4. CASE EnteringFails
  <2>1. entering # Nobody /\ UNCHANGED <<recorded, sealed, manage, plugins, committed>>
        /\ boot' \in {boot, "failed"}
    BY <1>4 DEF EnteringFails, EnteringRefused, Nobody, Fail, process
  <2>2. CatalogsKept' /\ CheckedIsSealed' /\ committed = <<>>
    BY <1>0, <2>1 DEF CatalogsKept, CheckedIsSealed
  <2> QED BY <1>n, <2>1, <2>2
<1>5. CASE IsReady
  <2>1. /\ boot = "ready" /\ entering = Nobody /\ boot' = (IF manage THEN "checks" ELSE "serving")
        /\ UNCHANGED <<recorded, sealed, entering, manage, plugins, committed>>
    BY <1>5 DEF IsReady, Step, catalogs
  <2>2. CatalogsKept' /\ CheckedIsSealed'
    BY <1>0, <2>1 DEF CatalogsKept, CheckedIsSealed
  <2> QED BY <1>0, <1>n, <2>1, <2>2
<1>6. CASE RunChecks
  <2>1. /\ boot = "checks" /\ UNCHANGED <<recorded, entering, manage, plugins, committed>>
        /\ sealed' = IF Undeclared = {} THEN Catalogs ELSE Catalogs \ {"navigation"}
        /\ IF CheckErrors THEN boot' = "failed" ELSE boot' = "serving"
    BY <1>6 DEF RunChecks, Fail, Step
  <2>2. boot' = "serving" => sealed' = Catalogs
    BY <2>1 DEF CheckErrors
  <2>3. CatalogsKept' /\ CheckedIsSealed'
    BY <1>0, <2>1, <2>2 DEF CatalogsKept, CheckedIsSealed
  <2> QED BY <1>0, <1>n, <2>1, <2>3
<1>7. ASSUME NEW c, ReadEarly(c) PROVE ContractsInv'
  <2>1. UNCHANGED <<recorded, entering, manage, boot, plugins, committed>> /\ sealed \subseteq sealed'
    BY <1>7 DEF ReadEarly, Read, SealNavigation, process
  <2>2. CheckedIsSealed'
    BY <1>0, <2>1 DEF CheckedIsSealed
  <2> QED BY <1>c, <2>1, <2>2
<1>8. ASSUME NEW d \in Late, RegisterLate(d) PROVE ContractsInv'
  <2>1. d \in Declarations /\ d.catalog \in Catalogs
    BY DeclaredLate, StartupAssumption
  <2>2. boot = "serving" /\ UNCHANGED <<manage, boot, plugins, committed>>
    BY <1>8 DEF RegisterLate, process
  <2>3. CASE Refuse(d)
    <3>1. UNCHANGED <<recorded, sealed, entering>>
      BY <2>3 DEF Refuse, catalogs
    <3>2. CheckedIsSealed'
      BY <1>0, <2>2, <3>1 DEF CheckedIsSealed
    <3> QED BY <1>c, <2>2, <3>1, <3>2
  <2>4. CASE Register(d) \/ StartReconciler(d)
    <3>1. d.catalog \notin sealed
      BY <2>4 DEF Register, StartReconciler, Accepted
    <3>2. ~manage /\ committed = <<>>
      BY <1>0, <2>1, <2>2, <3>1 DEF CheckedIsSealed
    <3>3. CatalogsKept'
      <4>1. CASE Register(d)
        BY <1>0, <2>1, <4>1, RegistersInCatalog
      <4>2. CASE StartReconciler(d)
        BY <1>0, <4>2 DEF StartReconciler, CatalogsKept
      <4> QED BY <2>4, <4>1, <4>2
    <3>4. CheckedIsSealed'
      BY <2>2, <3>2 DEF CheckedIsSealed
    <3> QED BY <1>n, <2>2, <3>2, <3>3, <3>4
  <2> QED BY <1>8, <2>3, <2>4 DEF RegisterLate
<1>9. CASE Export
  <2>1. UNCHANGED <<recorded, sealed, entering, manage, plugins, boot>>
    BY <1>9 DEF Export, catalogs
  <2>2. committed' = Rendered(plugins) /\ manage /\ boot = "serving"
    BY <1>0, <1>9, ExportWrites
  <2>3. (Rendered(plugins))' = Rendered(plugins)
    BY <2>1 DEF Rendered, Document, Reached, Refs, Leads, Schemas, Mounted, PermissionsFile, Codes,
                StatusesFile, OrderingFile, PublicFile, Manifest
  <2>4. CatalogsKept' /\ CheckedIsSealed'
    BY <1>0, <2>1 DEF CatalogsKept, CheckedIsSealed
  <2> QED BY <1>0, <2>1, <2>2, <2>3, <2>4 DEF ContractsInv
<1>10. CASE UNCHANGED bootvars
  <2>1. UNCHANGED <<recorded, sealed, entering, manage, boot, plugins, committed>>
    BY <1>10 DEF bootvars, startup, process, catalogs
  <2>2. CheckedIsSealed'
    BY <1>0, <2>1 DEF CheckedIsSealed
  <2> QED BY <1>c, <2>1, <2>2
<1> QED BY <1>1, <1>2, <1>3, <1>4, <1>5, <1>6, <1>7, <1>8, <1>9, <1>10 DEF MCBoot

\* The inductive invariant of the export: what has been exported was rendered from catalogs that
\* can no longer change, in which each declaration is where its owner's go.
THEOREM ContractsInductive == BootSpec => []ContractsInv
BY ContractsStart, ContractsSteps, BootInductive, PTL DEF BootSpec

\* The exported contracts are those of a process without plugins, whichever are installed, as
\* long as plugins keep to their lanes (core/contracts.py, plugin_rules.py).
THEOREM ContractsAsOwn == BootSpec => []ContractsIgnorePlugins
<1>1. ContractsInv => ContractsIgnorePlugins
  BY SameContracts DEF ContractsInv, ContractsIgnorePlugins
<1> QED BY <1>1, ContractsInductive, PTL

-----------------------------------------------------------------------------
(* Plugins                                                                    *)

\* Every directory that holds a plugin holds one whose label is a label.
PluginsTyped ==
  /\ DOMAIN plugin = Dir
  /\ \A d \in Dir : plugin[d] # Nothing => plugin[d].label \in Label

\* Of two words that continue to the same word, one begins the other.
LEMMA OneBeginsTheOther ==
  ASSUME NEW S, NEW s \in Seq(S), NEW t \in Seq(S), NEW u \in Seq(S), NEW v \in Seq(S),
         s \o u = t \o v, Len(s) <= Len(t)
  PROVE  Plug!IsPrefix(s, t)
<1>1. \A i \in 1..Len(s) : s[i] = t[i]
  <2> TAKE i \in 1..Len(s)
  <2>1. (s \o u)[i] = s[i] /\ (t \o v)[i] = t[i]
    OBVIOUS
  <2> QED BY <2>1
<1>2. SubSeq(s, 1, Len(s)) = SubSeq(t, 1, Len(s))
  <2>1. Len(s) \in Nat /\ Len(t) \in Nat /\ Len(s) <= Len(t)
    OBVIOUS
  <2>2. SubSeq(s, 1, Len(s)) = [i \in 1..Len(s) |-> s[i]]
    OBVIOUS
  <2>3. SubSeq(t, 1, Len(s)) = [i \in 1..Len(s) |-> t[i]]
    BY <2>1
  <2> QED BY <1>1, <2>2, <2>3
<1> QED BY <1>2 DEF Plug!IsPrefix

\* Longer words, and words of more letters
LEMMA OneWordMore == ASSUME NEW S, NEW w \in S, NEW l \in Seq(S) PROVE l \o <<w>> \in Seq(S)
<1>1. <<w>> \in Seq(S)
  OBVIOUS
<1> QED BY <1>1

LEMMA MoreLetters == ASSUME NEW S, NEW T, S \subseteq T, NEW l \in Seq(S) PROVE l \in Seq(T)
OBVIOUS

\* A table's prefix is a word of the label's letters and the separator.
LEMMA TablesAreWords ==
  ASSUME NEW S, NEW l \in Seq(S), "_" \in S PROVE Plug!Table(l) \in Seq(S)
BY OneWordMore, Zenon DEF Plug!Table

LEMMA PluginSteps == PluginsTyped /\ [Plug!Next(Manifests)]_plugvars => PluginsTyped'
<1> SUFFICES ASSUME PluginsTyped, [Plug!Next(Manifests)]_plugvars PROVE PluginsTyped'
  OBVIOUS
<1> USE DEF PluginsTyped
<1>1. \A l \in Label : Plug!Template(l).label = l
  BY DEF Plug!Template
<1>2. \A m \in Manifests : m.label \in Label
  BY DEF Manifests
<1>3. ASSUME NEW l \in Label, Plug!NewMoves(l) PROVE PluginsTyped'
  BY <1>1, <1>3 DEF Plug!NewMoves
<1>4. CASE Plug!NewEnds
  BY <1>4 DEF Plug!NewEnds
<1>5. ASSUME NEW d \in Dir, NEW m \in Manifests, Plug!Submodule(d, m) PROVE PluginsTyped'
  BY <1>2, <1>5 DEF Plug!Submodule
<1>6. ASSUME NEW d \in Dir, Plug!Removed(d) PROVE PluginsTyped'
  BY <1>6 DEF Plug!Removed
<1>7. CASE UNCHANGED plugin
  BY <1>7
<1> QED
  BY <1>3, <1>4, <1>5, <1>6, <1>7
     DEF Plug!Next, Plug!Link, Plug!PageAdded, Plug!NewDies, Plug!Registry, plugvars

\* The check of prefixes in pairs, at boot, is enough for whole tables: whatever the plugins'
\* words, no table of an installed plugin is a table of another while the plugins boot.
THEOREM NoTableIsShared == PlugSpec => []TablesApart
<1>1. PluginsTyped => TablesApart
  <2> SUFFICES ASSUME PluginsTyped, Plug!Boots(plugin),
                      NEW d \in Plug!Installed(plugin), NEW e \in Plug!Installed(plugin), d # e,
                      NEW w1 \in Label, NEW w2 \in Label,
                      Plug!Table(plugin[d].label) \o w1 = Plug!Table(plugin[e].label) \o w2
               PROVE  FALSE
    BY DEF TablesApart, Plug!TablesApart
  <2> DEFINE s == Plug!Table(plugin[d].label)
             t == Plug!Table(plugin[e].label)
  <2>1. d \in Plug!Present(plugin) /\ e \in Plug!Present(plugin)
    BY DEF Plug!Installed
  <2>2. plugin[d].label \in Label /\ plugin[e].label \in Label
    BY <2>1 DEF PluginsTyped, Plug!Present
  <2>3. PICK S : s \in Seq(S) /\ t \in Seq(S) /\ w1 \in Seq(S) /\ w2 \in Seq(S)
    <3>1. PICK S : S = STRING \cup {"_"}
      OBVIOUS
    <3>2. Label \subseteq Seq(S)
      <4>1. STRING \subseteq S /\ Label \subseteq Seq(STRING)
        BY <3>1, StartupAssumption
      <4> QED BY <4>1, MoreLetters, Zenon
    <3>3. "_" \in S
      BY <3>1
    <3>4. plugin[d].label \in Seq(S) /\ plugin[e].label \in Seq(S) /\ w1 \in Seq(S) /\ w2 \in Seq(S)
      BY <2>2, <3>2
    <3>5. s \in Seq(S) /\ t \in Seq(S)
      BY <3>3, <3>4, TablesAreWords
    <3> QED BY <3>4, <3>5
  <2>4. ~Plug!IsPrefix(s, t) /\ ~Plug!IsPrefix(t, s)
    BY <2>1 DEF Plug!Boots, Plug!Discovered, Plug!Collide
  <2>5. s \o w1 = t \o w2
    OBVIOUS
  <2> HIDE DEF s, t
  <2>6. Len(s) <= Len(t) \/ Len(t) <= Len(s)
    BY <2>3
  <2> QED BY <2>3, <2>4, <2>5, <2>6, OneBeginsTheOther
<1>2. Plug!Init => PluginsTyped
  BY DEF Plug!Init, PluginsTyped
<1> QED BY <1>1, <1>2, PluginSteps, PTL DEF PlugSpec

-----------------------------------------------------------------------------
(* Schedules.  Mine, Reads, WritesItsOwn and Settling are about what one      *)
(* process has in hand, whichever process it is.                              *)

\* The functions from a part of A to B
Partial(A, B) == UNION {[C -> B] : C \in SUBSET A}

Copies == [id : Sched!Ids, row : Sched!Rows]

\* What a process has in hand between its first read and its commit.
InHand == [phase : {"loop", "commit"}, code : Releases, todo : SUBSET Names, creating : SUBSET Names,
           read : Partial(Names, Copies),
           writes : Partial(Sched!Ids, Sched!Rows \cup {NoRow}), owns : Partial(Names, Sched!Ids)]

SyncTypes ==
  /\ tasks \in [Sched!Ids -> Sched!Rows \cup {NoRow}]
  /\ rowOf \in [Names -> Sched!Ids \cup {NoRow}]
  /\ made \in 0..MaxRows /\ byHand \subseteq Sched!Ids
  /\ sync \in [Syncs -> {Sched!Idle} \cup InHand]

Busy(s) == sync[s].phase # "idle"

\* The rows that one sync has read as owned, and those that it has made.
Reads(h) == {h.read[n].id : n \in DOMAIN h.read}
Makes(h) == {h.owns[n] : n \in DOMAIN h.owns}

\* The row i is the job n's: committed as such, as one sync read it, or as one has made it.
Mine(h, n, i) ==
  \/ n \in DOMAIN h.read /\ h.read[n].id = i
  \/ n \in DOMAIN h.owns /\ h.owns[n] = i
Claim(n, i) == rowOf[n] = i \/ \E s \in Syncs : Busy(s) /\ Mine(sync[s], n, i)

\* A row is one job's for ever, and never one that an operator made.
ClaimsAgree ==
  \A i \in Sched!Ids, n \in Names : Claim(n, i) =>
     /\ i <= made /\ i \notin byHand
     /\ \A m \in Names : Claim(m, i) => n = m

OwnedRowsStand ==
  /\ \A n \in Names : rowOf[n] # NoRow => tasks[rowOf[n]] # NoRow /\ tasks[rowOf[n]].name = n
  /\ \A i \in Sched!Ids : i > made => tasks[i] = NoRow /\ i \notin byHand

\* What a sync has made and not committed is nobody else's.
Apart(s, i) ==
  /\ tasks[i] = NoRow
  /\ \A m \in Names : rowOf[m] # i
  /\ \A r \in Syncs : Busy(r) => i \notin Reads(sync[r]) /\ (r # s => i \notin Makes(sync[r]))
Private == \A s \in Syncs : Busy(s) => \A i \in Makes(sync[s]) : Apart(s, i)

\* A sync writes its own rows, as its registry has them.
WrittenFor(h, n, i) ==
  /\ Mine(h, n, i)
  /\ IF n \in Sched!Scheduled(h.code)
     THEN h.writes[i] # NoRow /\ h.writes[i].name = n /\ h.writes[i].fields = h.code[n]
     ELSE h.phase = "commit" /\ h.writes[i] = NoRow

WritesItsOwn(h) ==
  /\ \A n \in DOMAIN h.read : h.read[n].row.name = n
  /\ \A n \in DOMAIN h.owns :
        /\ n \in Sched!Scheduled(h.code) \ h.todo
        /\ n \notin DOMAIN h.read /\ h.owns[n] \in DOMAIN h.writes
  /\ h.todo \subseteq Sched!Scheduled(h.code)
  /\ h.creating \cap DOMAIN h.read = {}
  /\ h.phase = "commit" =>
        /\ h.todo = {}
        /\ \A n \in DOMAIN h.read \ Sched!Scheduled(h.code) : h.read[n].id \in DOMAIN h.writes
  /\ \A i \in DOMAIN h.writes : \E n \in Names : WrittenFor(h, n, i)

\* A sync that has been alone has read what is there, and has seen to the jobs behind it.
SeesWhatIs(h) ==
  /\ \A n \in Names : n \in DOMAIN h.read <=> rowOf[n] # NoRow
  /\ \A n \in DOMAIN h.read : h.read[n].id = rowOf[n] /\ h.read[n].row = tasks[rowOf[n]]
SeenTo(h, n) ==
  IF n \in DOMAIN h.read
  THEN h.read[n].id \in DOMAIN h.writes \/ h.read[n].row.fields = h.code[n]
  ELSE n \in DOMAIN h.owns \/ Sched!Named(n) # {}
Settling(h) ==
  /\ SeesWhatIs(h)
  /\ \A n \in Sched!Scheduled(h.code) \ h.todo : SeenTo(h, n)
  /\ \A i \in DOMAIN h.writes : h.writes[i] # tasks[i]

InHandInv == \A s \in Syncs : Busy(s) => WritesItsOwn(sync[s]) /\ (s \in alone => Settling(sync[s]))

SyncInv == SyncTypes /\ ClaimsAgree /\ OwnedRowsStand /\ Private /\ InHandInv

LEMMA RowsAre == MaxRows \in Nat /\ NoRow \notin Sched!Ids /\ NoRow \notin Sched!Rows
BY StartupAssumption DEF Sched!RowsAssumption

\* A process is idle, or has a sync in hand.
LEMMA IdleOrBusy ==
  ASSUME SyncTypes, NEW s \in Syncs
  PROVE  (Busy(s) => sync[s] \in InHand) /\ (~Busy(s) <=> sync[s] = Sched!Idle)
<1>1. sync[s] = Sched!Idle \/ sync[s] \in InHand
  BY DEF SyncTypes
<1>2. Sched!Idle.phase = "idle" /\ \A h \in InHand : h.phase # "idle"
  BY DEF Sched!Idle, InHand
<1> QED BY <1>1, <1>2 DEF Busy

LEMMA Partials ==
  ASSUME NEW A, NEW B, NEW f
  PROVE  f \in Partial(A, B)
           <=> f = [x \in DOMAIN f |-> f[x]] /\ DOMAIN f \subseteq A /\ \A x \in DOMAIN f : f[x] \in B
<1>1. ASSUME f \in Partial(A, B)
      PROVE  f = [x \in DOMAIN f |-> f[x]] /\ DOMAIN f \subseteq A /\ \A x \in DOMAIN f : f[x] \in B
  <2> PICK C \in SUBSET A : f \in [C -> B]
    BY <1>1 DEF Partial
  <2> QED OBVIOUS
<1>2. ASSUME f = [x \in DOMAIN f |-> f[x]], DOMAIN f \subseteq A, \A x \in DOMAIN f : f[x] \in B
      PROVE  f \in Partial(A, B)
  <2>1. f \in [DOMAIN f -> B]
    BY <1>2
  <2> QED BY <1>2, <2>1 DEF Partial
<1> QED BY <1>1, <1>2

LEMMA PartialAt ==
  ASSUME NEW A, NEW B, NEW f \in Partial(A, B), NEW x \in DOMAIN f PROVE x \in A /\ f[x] \in B
BY Partials

\* A step of one sync that claims nothing new.
LEMMA Goes ==
  ASSUME SyncInv, NEW s \in Syncs, NEW g \in InHand, sync' = [sync EXCEPT ![s] = g],
         UNCHANGED <<tasks, rowOf, made, byHand>>, alone' \subseteq alone \cup {s},
         \A n \in DOMAIN g.read : rowOf[n] = g.read[n].id
                                 \/ (Busy(s) /\ n \in DOMAIN sync[s].read /\ g.read[n].id = sync[s].read[n].id),
         \A n \in DOMAIN g.owns : Busy(s) /\ n \in DOMAIN sync[s].owns /\ g.owns[n] = sync[s].owns[n],
         WritesItsOwn(g), s \in alone' => Settling(g)
  PROVE  SyncInv'
<1>1. SyncTypes'
  BY DEF SyncInv, SyncTypes, Sched!Ids
<1>2. sync'[s] = g /\ Busy(s)' /\ \A r \in Syncs \ {s} : sync'[r] = sync[r] /\ (Busy(r)' <=> Busy(r))
  BY DEF SyncInv, SyncTypes, Busy, InHand
<1>3. \A n \in Names, i \in Sched!Ids : Mine(g, n, i) => Claim(n, i)
  BY DEF Mine, Claim
<1>4. \A n \in Names, i \in Sched!Ids : Claim(n, i)' => Claim(n, i)
  BY <1>2, <1>3 DEF Claim, Mine
<1>5. ClaimsAgree'
  BY <1>4 DEF SyncInv, ClaimsAgree, Sched!Ids
<1>6. OwnedRowsStand'
  BY DEF SyncInv, OwnedRowsStand, Sched!Ids
<1>7. Private'
  <2> SUFFICES ASSUME NEW t \in Syncs, Busy(t)', NEW i \in Makes(sync'[t]) PROVE Apart(t, i)'
    BY DEF Private
  <2>1. Reads(g) \subseteq {rowOf[n] : n \in Names} \cup (IF Busy(s) THEN Reads(sync[s]) ELSE {})
    <3>1. DOMAIN g.read \subseteq Names
      BY Partials DEF InHand
    <3> QED BY <3>1 DEF Reads
  <2>2. Makes(g) # {} => Busy(s) /\ Makes(g) \subseteq Makes(sync[s])
    BY DEF Makes
  <2>3. Busy(t) /\ i \in Makes(sync[t])
    BY <1>2, <2>2
  <2>4. Apart(t, i)
    BY <2>3 DEF SyncInv, Private
  <2>5. \A r \in Syncs : Busy(r)' => i \notin Reads(sync'[r]) /\ (r # t => i \notin Makes(sync'[r]))
    BY <1>2, <2>1, <2>2, <2>4 DEF Apart
  <2> QED BY <2>4, <2>5 DEF Apart
<1>8. InHandInv'
  <2> SUFFICES ASSUME NEW r \in Syncs, Busy(r)'
               PROVE  WritesItsOwn(sync'[r]) /\ (r \in alone' => Settling(sync[r])')
    BY DEF InHandInv
  <2>1. CASE r = s
    BY <2>1, <1>2 DEF Settling, SeesWhatIs, SeenTo, Sched!Named, Sched!Ids
  <2>2. CASE r # s
    BY <2>2, <1>2 DEF SyncInv, InHandInv, Settling, SeesWhatIs, SeenTo, Sched!Named, Sched!Ids
  <2> QED BY <2>1, <2>2
<1> QED BY <1>1, <1>5, <1>6, <1>7, <1>8 DEF SyncInv

\* A sync that ends without a commit.
LEMMA Ends ==
  ASSUME SyncInv, NEW s \in Syncs, sync' = [sync EXCEPT ![s] = Sched!Idle],
         UNCHANGED <<tasks, rowOf, made, byHand>>, alone' = alone \ {s}
  PROVE  SyncInv'
<1>1. SyncTypes'
  BY DEF SyncInv, SyncTypes, Sched!Ids
<1>2. sync'[s] = Sched!Idle /\ ~Busy(s)' /\ \A r \in Syncs \ {s} : sync'[r] = sync[r] /\ (Busy(r)' <=> Busy(r))
  BY DEF SyncInv, SyncTypes, Busy, Sched!Idle
<1>3. \A n \in Names, i \in Sched!Ids : Claim(n, i)' => Claim(n, i)
  BY <1>2 DEF Claim, Mine
<1>4. ClaimsAgree'
  BY <1>3 DEF SyncInv, ClaimsAgree, Sched!Ids
<1>5. OwnedRowsStand'
  BY DEF SyncInv, OwnedRowsStand, Sched!Ids
<1>6. Private'
  BY <1>2 DEF SyncInv, Private, Apart
<1>7. InHandInv'
  BY <1>2 DEF SyncInv, InHandInv, Settling, SeesWhatIs, SeenTo, Sched!Named, Sched!Ids
<1> QED BY <1>1, <1>4, <1>5, <1>6, <1>7 DEF SyncInv

\* A sync has gone through one job more.
LEMMA OneJobMore ==
  ASSUME NEW h \in InHand, NEW n \in h.todo, h.phase = "loop", WritesItsOwn(h),
         NEW g, g = [h EXCEPT !.todo = @ \ {n}, !.creating = {}]
  PROVE  /\ g \in InHand /\ WritesItsOwn(g)
         /\ g.read = h.read /\ g.owns = h.owns
         /\ Settling(h) /\ SeenTo(h, n) => Settling(g)
<1>1. /\ g \in InHand /\ g.phase = "loop" /\ g.code = h.code /\ g.todo = h.todo \ {n} /\ g.creating = {}
      /\ g.read = h.read /\ g.writes = h.writes /\ g.owns = h.owns
  BY DEF InHand
<1>2. WritesItsOwn(g)
  BY <1>1 DEF WritesItsOwn, WrittenFor, Mine
<1>3. ASSUME Settling(h), SeenTo(h, n) PROVE Settling(g)
  BY <1>1, <1>3 DEF Settling, SeesWhatIs, SeenTo
<1> QED BY <1>1, <1>2, <1>3

\* What a step of a sync's loop begins with.
LEMMA Looping ==
  ASSUME SyncInv, NEW s \in Syncs, NEW n, Sched!Ready(s, n)
  PROVE  /\ sync[s] \in InHand /\ Busy(s) /\ n \in sync[s].todo /\ n \in Names /\ sync[s].phase = "loop"
         /\ WritesItsOwn(sync[s]) /\ (s \in alone => Settling(sync[s]))
<1>1. Busy(s) /\ sync[s].phase = "loop" /\ n \in sync[s].todo
  BY DEF Sched!Ready, Busy
<1>2. sync[s] \in InHand
  BY <1>1, IdleOrBusy DEF SyncInv
<1> QED BY <1>1, <1>2 DEF SyncInv, InHandInv, InHand

LEMMA GoesOnKeeps ==
  ASSUME SyncInv, NEW s \in Syncs, NEW n \in Names, Sched!Conflict(s, n) \/ Sched!Keep(s, n) PROVE SyncInv'
<1>1. PICK h : h = sync[s]
  OBVIOUS
<1>2. PICK g : g = [h EXCEPT !.todo = @ \ {n}, !.creating = {}]
  OBVIOUS
<1>3. h \in InHand /\ Busy(s) /\ n \in h.todo /\ h.phase = "loop" /\ WritesItsOwn(h)
      /\ (s \in alone => Settling(h))
  BY <1>1, Looping DEF Sched!Conflict, Sched!Keep
<1>4. SeenTo(h, n)
  BY <1>1 DEF Sched!Conflict, Sched!Keep, Sched!Owned, Sched!OwnedRow, Sched!Differs, SeenTo
<1>5. g \in InHand /\ WritesItsOwn(g) /\ g.read = h.read /\ g.owns = h.owns
      /\ (Settling(h) /\ SeenTo(h, n) => Settling(g))
  BY <1>2, <1>3, OneJobMore
<1>6. sync' = [sync EXCEPT ![s] = g]
  BY <1>1, <1>2 DEF Sched!Conflict, Sched!Keep, Sched!Did
<1>7. UNCHANGED <<tasks, rowOf, made, byHand, alone>>
  BY DEF Sched!Conflict, Sched!Keep
<1> QED BY <1>1, <1>3, <1>4, <1>5, <1>6, <1>7, Goes

LEMMA NoConflictKeeps == ASSUME SyncInv, NEW s \in Syncs, NEW n \in Names, Sched!NoConflict(s, n) PROVE SyncInv'
<1>1. PICK h : h = sync[s]
  OBVIOUS
<1>2. PICK g : g = [h EXCEPT !.creating = {n}]
  OBVIOUS
<1>3. h \in InHand /\ Busy(s) /\ n \in h.todo /\ h.phase = "loop" /\ WritesItsOwn(h)
      /\ (s \in alone => Settling(h)) /\ n \notin DOMAIN h.read
  BY <1>1, Looping DEF Sched!NoConflict, Sched!Owned
<1>4. /\ g \in InHand /\ g.phase = "loop" /\ g.code = h.code /\ g.todo = h.todo /\ g.creating = {n}
      /\ g.read = h.read /\ g.writes = h.writes /\ g.owns = h.owns
  BY <1>2, <1>3 DEF InHand
<1>5. WritesItsOwn(g)
  BY <1>3, <1>4 DEF WritesItsOwn, WrittenFor, Mine
<1>6. s \in alone => Settling(g)
  BY <1>3, <1>4 DEF Settling, SeesWhatIs, SeenTo
<1>7. sync' = [sync EXCEPT ![s] = g]
  BY <1>1, <1>2 DEF Sched!NoConflict
<1>8. UNCHANGED <<tasks, rowOf, made, byHand, alone>>
  BY DEF Sched!NoConflict
<1> QED BY <1>1, <1>3, <1>4, <1>5, <1>6, <1>7, <1>8, Goes

LEMMA WithTyped ==
  ASSUME NEW A, NEW B, NEW f \in Partial(A, B), NEW x \in A, NEW y \in B
  PROVE  Sched!With(f, x, y) \in Partial(A, B)
<1>1. DOMAIN f \subseteq A /\ \A z \in DOMAIN f : f[z] \in B
  BY Partials
<1>2. PICK g : g = Sched!With(f, x, y)
  OBVIOUS
<1>3. g = [z \in DOMAIN g |-> g[z]] /\ DOMAIN g \subseteq A /\ \A z \in DOMAIN g : g[z] \in B
  BY <1>1, <1>2 DEF Sched!With
<1> QED BY <1>2, <1>3, Partials

LEMMA JobFields == ASSUME NEW code \in Releases, NEW n \in Names PROVE code[n] \in Sched!Fields
<1>1. PICK C : C = {code[m] : m \in Names}
  OBVIOUS
<1>2. C \in {{c[m] : m \in Names} : c \in Releases}
  BY <1>1
<1>3. code[n] \in C
  BY <1>1
<1> QED BY <1>2, <1>3 DEF Sched!Fields

LEMMA UpdateKeeps == ASSUME SyncInv, NEW s \in Syncs, NEW n \in Names, Sched!Update(s, n) PROVE SyncInv'
<1>1. PICK h : h = sync[s]
  OBVIOUS
<1>2. PICK d : d = [h EXCEPT !.todo = @ \ {n}, !.creating = {}]
  OBVIOUS
<1>3. PICK id : id = h.read[n].id
  OBVIOUS
<1>4. PICK w : w = [h.read[n].row EXCEPT !.fields = h.code[n]]
  OBVIOUS
<1>5. PICK g : g = [d EXCEPT !.writes = Sched!With(@, id, w)]
  OBVIOUS
<1>6. h \in InHand /\ Busy(s) /\ n \in h.todo /\ h.phase = "loop" /\ WritesItsOwn(h)
      /\ (s \in alone => Settling(h)) /\ n \in DOMAIN h.read /\ h.read[n].row.fields # h.code[n]
  BY <1>1, Looping DEF Sched!Update, Sched!Owned, Sched!OwnedRow, Sched!Differs
<1>7. d \in InHand /\ WritesItsOwn(d) /\ d.read = h.read /\ d.owns = h.owns
  BY <1>2, <1>6, OneJobMore
<1>8. d.code = h.code /\ d.writes = h.writes /\ d.phase = "loop" /\ d.todo = h.todo \ {n} /\ d.creating = {}
  BY <1>2, <1>6 DEF InHand
<1>9. h.read[n] \in Copies /\ h.code[n] \in Sched!Fields
  <2>1. h.read \in Partial(Names, Copies) /\ h.code \in Releases
    BY <1>6 DEF InHand
  <2>3. h.code[n] \in Sched!Fields
    BY <2>1, JobFields
  <2>4. h.read[n] \in Copies
    BY <1>6, <2>1, PartialAt
  <2> QED BY <2>3, <2>4
<1>10. id \in Sched!Ids /\ w \in Sched!Rows /\ w.name = h.read[n].row.name /\ w.fields = h.code[n]
  BY <1>3, <1>4, <1>9 DEF Copies, Sched!Rows
<1>11. /\ DOMAIN Sched!With(h.writes, id, w) = DOMAIN h.writes \cup {id} /\ Sched!With(h.writes, id, w)[id] = w
       /\ \A i \in DOMAIN h.writes \ {id} : Sched!With(h.writes, id, w)[i] = h.writes[i]
  BY DEF Sched!With
<1>12. Sched!With(h.writes, id, w) \in Partial(Sched!Ids, Sched!Rows \cup {NoRow})
  <2>1. h.writes \in Partial(Sched!Ids, Sched!Rows \cup {NoRow})
    BY <1>6 DEF InHand
  <2>2. w \in Sched!Rows \cup {NoRow}
    BY <1>10
  <2> QED BY <1>10, <2>1, <2>2, WithTyped
<1>13. /\ g \in InHand /\ g.phase = "loop" /\ g.code = h.code /\ g.todo = h.todo \ {n} /\ g.creating = {}
       /\ g.read = h.read /\ g.writes = Sched!With(h.writes, id, w) /\ g.owns = h.owns
  BY <1>5, <1>7, <1>8, <1>12 DEF InHand
<1>14. w # NoRow
  BY <1>10, RowsAre
<1>15. WrittenFor(g, n, id)
  BY <1>3, <1>6, <1>10, <1>11, <1>13, <1>14 DEF WrittenFor, Mine, WritesItsOwn
<1>16. \A i \in DOMAIN g.writes : \E m \in Names : WrittenFor(g, m, i)
  <2> SUFFICES ASSUME NEW i \in DOMAIN g.writes, i # id PROVE \E m \in Names : WrittenFor(g, m, i)
    BY <1>15
  <2>1. i \in DOMAIN h.writes /\ g.writes[i] = h.writes[i]
    BY <1>11, <1>13
  <2>2. PICK m \in Names : WrittenFor(h, m, i)
    BY <1>6, <2>1 DEF WritesItsOwn
  <2>3. WrittenFor(g, m, i)
    BY <1>6, <1>13, <2>1, <2>2 DEF WrittenFor, Mine
  <2> QED BY <2>3
<1>17. WritesItsOwn(g)
  BY <1>6, <1>11, <1>13, <1>16 DEF WritesItsOwn
<1>18. s \in alone => Settling(g)
  <2> SUFFICES ASSUME Settling(h) PROVE Settling(g)
    BY <1>6
  <2>1. SeesWhatIs(g)
    BY <1>13 DEF Settling, SeesWhatIs
  <2>2. \A m \in Sched!Scheduled(g.code) \ g.todo : SeenTo(g, m)
    BY <1>3, <1>6, <1>11, <1>13 DEF Settling, SeenTo
  <2>3. g.writes[id] # tasks[id]
    BY <1>3, <1>6, <1>10, <1>11, <1>13 DEF Settling, SeesWhatIs
  <2>4. \A i \in DOMAIN g.writes : g.writes[i] # tasks[i]
    BY <1>11, <1>13, <2>3 DEF Settling
  <2> QED BY <2>1, <2>2, <2>4 DEF Settling
<1>19. sync' = [sync EXCEPT ![s] = g]
  BY <1>1, <1>2, <1>3, <1>4, <1>5 DEF Sched!Update, Sched!Did, Sched!OwnedRow
<1>20. UNCHANGED <<tasks, rowOf, made, byHand, alone>>
  BY DEF Sched!Update
<1> QED BY <1>1, <1>6, <1>13, <1>17, <1>18, <1>19, <1>20, Goes

LEMMA OverTyped ==
  ASSUME NEW A, NEW B, NEW f \in Partial(A, B), NEW g \in Partial(A, B)
  PROVE  Sched!Over(f, g) \in Partial(A, B)
<1>1. /\ DOMAIN f \subseteq A /\ \A z \in DOMAIN f : f[z] \in B
      /\ DOMAIN g \subseteq A /\ \A z \in DOMAIN g : g[z] \in B
  BY Partials
<1>2. PICK h : h = Sched!Over(f, g)
  OBVIOUS
<1>3. h = [z \in DOMAIN h |-> h[z]] /\ DOMAIN h \subseteq A /\ \A z \in DOMAIN h : h[z] \in B
  BY <1>1, <1>2 DEF Sched!Over
<1> QED BY <1>2, <1>3, Partials

LEMMA DeleteGoneKeeps == ASSUME SyncInv, NEW s \in Syncs, Sched!DeleteGone(s) PROVE SyncInv'
<1>1. PICK h : h = sync[s]
  OBVIOUS
<1>2. PICK e : e = [i \in Sched!Gone(s) |-> NoRow]
  OBVIOUS
<1>3. PICK g : g = [h EXCEPT !.phase = "commit", !.writes = Sched!Over(@, e)]
  OBVIOUS
<1>4. Busy(s) /\ h.phase = "loop" /\ h.todo = {}
  BY <1>1 DEF Sched!DeleteGone, Busy
<1>5. h \in InHand /\ WritesItsOwn(h) /\ (s \in alone => Settling(h))
  BY <1>1, <1>4, IdleOrBusy DEF SyncInv, InHandInv
<1>6. h.read \in Partial(Names, Copies) /\ h.writes \in Partial(Sched!Ids, Sched!Rows \cup {NoRow})
  BY <1>5 DEF InHand
<1>7. \A n \in DOMAIN h.read : n \in Names /\ h.read[n].id \in Sched!Ids
  <2>1. \A n \in DOMAIN h.read : n \in Names /\ h.read[n] \in Copies
    BY <1>6, PartialAt
  <2> QED BY <2>1 DEF Copies
<1>8. /\ DOMAIN e = {h.read[n].id : n \in DOMAIN h.read \ Sched!Scheduled(h.code)}
      /\ \A i \in DOMAIN e : e[i] = NoRow
  BY <1>1, <1>2 DEF Sched!Gone
<1>9. e \in Partial(Sched!Ids, Sched!Rows \cup {NoRow})
  <2>1. /\ e = [i \in DOMAIN e |-> e[i]] /\ DOMAIN e \subseteq Sched!Ids
        /\ \A i \in DOMAIN e : e[i] \in Sched!Rows \cup {NoRow}
    BY <1>2, <1>7, <1>8
  <2> QED BY <2>1, Partials
<1>10. Sched!Over(h.writes, e) \in Partial(Sched!Ids, Sched!Rows \cup {NoRow})
  BY <1>6, <1>9, OverTyped
<1>11. /\ DOMAIN Sched!Over(h.writes, e) = DOMAIN h.writes \cup DOMAIN e
       /\ \A i \in DOMAIN h.writes : Sched!Over(h.writes, e)[i] = h.writes[i]
       /\ \A i \in DOMAIN e \ DOMAIN h.writes : Sched!Over(h.writes, e)[i] = NoRow
  BY <1>8 DEF Sched!Over
<1>12. /\ g \in InHand /\ g.phase = "commit" /\ g.code = h.code /\ g.todo = {} /\ g.creating = h.creating
       /\ g.read = h.read /\ g.writes = Sched!Over(h.writes, e) /\ g.owns = h.owns
  BY <1>3, <1>4, <1>5, <1>10 DEF InHand
<1>13. \A i \in DOMAIN g.writes : \E m \in Names : WrittenFor(g, m, i)
  <2>1. ASSUME NEW i \in DOMAIN h.writes PROVE \E m \in Names : WrittenFor(g, m, i)
    <3>1. PICK m \in Names : WrittenFor(h, m, i)
      BY <1>5 DEF WritesItsOwn
    <3>2. WrittenFor(g, m, i)
      BY <1>4, <1>11, <1>12, <3>1 DEF WrittenFor, Mine
    <3> QED BY <3>2
  <2>2. ASSUME NEW i \in DOMAIN e \ DOMAIN h.writes PROVE \E m \in Names : WrittenFor(g, m, i)
    <3>1. PICK m \in DOMAIN h.read \ Sched!Scheduled(h.code) : h.read[m].id = i
      BY <1>8
    <3>2. WrittenFor(g, m, i)
      BY <1>11, <1>12, <3>1 DEF WrittenFor, Mine
    <3> QED BY <1>7, <3>2
  <2> QED BY <1>11, <1>12, <2>1, <2>2
<1>14. WritesItsOwn(g)
  BY <1>4, <1>5, <1>8, <1>11, <1>12, <1>13 DEF WritesItsOwn
<1>15. s \in alone => Settling(g)
  <2> SUFFICES ASSUME Settling(h) PROVE Settling(g)
    BY <1>5
  <2>1. SeesWhatIs(g)
    BY <1>12 DEF Settling, SeesWhatIs
  <2>2. \A m \in Sched!Scheduled(g.code) \ g.todo : SeenTo(g, m)
    BY <1>4, <1>11, <1>12 DEF Settling, SeenTo
  <2>3. \A i \in DOMAIN e : tasks[i] # NoRow
    BY <1>7, <1>8 DEF Settling, SeesWhatIs, SyncInv, OwnedRowsStand
  <2>4. \A i \in DOMAIN g.writes : g.writes[i] # tasks[i]
    BY <1>11, <1>12, <2>3 DEF Settling
  <2> QED BY <2>1, <2>2, <2>4 DEF Settling
<1>16. sync' = [sync EXCEPT ![s] = g]
  BY <1>1, <1>2, <1>3 DEF Sched!DeleteGone
<1>17. UNCHANGED <<tasks, rowOf, made, byHand, alone>>
  BY DEF Sched!DeleteGone
<1> QED BY <1>1, <1>4, <1>12, <1>14, <1>15, <1>16, <1>17, Goes

LEMMA BeginKeeps ==
  ASSUME SyncInv, NEW s \in Syncs, NEW code \in Releases, Sched!Begin(s, code) PROVE SyncInv'
<1>1. PICK g : g = [phase |-> "loop", code |-> code, todo |-> Sched!Scheduled(code), creating |-> {},
                    read |-> Sched!ReadOwned,
                    writes |-> [i \in {} |-> NoRow], owns |-> [n \in {} |-> NoRow]]
  OBVIOUS
<1>2. /\ DOMAIN Sched!ReadOwned = {n \in Names : rowOf[n] # NoRow}
      /\ \A n \in DOMAIN Sched!ReadOwned :
            /\ Sched!ReadOwned[n].id = rowOf[n] /\ Sched!ReadOwned[n].row = tasks[rowOf[n]]
            /\ Sched!ReadOwned[n] \in Copies
      /\ Sched!ReadOwned = [n \in DOMAIN Sched!ReadOwned |-> Sched!ReadOwned[n]]
  BY DEF Sched!ReadOwned, Copies, SyncInv, SyncTypes, OwnedRowsStand
<1>3. Sched!ReadOwned \in Partial(Names, Copies)
  BY <1>2, Partials
<1>4. ASSUME NEW A, NEW B PROVE [x \in {} |-> NoRow] \in Partial(A, B)
  <2>1. PICK f : f = [x \in {} |-> NoRow]
    OBVIOUS
  <2>2. f = [x \in DOMAIN f |-> f[x]] /\ DOMAIN f \subseteq A /\ \A x \in DOMAIN f : f[x] \in B
    BY <2>1
  <2>3. f \in Partial(A, B)
    BY <2>2, Partials
  <2> QED BY <2>1, <2>3
<1>5. Sched!Scheduled(code) \in SUBSET Names
  BY DEF Sched!Scheduled
<1>6. /\ g \in InHand /\ g.phase = "loop" /\ g.code = code /\ g.todo = Sched!Scheduled(code) /\ g.creating = {}
      /\ g.read = Sched!ReadOwned /\ DOMAIN g.writes = {} /\ DOMAIN g.owns = {}
  BY <1>1, <1>3, <1>4, <1>5 DEF InHand
<1>7. WritesItsOwn(g)
  BY <1>2, <1>6 DEF WritesItsOwn, SyncInv, OwnedRowsStand
<1>8. Settling(g)
  BY <1>2, <1>6 DEF Settling, SeesWhatIs
<1>9. sync' = [sync EXCEPT ![s] = g]
  BY <1>1 DEF Sched!Begin
<1>10. UNCHANGED <<tasks, rowOf, made, byHand>> /\ alone' = alone \cup {s}
  BY DEF Sched!Begin
<1>11. \A n \in DOMAIN g.read : rowOf[n] = g.read[n].id
  BY <1>2, <1>6
<1>12. alone' \subseteq alone \cup {s}
  BY <1>10
<1>13. \A n \in DOMAIN g.read : rowOf[n] = g.read[n].id
               \/ (Busy(s) /\ n \in DOMAIN sync[s].read /\ g.read[n].id = sync[s].read[n].id)
  BY <1>11
<1>14. \A n \in DOMAIN g.owns : Busy(s) /\ n \in DOMAIN sync[s].owns /\ g.owns[n] = sync[s].owns[n]
  BY <1>6
<1>15. UNCHANGED <<tasks, rowOf, made, byHand>> /\ (s \in alone' => Settling(g)) /\ g \in InHand
  BY <1>6, <1>8, <1>10
<1> QED BY <1>7, <1>9, <1>12, <1>13, <1>14, <1>15, Goes

\* What any process has in hand is claimed.
LEMMA InHandIsClaimed ==
  ASSUME SyncInv, NEW s \in Syncs, Busy(s), NEW h, h = sync[s]
  PROVE  /\ h \in InHand /\ WritesItsOwn(h) /\ (s \in alone => Settling(h))
         /\ h.read \in Partial(Names, Copies) /\ h.writes \in Partial(Sched!Ids, Sched!Rows \cup {NoRow})
         /\ h.owns \in Partial(Names, Sched!Ids) /\ h.code \in Releases
         /\ \A n \in DOMAIN h.read : n \in Names /\ h.read[n] \in Copies /\ h.read[n].id \in Sched!Ids
         /\ \A n \in DOMAIN h.owns : n \in Names /\ h.owns[n] \in Sched!Ids
         /\ \A i \in Reads(h) \cup Makes(h) : i \in 1..made /\ i \notin byHand
<1>1. h \in InHand /\ WritesItsOwn(h) /\ (s \in alone => Settling(h))
  BY IdleOrBusy DEF SyncInv, InHandInv
<1>2. /\ h.read \in Partial(Names, Copies) /\ h.writes \in Partial(Sched!Ids, Sched!Rows \cup {NoRow})
      /\ h.owns \in Partial(Names, Sched!Ids) /\ h.code \in Releases
  BY <1>1 DEF InHand
<1>3. \A n \in DOMAIN h.read : n \in Names /\ h.read[n] \in Copies
  BY <1>2, PartialAt
<1>4. \A n \in DOMAIN h.read : h.read[n].id \in Sched!Ids
  BY <1>3 DEF Copies
<1>5. \A n \in DOMAIN h.owns : n \in Names /\ h.owns[n] \in Sched!Ids
  BY <1>2, PartialAt
<1>6. \A n \in Names, i \in Sched!Ids : Mine(h, n, i) => i \in 1..made /\ i \notin byHand
  BY DEF SyncInv, SyncTypes, ClaimsAgree, Claim, Sched!Ids
<1>7. \A i \in Reads(h) \cup Makes(h) : i \in 1..made /\ i \notin byHand
  BY <1>3, <1>4, <1>5, <1>6 DEF Reads, Makes, Mine
<1> QED BY <1>1, <1>2, <1>3, <1>4, <1>5, <1>7

LEMMA CreateKeeps == ASSUME SyncInv, NEW s \in Syncs, NEW n \in Names, Sched!Create(s, n) PROVE SyncInv'
<1>1. PICK h : h = sync[s]
  OBVIOUS
<1>2. PICK d : d = [h EXCEPT !.todo = @ \ {n}, !.creating = {}]
  OBVIOUS
<1>3. PICK k : k = made + 1
  OBVIOUS
<1>4. PICK on \in BOOLEAN :
        sync' = [sync EXCEPT ![s] =
           [Sched!Did(s, n) EXCEPT
              !.writes = Sched!With(@, made', Sched!Row(n, sync[s].code[n], on)),
              !.owns = Sched!With(@, n, made')]]
  BY DEF Sched!Create
<1>5. PICK w : w = Sched!Row(n, h.code[n], on)
  OBVIOUS
<1>6. PICK g : g = [d EXCEPT !.writes = Sched!With(@, k, w), !.owns = Sched!With(@, n, k)]
  OBVIOUS
<1>7. h \in InHand /\ Busy(s) /\ n \in h.todo /\ h.phase = "loop" /\ WritesItsOwn(h)
      /\ (s \in alone => Settling(h)) /\ h.creating = {n} /\ made < MaxRows
  BY <1>1, Looping DEF Sched!Create
<1>8. UNCHANGED <<tasks, rowOf, byHand, alone>> /\ made' = k
  BY <1>3 DEF Sched!Create
<1>9. made \in Nat /\ k \in Sched!Ids /\ k > made /\ MaxRows \in Nat
  BY <1>3, <1>7, RowsAre DEF SyncInv, SyncTypes, Sched!Ids
<1>10. d \in InHand /\ WritesItsOwn(d) /\ d.read = h.read /\ d.owns = h.owns
  BY <1>2, <1>7, OneJobMore
<1>11. d.code = h.code /\ d.writes = h.writes /\ d.phase = "loop" /\ d.todo = h.todo \ {n} /\ d.creating = {}
  BY <1>2, <1>7 DEF InHand
<1>12. h.writes \in Partial(Sched!Ids, Sched!Rows \cup {NoRow}) /\ h.owns \in Partial(Names, Sched!Ids)
       /\ (\A i \in Reads(h) \cup Makes(h) : i \in 1..made /\ i \notin byHand) /\ h.code \in Releases
  BY <1>1, <1>7, InHandIsClaimed
<1>13. w \in Sched!Rows /\ w # NoRow /\ w.name = n /\ w.fields = h.code[n]
  <2>1. h.code[n] \in Sched!Fields
    BY <1>12, JobFields
  <2> QED BY <1>5, <2>1, RowsAre DEF Sched!Row, Sched!Rows
<1>14. /\ DOMAIN Sched!With(h.writes, k, w) = DOMAIN h.writes \cup {k} /\ Sched!With(h.writes, k, w)[k] = w
       /\ \A i \in DOMAIN h.writes \ {k} : Sched!With(h.writes, k, w)[i] = h.writes[i]
       /\ DOMAIN Sched!With(h.owns, n, k) = DOMAIN h.owns \cup {n} /\ Sched!With(h.owns, n, k)[n] = k
       /\ \A m \in DOMAIN h.owns \ {n} : Sched!With(h.owns, n, k)[m] = h.owns[m]
  BY DEF Sched!With
<1>15. Sched!With(h.writes, k, w) \in Partial(Sched!Ids, Sched!Rows \cup {NoRow})
  <2>1. w \in Sched!Rows \cup {NoRow}
    BY <1>13
  <2> QED BY <1>9, <1>12, <2>1, WithTyped
<1>16. Sched!With(h.owns, n, k) \in Partial(Names, Sched!Ids)
  BY <1>9, <1>12, WithTyped
<1>17. /\ g \in InHand /\ g.phase = "loop" /\ g.code = h.code /\ g.todo = h.todo \ {n} /\ g.creating = {}
       /\ g.read = h.read /\ g.writes = Sched!With(h.writes, k, w) /\ g.owns = Sched!With(h.owns, n, k)
  BY <1>6, <1>10, <1>11, <1>15, <1>16 DEF InHand
<1>18. n \notin DOMAIN h.read /\ n \notin DOMAIN h.owns /\ n \in Sched!Scheduled(h.code)
  BY <1>7 DEF WritesItsOwn
<1>19. sync' = [sync EXCEPT ![s] = g]
  BY <1>1, <1>2, <1>3, <1>4, <1>5, <1>6, <1>8 DEF Sched!Did
<1>20. /\ sync'[s] = g /\ Busy(s)' /\ sync \in [Syncs -> {Sched!Idle} \cup InHand]
       /\ \A r \in Syncs \ {s} : sync'[r] = sync[r] /\ (Busy(r)' <=> Busy(r))
  BY <1>17, <1>19 DEF SyncInv, SyncTypes, Busy
<1>21. SyncTypes'
  BY <1>8, <1>9, <1>17, <1>19, <1>20 DEF SyncInv, SyncTypes, Sched!Ids
<1>22. \A m \in Names, i \in Sched!Ids : Claim(m, i)' => Claim(m, i) \/ (m = n /\ i = k)
  <2>1. \A m \in Names, i \in Sched!Ids : Mine(g, m, i) => Mine(h, m, i) \/ (m = n /\ i = k)
    BY <1>14, <1>17 DEF Mine
  <2> QED BY <1>1, <1>7, <1>8, <1>20, <2>1 DEF Claim
<1>23. ClaimsAgree'
  <2>1. \A m \in Names : ~Claim(m, k)
    BY <1>3, <1>9 DEF SyncInv, ClaimsAgree
  <2>2. \A i \in Sched!Ids, m \in Names : Claim(m, i)' => i <= k /\ i \notin byHand
    BY <1>3, <1>9, <1>22 DEF SyncInv, ClaimsAgree, OwnedRowsStand, Sched!Ids
  <2> QED BY <1>8, <1>22, <2>1, <2>2 DEF SyncInv, ClaimsAgree
<1>24. OwnedRowsStand'
  BY <1>3, <1>8, <1>9 DEF SyncInv, OwnedRowsStand, Sched!Ids
<1>25. Private'
  <2> SUFFICES ASSUME NEW t \in Syncs, Busy(t)', NEW i \in Makes(sync'[t]) PROVE Apart(t, i)'
    BY DEF Private
  <2>1. Reads(g) = Reads(h) /\ Makes(g) \subseteq Makes(h) \cup {k}
    BY <1>14, <1>17 DEF Reads, Makes
  <2>2. \A r \in Syncs : Busy(r) => k \notin Reads(sync[r]) /\ k \notin Makes(sync[r])
    BY <1>9, InHandIsClaimed
  <2>3. \A m \in Names : rowOf[m] # k
    BY <1>3, <1>9 DEF SyncInv, ClaimsAgree, Claim
  <2>4. tasks[k] = NoRow
    BY <1>9 DEF SyncInv, OwnedRowsStand
  <2>5. CASE i = k
    <3>1. t = s
      BY <1>20, <2>2, <2>5
    <3> QED BY <1>1, <1>7, <1>8, <1>20, <2>1, <2>2, <2>3, <2>4, <2>5, <3>1 DEF Apart
  <2>6. CASE i # k
    <3>1. Busy(t) /\ i \in Makes(sync[t])
      BY <1>1, <1>7, <1>20, <2>1, <2>6
    <3>2. Apart(t, i)
      BY <3>1 DEF SyncInv, Private
    <3> QED BY <1>1, <1>7, <1>8, <1>20, <2>1, <2>6, <3>2 DEF Apart
  <2> QED BY <2>5, <2>6
<1>26. \A i \in DOMAIN g.writes : \E m \in Names : WrittenFor(g, m, i)
  <2>1. WrittenFor(g, n, k)
    BY <1>13, <1>14, <1>17, <1>18 DEF WrittenFor, Mine
  <2> SUFFICES ASSUME NEW i \in DOMAIN g.writes, i # k PROVE \E m \in Names : WrittenFor(g, m, i)
    BY <2>1
  <2>2. i \in DOMAIN h.writes /\ g.writes[i] = h.writes[i]
    BY <1>14, <1>17
  <2>3. PICK m \in Names : WrittenFor(h, m, i)
    BY <1>7, <2>2 DEF WritesItsOwn
  <2>4. Mine(g, m, i)
    BY <1>14, <1>17, <1>18, <2>3 DEF WrittenFor, Mine
  <2>5. WrittenFor(g, m, i)
    BY <1>7, <1>17, <2>2, <2>3, <2>4 DEF WrittenFor
  <2> QED BY <2>5
<1>27. WritesItsOwn(g)
  BY <1>7, <1>14, <1>17, <1>18, <1>26 DEF WritesItsOwn
<1>28. s \in alone => Settling(g)
  <2> SUFFICES ASSUME Settling(h) PROVE Settling(g)
    BY <1>7
  <2>1. SeesWhatIs(g)
    BY <1>17 DEF Settling, SeesWhatIs
  <2>2. \A m \in Sched!Scheduled(g.code) \ g.todo : SeenTo(g, m)
    BY <1>14, <1>17, <1>18 DEF Settling, SeenTo
  <2>3. g.writes[k] # tasks[k]
    BY <1>9, <1>13, <1>14, <1>17 DEF SyncInv, OwnedRowsStand
  <2>4. \A i \in DOMAIN g.writes : g.writes[i] # tasks[i]
    BY <1>14, <1>17, <2>3 DEF Settling
  <2> QED BY <2>1, <2>2, <2>4 DEF Settling
<1>29. InHandInv'
  <2> SUFFICES ASSUME NEW r \in Syncs, Busy(r)'
               PROVE  WritesItsOwn(sync'[r]) /\ (r \in alone' => Settling(sync[r])')
    BY DEF InHandInv
  <2>1. CASE r = s
    BY <1>8, <1>20, <1>27, <1>28, <2>1 DEF Settling, SeesWhatIs, SeenTo, Sched!Named, Sched!Ids
  <2>2. CASE r # s
    BY <1>8, <1>20, <2>2 DEF SyncInv, InHandInv, Settling, SeesWhatIs, SeenTo, Sched!Named, Sched!Ids
  <2> QED BY <2>1, <2>2
<1> QED BY <1>21, <1>23, <1>24, <1>25, <1>29 DEF SyncInv

LEMMA CommitKeeps == ASSUME SyncInv, NEW s \in Syncs, Sched!Commit(s) PROVE SyncInv'
<1>1. PICK h : h = sync[s]
  OBVIOUS
<1>2. Busy(s) /\ h.phase = "commit"
  BY <1>1 DEF Sched!Commit, Busy
<1>3. /\ WritesItsOwn(h) /\ h.writes \in Partial(Sched!Ids, Sched!Rows \cup {NoRow})
      /\ (\A n \in DOMAIN h.owns : n \in Names /\ h.owns[n] \in Sched!Ids)
      /\ (\A i \in Reads(h) \cup Makes(h) : i \in 1..made /\ i \notin byHand)
  BY <1>1, <1>2, InHandIsClaimed
<1>4. PICK t : t = Sched!Over(h.writes, tasks)
  OBVIOUS
<1>5. tasks' = t /\ sync' = [sync EXCEPT ![s] = Sched!Idle] /\ alone' = {} /\ UNCHANGED <<made, byHand>>
      /\ rowOf' = [n \in Names |->
           IF n \in DOMAIN h.owns THEN h.owns[n]
           ELSE IF rowOf[n] # NoRow /\ t[rowOf[n]] = NoRow THEN NoRow ELSE rowOf[n]]
  BY <1>1, <1>4 DEF Sched!Commit
<1>6. DOMAIN h.writes \subseteq Sched!Ids /\ \A i \in DOMAIN h.writes : h.writes[i] \in Sched!Rows \cup {NoRow}
  BY <1>3, Partials
<1>7. /\ t \in [Sched!Ids -> Sched!Rows \cup {NoRow}]
      /\ \A i \in Sched!Ids : t[i] = IF i \in DOMAIN h.writes THEN h.writes[i] ELSE tasks[i]
  BY <1>4, <1>6 DEF Sched!Over, SyncInv, SyncTypes
<1>8. SyncTypes'
  <2>1. rowOf' \in [Names -> Sched!Ids \cup {NoRow}]
    BY <1>3, <1>5 DEF SyncInv, SyncTypes
  <2>2. sync' \in [Syncs -> {Sched!Idle} \cup InHand]
    BY <1>5 DEF SyncInv, SyncTypes
  <2> QED BY <1>5, <1>7, <2>1, <2>2 DEF SyncInv, SyncTypes, Sched!Ids
<1>9. sync'[s] = Sched!Idle /\ ~Busy(s)' /\ \A r \in Syncs \ {s} : sync'[r] = sync[r] /\ (Busy(r)' <=> Busy(r))
  BY <1>5 DEF SyncInv, SyncTypes, Busy, Sched!Idle
<1>10. \A n \in Names, i \in Sched!Ids : Claim(n, i)' => Claim(n, i)
  <2> SUFFICES ASSUME NEW n \in Names, NEW i \in Sched!Ids, Claim(n, i)' PROVE Claim(n, i)
    OBVIOUS
  <2>1. CASE rowOf'[n] = i
    <3>1. rowOf[n] = i \/ Mine(h, n, i)
      BY <1>5, <2>1, RowsAre DEF Mine, Sched!Ids
    <3> QED BY <1>1, <1>2, <3>1 DEF Claim
  <2>2. CASE \E r \in Syncs : Busy(r)' /\ Mine(sync'[r], n, i)
    BY <1>9, <2>2 DEF Claim
  <2> QED BY <2>1, <2>2 DEF Claim
<1>11. ClaimsAgree'
  BY <1>5, <1>10 DEF SyncInv, ClaimsAgree, Sched!Ids
<1>12. \A i \in DOMAIN h.writes : i \in Reads(h) \cup Makes(h)
  BY <1>3 DEF WritesItsOwn, WrittenFor, Mine, Reads, Makes
<1>13. \A n \in Names, i \in DOMAIN h.writes : Claim(n, i) => WrittenFor(h, n, i)
  <2> SUFFICES ASSUME NEW n \in Names, NEW i \in DOMAIN h.writes, Claim(n, i) PROVE WrittenFor(h, n, i)
    OBVIOUS
  <2>1. PICK m \in Names : WrittenFor(h, m, i)
    BY <1>3 DEF WritesItsOwn
  <2>2. Claim(m, i)
    BY <1>1, <1>2, <2>1 DEF WrittenFor, Claim
  <2>3. n = m
    BY <1>6, <2>2 DEF SyncInv, ClaimsAgree
  <2> QED BY <2>1, <2>3
<1>14. OwnedRowsStand'
  <2>1. ASSUME NEW n \in Names, rowOf'[n] # NoRow PROVE t[rowOf'[n]] # NoRow /\ t[rowOf'[n]].name = n
    <3>1. PICK i : i = rowOf'[n]
      OBVIOUS
    <3>2. i \in Sched!Ids /\ Claim(n, i)
      <4>1. i \in Sched!Ids
        BY <1>8, <2>1, <3>1 DEF SyncTypes
      <4>2. Claim(n, i)'
        BY <3>1 DEF Claim
      <4> QED BY <1>10, <4>1, <4>2
    <3>3. CASE n \in DOMAIN h.owns
      <4>1. i = h.owns[n] /\ i \in DOMAIN h.writes /\ n \in Sched!Scheduled(h.code)
        BY <1>3, <1>5, <3>1, <3>3 DEF WritesItsOwn
      <4> QED BY <1>7, <1>13, <3>1, <3>2, <4>1 DEF WrittenFor
    <3>4. CASE n \notin DOMAIN h.owns
      <4>1. i = rowOf[n] /\ t[i] # NoRow
        BY <1>5, <2>1, <3>1, <3>4
      <4>2. CASE i \in DOMAIN h.writes
        BY <1>7, <1>13, <3>1, <3>2, <4>1, <4>2 DEF WrittenFor
      <4>3. CASE i \notin DOMAIN h.writes
        BY <1>5, <1>7, <2>1, <3>1, <3>2, <4>1, <4>3 DEF SyncInv, OwnedRowsStand
      <4> QED BY <4>2, <4>3
    <3> QED BY <3>3, <3>4
  <2>2. ASSUME NEW i \in Sched!Ids, i > made PROVE t[i] = NoRow /\ i \notin byHand
    <3>1. i \notin DOMAIN h.writes
      BY <1>3, <1>12, <2>2 DEF SyncInv, SyncTypes
    <3> QED BY <1>7, <2>2, <3>1 DEF SyncInv, OwnedRowsStand
  <2> QED BY <1>5, <2>1, <2>2 DEF OwnedRowsStand, Sched!Ids
<1>15. Private'
  <2> SUFFICES ASSUME NEW r \in Syncs, Busy(r)', NEW i \in Makes(sync'[r]) PROVE Apart(r, i)'
    BY DEF Private
  <2>1. r # s /\ Busy(r) /\ i \in Makes(sync[r])
    BY <1>9
  <2>2. Apart(r, i)
    BY <2>1 DEF SyncInv, Private
  <2>3. i \notin Reads(h) /\ i \notin Makes(h) /\ i \in Sched!Ids
    <3>1. i \in 1..made
      BY <2>1, InHandIsClaimed
    <3>2. i \in Sched!Ids
      BY <3>1, RowsAre DEF SyncInv, SyncTypes, Sched!Ids
    <3> QED BY <1>1, <1>2, <2>1, <2>2, <3>2 DEF Apart
  <2>4. tasks'[i] = NoRow
    BY <1>5, <1>7, <1>12, <2>2, <2>3 DEF Apart
  <2>5. \A m \in Names : rowOf'[m] # i
    BY <1>5, <2>2, <2>3, RowsAre DEF Apart, Makes
  <2> QED BY <1>9, <2>2, <2>4, <2>5 DEF Apart
<1>16. InHandInv'
  BY <1>5, <1>9 DEF SyncInv, InHandInv
<1> QED BY <1>8, <1>11, <1>14, <1>15, <1>16 DEF SyncInv

LEMMA OperatorKeeps == ASSUME SyncInv, Sched!OperatorStep PROVE SyncInv'
<1>1. /\ \A r \in Syncs : Busy(r)' <=> Busy(r)
      /\ alone' = {} /\ sync' = sync
  BY DEF Sched!OperatorStep, Sched!Toggle, Sched!DeleteByHand, Sched!MakeByHand, Busy
<1>2. InHandInv'
  BY <1>1 DEF SyncInv, InHandInv
<1>3. \A r \in Syncs : Busy(r) => \A i \in Makes(sync[r]) : i \in 1..made /\ i \in Sched!Ids /\ Apart(r, i)
  <2> SUFFICES ASSUME NEW r \in Syncs, Busy(r), NEW i \in Makes(sync[r])
               PROVE  i \in 1..made /\ i \in Sched!Ids /\ Apart(r, i)
    OBVIOUS
  <2>1. i \in 1..made
    BY InHandIsClaimed
  <2> QED BY <2>1, RowsAre DEF SyncInv, SyncTypes, Sched!Ids, Private
<1>4. ASSUME NEW i \in Sched!Ids, Sched!Toggle(i) PROVE SyncInv'
  <2>1. tasks[i] # NoRow /\ tasks' = [tasks EXCEPT ![i].enabled = ~@] /\ UNCHANGED <<rowOf, made, byHand>>
    BY <1>4 DEF Sched!Toggle
  <2>2. tasks[i] \in Sched!Rows /\ tasks'[i] \in Sched!Rows /\ tasks'[i] # NoRow /\ tasks'[i].name = tasks[i].name
    BY <2>1, RowsAre DEF SyncInv, SyncTypes, Sched!Rows
  <2>3. \A j \in Sched!Ids \ {i} : tasks'[j] = tasks[j]
    BY <2>1 DEF SyncInv, SyncTypes
  <2>4. SyncTypes'
    BY <1>1, <2>1, <2>2 DEF SyncInv, SyncTypes, Sched!Ids
  <2>5. ClaimsAgree'
    BY <1>1, <2>1 DEF SyncInv, ClaimsAgree, Claim, Mine, Busy, Sched!Ids
  <2>6. OwnedRowsStand'
    BY <2>1, <2>2, <2>3 DEF SyncInv, SyncTypes, OwnedRowsStand, Sched!Ids
  <2>7. Private'
    BY <1>1, <1>3, <2>1, <2>3 DEF Private, Apart
  <2> QED BY <1>2, <2>4, <2>5, <2>6, <2>7 DEF SyncInv
<1>5. ASSUME NEW i \in Sched!Ids, Sched!DeleteByHand(i) PROVE SyncInv'
  <2>1. /\ tasks' = [tasks EXCEPT ![i] = NoRow] /\ UNCHANGED <<made, byHand>>
        /\ rowOf' = [n \in Names |-> IF rowOf[n] = i THEN NoRow ELSE rowOf[n]]
    BY <1>5 DEF Sched!DeleteByHand
  <2>2. SyncTypes'
    BY <1>1, <2>1 DEF SyncInv, SyncTypes, Sched!Ids
  <2>3. \A n \in Names, j \in Sched!Ids : Claim(n, j)' => Claim(n, j)
    BY <1>1, <2>1, RowsAre DEF Claim, Busy
  <2>4. ClaimsAgree'
    BY <2>1, <2>3 DEF SyncInv, ClaimsAgree, Sched!Ids
  <2>5. OwnedRowsStand'
    BY <2>1 DEF SyncInv, SyncTypes, OwnedRowsStand, Sched!Ids
  <2>6. Private'
    BY <1>1, <1>3, <2>1, RowsAre DEF Private, Apart, SyncInv, SyncTypes
  <2> QED BY <1>2, <2>2, <2>4, <2>5, <2>6 DEF SyncInv
<1>6. ASSUME NEW n \in Names, Sched!MakeByHand(n) PROVE SyncInv'
  <2>1. PICK k : k = made + 1
    OBVIOUS
  <2>2. PICK w : w = Sched!Row(n, "by hand", TRUE)
    OBVIOUS
  <2>3. /\ made < MaxRows /\ made' = k /\ rowOf' = rowOf
        /\ tasks' = [tasks EXCEPT ![k] = w] /\ byHand' = byHand \cup {k}
    BY <1>6, <2>1, <2>2 DEF Sched!MakeByHand
  <2>4. k \in Sched!Ids /\ k \in Nat /\ made \in Nat /\ k > made
    BY <2>1, <2>3, RowsAre DEF SyncInv, SyncTypes, Sched!Ids
  <2>5. w \in Sched!Rows
    BY <2>2 DEF Sched!Row, Sched!Rows, Sched!Fields
  <2>6. SyncTypes'
    BY <1>1, <2>3, <2>4, <2>5 DEF SyncInv, SyncTypes, Sched!Ids
  <2>7. \A m \in Names, i \in Sched!Ids : Claim(m, i)' => Claim(m, i)
    BY <1>1, <2>3 DEF Claim, Busy
  <2>8. \A m \in Names, i \in Sched!Ids : Claim(m, i) => i <= made /\ i # k
    BY <2>1, <2>4 DEF SyncInv, ClaimsAgree
  <2>9. ClaimsAgree'
    BY <2>1, <2>3, <2>4, <2>7, <2>8 DEF SyncInv, ClaimsAgree, Sched!Ids
  <2>10. OwnedRowsStand'
    <3>1. \A m \in Names : rowOf[m] # k
      BY <2>4, <2>8 DEF Claim
    <3> QED BY <2>1, <2>3, <2>4, <3>1 DEF SyncInv, SyncTypes, OwnedRowsStand, Sched!Ids
  <2>11. Private'
    BY <1>1, <1>3, <2>1, <2>3, <2>4 DEF Private, Apart, SyncInv, SyncTypes
  <2> QED BY <1>2, <2>6, <2>9, <2>10, <2>11 DEF SyncInv
<1> QED BY <1>4, <1>5, <1>6 DEF Sched!OperatorStep

LEMMA SyncStart == Sched!Init => SyncInv
<1> SUFFICES ASSUME Sched!Init PROVE SyncInv
  OBVIOUS
<1>1. \A s \in Syncs : ~Busy(s)
  BY DEF Sched!Init, Busy, Sched!Idle
<1>2. SyncTypes
  BY RowsAre DEF Sched!Init, SyncTypes
<1>3. \A n \in Names, i \in Sched!Ids : ~Claim(n, i)
  BY <1>1, RowsAre DEF Sched!Init, Claim
<1>4. OwnedRowsStand
  BY DEF Sched!Init, OwnedRowsStand
<1> QED BY <1>1, <1>2, <1>3, <1>4 DEF SyncInv, ClaimsAgree, Private, InHandInv

LEMMA SyncSteps == SyncInv /\ [Sched!Next]_(Sched!vars) => SyncInv'
<1> SUFFICES ASSUME SyncInv, [Sched!Next]_(Sched!vars) PROVE SyncInv'
  OBVIOUS
<1>1. ASSUME NEW s \in Syncs, NEW n \in Names, Sched!Collide(s, n) \/ Sched!UpdateCollides(s, n) PROVE SyncInv'
  BY <1>1, Ends DEF Sched!Collide, Sched!UpdateCollides
<1>2. ASSUME NEW s \in Syncs, Sched!Abort(s) PROVE SyncInv'
  BY <1>2, Ends DEF Sched!Abort
<1>3. ASSUME NEW s \in Syncs, Sched!SyncStep(s) PROVE SyncInv'
  BY <1>1, <1>2, <1>3, BeginKeeps, GoesOnKeeps, NoConflictKeeps, CreateKeeps, UpdateKeeps,
     DeleteGoneKeeps, CommitKeeps DEF Sched!SyncStep
<1>4. CASE UNCHANGED Sched!vars
  BY <1>4 DEF Sched!vars, SyncInv, SyncTypes, ClaimsAgree, Claim, OwnedRowsStand, Private, Apart, InHandInv, Busy,
              Mine, Reads, Makes, Settling, SeesWhatIs, SeenTo, Sched!Named, Sched!Ids
<1> QED BY <1>3, <1>4, OperatorKeeps DEF Sched!Next

\* The inductive invariant of the syncs.
THEOREM SyncsInductive == Sched!Spec => []SyncInv
BY SyncStart, SyncSteps, PTL DEF Sched!Spec

\* A step of a sync changes what that process has in hand, and no row unless it commits.
LEMMA OnlyItsOwn ==
  ASSUME NEW s \in Syncs, Sched!SyncStep(s)
  PROVE  /\ \A r \in Syncs \ {s} : DOMAIN sync = Syncs => sync'[r] = sync[r]
         /\ UNCHANGED tasks \/ Sched!Commit(s)
<1>1. ASSUME NEW code \in Releases, Sched!Begin(s, code)
      PROVE  (\A r \in Syncs \ {s} : DOMAIN sync = Syncs => sync'[r] = sync[r]) /\ UNCHANGED tasks
  BY <1>1 DEF Sched!Begin
<1>2. ASSUME NEW n \in Names,
             \/ Sched!Conflict(s, n) \/ Sched!NoConflict(s, n) \/ Sched!Collide(s, n)
             \/ Sched!Keep(s, n) \/ Sched!UpdateCollides(s, n)
      PROVE  (\A r \in Syncs \ {s} : DOMAIN sync = Syncs => sync'[r] = sync[r]) /\ UNCHANGED tasks
  BY <1>2 DEF Sched!Conflict, Sched!NoConflict, Sched!Collide, Sched!Keep, Sched!UpdateCollides
<1>3. ASSUME NEW n \in Names, Sched!Create(s, n) \/ Sched!Update(s, n)
      PROVE  (\A r \in Syncs \ {s} : DOMAIN sync = Syncs => sync'[r] = sync[r]) /\ UNCHANGED tasks
  BY <1>3 DEF Sched!Create, Sched!Update
<1>4. CASE Sched!DeleteGone(s) \/ Sched!Commit(s) \/ Sched!Abort(s)
  BY <1>4 DEF Sched!DeleteGone, Sched!Commit, Sched!Abort
<1> QED BY <1>1, <1>2, <1>3, <1>4 DEF Sched!SyncStep

LEMMA ForeignRows == SyncInv /\ [Sched!Next]_(Sched!vars) => Sched!ForeignRowsUntouched
<1> SUFFICES ASSUME SyncInv, [Sched!Next]_(Sched!vars), NEW i \in byHand, tasks'[i] # tasks[i]
             PROVE  UNCHANGED sync
  BY DEF Sched!ForeignRowsUntouched
<1>1. UNCHANGED tasks \/ UNCHANGED sync \/ \E s \in Syncs : Sched!Commit(s)
  <2>1. Sched!OperatorStep \/ UNCHANGED Sched!vars => UNCHANGED sync
    BY DEF Sched!OperatorStep, Sched!Toggle, Sched!DeleteByHand, Sched!MakeByHand, Sched!vars
  <2> QED BY <2>1, OnlyItsOwn DEF Sched!Next
<1>2. ASSUME NEW s \in Syncs, Sched!Commit(s) PROVE tasks'[i] = tasks[i]
  <2>1. PICK h : h = sync[s]
    OBVIOUS
  <2>2. Busy(s)
    BY <1>2 DEF Sched!Commit, Busy
  <2>3. WritesItsOwn(h) /\ \A j \in Reads(h) \cup Makes(h) : j \notin byHand
    BY <2>1, <2>2, InHandIsClaimed
  <2>4. i \notin DOMAIN h.writes
    BY <2>3 DEF WritesItsOwn, WrittenFor, Mine, Reads, Makes
  <2>5. tasks' = Sched!Over(h.writes, tasks) /\ i \in DOMAIN tasks
    BY <1>2, <2>1 DEF Sched!Commit, SyncInv, SyncTypes
  <2> QED BY <2>4, <2>5 DEF Sched!Over
<1> QED BY <1>1, <1>2

\* What a sync that was alone leaves behind when it commits.
LEMMA LeavesNothing ==
  ASSUME SyncInv, NEW s \in Syncs, Busy(s), s \in alone, NEW h, h = sync[s], h.phase = "commit",
         NEW t, t = Sched!Over(h.writes, tasks), NEW o,
         o = [n \in Names |->
                IF n \in DOMAIN h.owns THEN h.owns[n]
                ELSE IF rowOf[n] # NoRow /\ t[rowOf[n]] = NoRow THEN NoRow ELSE rowOf[n]]
  PROVE  /\ \A n \in Sched!Scheduled(h.code) :
               IF o[n] = NoRow THEN \E i \in Sched!Ids : t[i] # NoRow /\ t[i].name = n
                               ELSE t[o[n]].fields = h.code[n]
         /\ \A n \in Names \ Sched!Scheduled(h.code) : o[n] = NoRow
<1>1. /\ WritesItsOwn(h) /\ Settling(h)
      /\ (\A n \in DOMAIN h.owns : n \in Names /\ h.owns[n] \in Sched!Ids)
      /\ (\A n \in DOMAIN h.read : n \in Names /\ h.read[n].id \in Sched!Ids)
      /\ h.writes \in Partial(Sched!Ids, Sched!Rows \cup {NoRow})
  BY InHandIsClaimed
<1>2. DOMAIN h.writes \subseteq Sched!Ids
  BY <1>1, Partials
<1>3. \A i \in Sched!Ids : t[i] = IF i \in DOMAIN h.writes THEN h.writes[i] ELSE tasks[i]
  BY <1>2 DEF Sched!Over, SyncInv, SyncTypes
<1>4. \A n \in Names, i \in DOMAIN h.writes : Claim(n, i) => WrittenFor(h, n, i)
  <2> SUFFICES ASSUME NEW n \in Names, NEW i \in DOMAIN h.writes, Claim(n, i) PROVE WrittenFor(h, n, i)
    OBVIOUS
  <2>1. PICK m \in Names : WrittenFor(h, m, i)
    BY <1>1 DEF WritesItsOwn
  <2>2. Claim(m, i)
    BY <2>1 DEF WrittenFor, Claim
  <2>3. n = m
    BY <1>2, <2>2 DEF SyncInv, ClaimsAgree
  <2> QED BY <2>1, <2>3
<1>5. h.todo = {} /\ SeesWhatIs(h) /\ \A n \in Sched!Scheduled(h.code) : SeenTo(h, n)
  BY <1>1 DEF WritesItsOwn, Settling
<1>6. \A n \in Names : rowOf[n] # NoRow => n \in DOMAIN h.read /\ rowOf[n] \in Sched!Ids /\ Claim(n, rowOf[n])
  BY <1>5 DEF SeesWhatIs, SyncInv, SyncTypes, Claim
<1>7. ASSUME NEW n \in DOMAIN h.owns PROVE o[n] \in Sched!Ids /\ t[o[n]].fields = h.code[n]
  <2>1. h.owns[n] \in DOMAIN h.writes /\ n \in Sched!Scheduled(h.code) /\ o[n] = h.owns[n]
    BY <1>1 DEF WritesItsOwn
  <2>2. Claim(n, h.owns[n])
    BY DEF Claim, Mine
  <2>3. WrittenFor(h, n, h.owns[n])
    BY <1>1, <1>4, <2>1, <2>2
  <2> QED BY <1>1, <1>3, <2>1, <2>3 DEF WrittenFor
<1>8. ASSUME NEW n \in Sched!Scheduled(h.code), n \notin DOMAIN h.owns, rowOf[n] # NoRow
      PROVE  o[n] = rowOf[n] /\ t[o[n]].fields = h.code[n]
  <2>1. n \in Names /\ n \in DOMAIN h.read /\ h.read[n].id = rowOf[n] /\ h.read[n].row = tasks[rowOf[n]]
    BY <1>5, <1>8 DEF SeesWhatIs, Sched!Scheduled
  <2>2. rowOf[n] \in Sched!Ids /\ Claim(n, rowOf[n])
    BY <1>6, <1>8, <2>1
  <2>3. CASE rowOf[n] \in DOMAIN h.writes
    <3>1. WrittenFor(h, n, rowOf[n])
      BY <1>4, <2>1, <2>2, <2>3
    <3> QED BY <1>3, <1>8, <2>1, <2>2, <2>3, <3>1 DEF WrittenFor
  <2>4. CASE rowOf[n] \notin DOMAIN h.writes
    <3>1. tasks[rowOf[n]].fields = h.code[n] /\ tasks[rowOf[n]] # NoRow
      BY <1>5, <1>8, <2>1, <2>4 DEF SeenTo, SyncInv, OwnedRowsStand
    <3> QED BY <1>3, <1>8, <2>1, <2>2, <2>4, <3>1
  <2> QED BY <2>3, <2>4
<1>9. ASSUME NEW n \in Sched!Scheduled(h.code), n \notin DOMAIN h.owns, rowOf[n] = NoRow
      PROVE  o[n] = NoRow /\ \E i \in Sched!Ids : t[i] # NoRow /\ t[i].name = n
  <2>1. n \in Names /\ n \notin DOMAIN h.read
    BY <1>5, <1>9 DEF SeesWhatIs, Sched!Scheduled
  <2>2. PICK i \in Sched!Ids : tasks[i] # NoRow /\ tasks[i].name = n
    BY <1>5, <1>9, <2>1 DEF SeenTo, Sched!Named
  <2>3. i \notin DOMAIN h.writes
    <3> SUFFICES ASSUME i \in DOMAIN h.writes PROVE FALSE
      OBVIOUS
    <3>1. PICK m \in Names : WrittenFor(h, m, i)
      BY <1>1 DEF WritesItsOwn
    <3>2. CASE m \in DOMAIN h.read /\ h.read[m].id = i
      BY <1>5, <2>1, <2>2, <3>2, RowsAre
         DEF SeesWhatIs, SyncInv, OwnedRowsStand
    <3>3. CASE m \in DOMAIN h.owns /\ h.owns[m] = i
      BY <2>2, <3>3 DEF SyncInv, Private, Apart, Makes
    <3> QED BY <3>1, <3>2, <3>3 DEF WrittenFor, Mine
  <2> QED BY <1>3, <1>9, <2>1, <2>2, <2>3
<1>10. ASSUME NEW n \in Names \ Sched!Scheduled(h.code) PROVE o[n] = NoRow
  <2>1. n \notin DOMAIN h.owns
    BY <1>1 DEF WritesItsOwn
  <2>2. ASSUME rowOf[n] # NoRow PROVE t[rowOf[n]] = NoRow
    <3>1. n \in DOMAIN h.read /\ h.read[n].id = rowOf[n] /\ rowOf[n] \in Sched!Ids /\ Claim(n, rowOf[n])
      BY <1>5, <1>6, <2>2 DEF SeesWhatIs
    <3>2. rowOf[n] \in DOMAIN h.writes
      BY <1>1, <3>1 DEF WritesItsOwn
    <3> QED BY <1>3, <1>4, <3>1, <3>2 DEF WrittenFor
  <2> QED BY <2>1, <2>2
<1> QED BY <1>7, <1>8, <1>9, <1>10, RowsAre

LEMMA Settles == SyncInv /\ [Sched!Next]_(Sched!vars) => Sched!SyncSettles
<1> SUFFICES ASSUME SyncInv, [Sched!Next]_(Sched!vars), NEW s \in Syncs, NEW code \in Releases,
                    sync[s].phase = "commit", sync'[s] = Sched!Idle, tasks' = Sched!Over(sync[s].writes, tasks),
                    sync[s].code = code, s \in alone
             PROVE  Sched!NotSynced(code)' = {}
  BY DEF Sched!SyncSettles
<1>1. PICK h : h = sync[s]
  OBVIOUS
<1>2. PICK t : t = Sched!Over(h.writes, tasks)
  OBVIOUS
<1>3. PICK o : o = [n \in Names |->
                      IF n \in DOMAIN h.owns THEN h.owns[n]
                      ELSE IF rowOf[n] # NoRow /\ t[rowOf[n]] = NoRow THEN NoRow ELSE rowOf[n]]
  OBVIOUS
<1>4. Busy(s) /\ sync[s] # Sched!Idle /\ h.phase = "commit"
  BY <1>1, IdleOrBusy DEF Busy, Sched!Idle, SyncInv
<1>5. rowOf' = o
  <2>1. Sched!Commit(s) \/ Sched!Abort(s)
    <3>1. \A r \in Syncs : r # s => ~Sched!SyncStep(r)
      BY <1>4, OnlyItsOwn DEF SyncInv, SyncTypes
    <3>2. ~Sched!OperatorStep /\ ~UNCHANGED Sched!vars
      BY <1>4 DEF Sched!OperatorStep, Sched!Toggle, Sched!DeleteByHand, Sched!MakeByHand, Sched!vars
    <3>3. Sched!SyncStep(s)
      BY <3>1, <3>2 DEF Sched!Next
    <3> QED BY <1>4, <3>3
               DEF Sched!SyncStep, Sched!Begin, Sched!Conflict, Sched!NoConflict, Sched!Create,
                  Sched!Collide, Sched!Keep, Sched!Update,
                  Sched!UpdateCollides, Sched!DeleteGone, Sched!Ready
  <2>2. CASE Sched!Commit(s)
    BY <1>1, <1>2, <1>3, <2>2 DEF Sched!Commit
  <2>3. CASE Sched!Abort(s)
    <3>1. tasks' = tasks /\ rowOf' = rowOf
      BY <2>3 DEF Sched!Abort
    <3>2. WritesItsOwn(h) /\ Settling(h)
      BY <1>1, <1>4, InHandIsClaimed
    <3>3. DOMAIN h.writes = {}
      <4>1. \A i \in DOMAIN h.writes : tasks[i] = h.writes[i]
        BY <1>1, <3>1 DEF Sched!Over
      <4> QED BY <3>2, <4>1 DEF Settling
    <3>4. DOMAIN h.owns = {}
      BY <3>2, <3>3 DEF WritesItsOwn
    <3>5. t = tasks
      BY <1>1, <1>2, <3>1
    <3>6. \A n \in Names : rowOf[n] # NoRow => t[rowOf[n]] # NoRow
      BY <3>5 DEF SyncInv, OwnedRowsStand
    <3>7. rowOf = [n \in Names |-> rowOf[n]]
      BY DEF SyncInv, SyncTypes
    <3> QED BY <1>3, <3>1, <3>4, <3>6, <3>7
  <2> QED BY <2>1, <2>2, <2>3
<1>6. tasks' = t /\ code = h.code
  BY <1>1, <1>2
<1>7. /\ \A n \in Sched!Scheduled(code) :
            IF o[n] = NoRow THEN \E i \in Sched!Ids : t[i] # NoRow /\ t[i].name = n
                            ELSE t[o[n]].fields = code[n]
      /\ \A n \in Names \ Sched!Scheduled(code) : o[n] = NoRow
  BY <1>1, <1>2, <1>3, <1>4, <1>6, LeavesNothing
<1>8. Sched!Drift(code).created' = {} /\ Sched!Drift(code).updated' = {} /\ Sched!Drift(code).deleted' = {}
  BY <1>5, <1>6, <1>7 DEF Sched!Drift, Sched!Named, Sched!Differs, Sched!Ids, Sched!Scheduled
<1> QED BY <1>8 DEF Sched!NotSynced

\* Whatever syncs and operators do at once, no sync writes or deletes a row that an operator
\* made, and one that nothing disturbed leaves beat as the registry has it.
THEOREM SyncsKeepTheirWord == Sched!Spec => SyncKeepsItsWord
BY SyncsInductive, SyncStart, SyncSteps, ForeignRows, Settles, PTL
   DEF Sched!Spec, SyncKeepsItsWord, Sched!SyncKeepsItsWord

-----------------------------------------------------------------------------
(* Settings (SettingTypes, Resolution)                                        *)

RowOrNone == Value!Rows \cup {NoRow}

ValueTypes ==
  /\ setting \in DOMAIN Held
  /\ DOMAIN scoped = Value!Scopes /\ \A s \in setting.scopes : scoped[s] \in RowOrNone
  /\ draft = NoRow \/ draft \in [scope : setting.scopes, row : RowOrNone]
  /\ DOMAIN snapshot = Value!Callers /\ DOMAIN ceiling = Value!Callers
  /\ reading = NoRow
     \/ reading \in [caller : Value!Callers, left : SUBSET setting.scopes, platform : RowOrNone]

\* What is remembered was read from a row, or from the default as if it were one.
ReadFrom(answer) ==
  \E row \in Value!Rows, source \in Value!Scopes \cup {"default"} :
     Value!Readable(setting, row.json) /\ answer = Value!Answer(row, source)
AnswersAreRead == \A c \in Value!Callers : snapshot[c] # NoRow => ReadFrom(snapshot[c])

\* The scopes that the read under way has been through.
Seen == Value!Steps(reading.caller) \ reading.left

\* What a read knows that nothing has interfered with: the platform's row if it is
\* usable, and not locked; of the other scopes, that they have none.
SeesEachScope ==
  /\ \A s \in Seen, t \in reading.left : Value!Turn[s] < Value!Turn[t]
  /\ \A s \in Seen \ {"platform"} : ~Value!Usable(Value!Visible(s))
  /\ LET row == Value!Visible("platform") IN
     IF "platform" \in Seen /\ Value!Usable(row)
     THEN reading.platform = row /\ ~row.locked
     ELSE reading.platform = NoRow

\* A read has yet to look at the lock that it will find.
LockIsAhead ==
  LET row == Value!Visible("platform") IN
  ceiling[reading.caller] => "platform" \in reading.left /\ Value!Usable(row) /\ row.locked

ReadGoesOn ==
  reading # NoRow =>
    /\ reading.left \subseteq Value!Steps(reading.caller)
    /\ reading.platform # NoRow => Value!Readable(setting, reading.platform.json)
    /\ LockIsAhead
    /\ quiet => SeesEachScope

ValuesInv ==
  /\ ValueTypes /\ AnswersAreRead /\ ReadGoesOn
  /\ Value!WorksWithWhatIsSet /\ Value!LocksHold /\ Value!OwnValuesArePrivate

\* What the registry and the values there are owe each other.
LEMMA Declared ==
  ASSUME NEW d \in DOMAIN Held
  PROVE  /\ Value!Registrable(d)
         /\ d.scopes \subseteq Value!Scopes
         /\ Held[d] \subseteq Value!Jsons /\ Value!ToJson(d.type, d.default) \in Value!Jsons
<1>1. Value!Registrable(d)
  BY StartupAssumption DEF Value!ValuesAssumption
<1>2. Held[d] \cup {Value!ToJson(d.type, d.default)}
        \in {Held[e] \cup {Value!ToJson(e.type, e.default)} : e \in DOMAIN Held}
  OBVIOUS
<1> QED BY <1>1, <1>2 DEF Value!Registrable, Value!Jsons

LEMMA NumbersAre ==
  /\ \A text \in DOMAIN Numeric : Numeric[text] \in Int
  /\ \A json \in Value!Jsons : Value!Has(json, "int") => json.int \in Int
  /\ \A text \in DOMAIN Numeric : [str |-> text] \in Value!Jsons
  /\ NoRow \notin Value!Rows
<1>1. \A text \in DOMAIN Numeric : [str |-> text] \in Value!Jsons
  BY DEF Value!Jsons
<1>2. Value!ValuesAssumption
  BY StartupAssumption
<1> QED BY <1>1, <1>2 DEF Value!ValuesAssumption

\* A value of a bounded type is a number once it is parsed.
LEMMA ParsedNumber ==
  ASSUME NEW d \in DOMAIN Held, NEW json \in Value!Jsons,
         Value!Bounded(d.type), Value!Shaped(d.type, json)
  PROVE  /\ Value!Parse(d.type, json) # Value!Null
         /\ DOMAIN Value!Parse(d.type, json) = {"int"}
         /\ Value!Parse(d.type, json).int \in Int
         /\ d.type.name = "decimal" => /\ json.str \in DOMAIN Numeric
                                       /\ Value!Parse(d.type, json) = [int |-> Numeric[json.str]]
         /\ d.type.name # "decimal" => Value!Parse(d.type, json) = json
<1>1. CASE d.type.name = "int"
  <2>1. Value!Has(json, "int") /\ Value!Parse(d.type, json) = json
    BY <1>1 DEF Value!Shaped, Value!Parse
  <2>2. DOMAIN Value!Null = {"none"}
    BY DEF Value!Null
  <2> QED BY <1>1, <2>1, <2>2, NumbersAre DEF Value!Has
<1>2. CASE d.type.name = "decimal"
  <2>1. json.str \in DOMAIN Numeric /\ Value!Parse(d.type, json) = [int |-> Numeric[json.str]]
    BY <1>2 DEF Value!Shaped, Value!Parse
  <2>2. DOMAIN Value!Null = {"none"}
    BY DEF Value!Null
  <2> QED BY <1>2, <2>1, <2>2, NumbersAre
<1> QED BY <1>1, <1>2 DEF Value!Bounded

\* The bounds of a declaration admit a value.
LEMMA BoundsInOrder ==
  ASSUME NEW d \in DOMAIN Held, Value!Bounded(d.type)
  PROVE  d.type.min \in Int /\ d.type.max \in Int /\ d.type.min <= d.type.max
<1>1. /\ d.type.min \in Int /\ d.type.max \in Int
      /\ d.default = Value!Null => d.type.min <= d.type.max
      /\ Value!Coerces(d, Value!ToJson(d.type, d.default))
  BY Declared DEF Value!Registrable
<1>2. CASE d.default # Value!Null
  <2> DEFINE json == Value!ToJson(d.type, d.default)
  <2>1. json # Value!Null
    <3>1. DOMAIN Value!Null = {"none"}
      BY DEF Value!Null
    <3>2. CASE d.type.name = "decimal"
      BY <1>2, <3>1, <3>2 DEF Value!ToJson
    <3>3. CASE d.type.name # "decimal"
      BY <1>2, <3>3 DEF Value!ToJson
    <3> QED BY <3>2, <3>3
  <2>2. Value!Shaped(d.type, json) /\ Value!InBounds(d.type, Value!Parse(d.type, json))
    BY <1>1, <2>1 DEF Value!Coerces
  <2>3. Value!Parse(d.type, json).int \in Int
    BY <2>2, Declared, ParsedNumber
  <2> HIDE DEF json
  <2>4. /\ d.type.min <= Value!Parse(d.type, json).int
        /\ Value!Parse(d.type, json).int <= d.type.max
    BY <2>2 DEF Value!InBounds
  <2> QED BY <1>1, <2>3, <2>4
<1> QED BY <1>1, <1>2

\* Whatever is readable reads as a value within the bounds, or as none where none is one.
LEMMA ReadWithinBounds ==
  ASSUME NEW d \in DOMAIN Held, NEW json \in Value!Jsons, Value!Readable(d, json)
  PROVE  LET v == Value!ReadAs(d, json)
         IN  IF v = Value!Null THEN d.nullable ELSE Value!InBounds(d.type, v)
<1>1. CASE json = Value!Null
  BY <1>1 DEF Value!Readable, Value!ReadAs
<1>2. CASE json # Value!Null /\ ~Value!Bounded(d.type)
  <2>1. Value!ReadAs(d, json) = json
    BY <1>2 DEF Value!ReadAs, Value!Clamp, Value!Parse, Value!Bounded
  <2> QED BY <1>2, <2>1 DEF Value!InBounds
<1>3. CASE json # Value!Null /\ Value!Bounded(d.type)
  <2> DEFINE n == Value!Parse(d.type, json)
  <2>1. Value!Shaped(d.type, json)
    BY <1>3 DEF Value!Readable
  <2>2. n # Value!Null /\ n.int \in Int
    BY <1>3, <2>1, ParsedNumber
  <2>3. Value!ReadAs(d, json) = Value!Clamp(d.type, n)
    BY <1>3 DEF Value!ReadAs
  <2> HIDE DEF n
  <2>4. /\ d.type.min \in Int /\ d.type.max \in Int /\ d.type.min <= d.type.max
    BY <1>3, BoundsInOrder
  <2>5. \A i : [int |-> i] # Value!Null
    BY DEF Value!Null
  <2>6. /\ Value!Clamp(d.type, n) # Value!Null
        /\ d.type.min <= Value!Clamp(d.type, n).int
        /\ Value!Clamp(d.type, n).int <= d.type.max
    BY <1>3, <2>2, <2>4, <2>5 DEF Value!Clamp
  <2> QED BY <2>3, <2>6 DEF Value!InBounds
<1> QED BY <1>1, <1>2, <1>3

\* A value that a write accepts is stored as one that reads as the same.
LEMMA WritesReadBack ==
  ASSUME NEW d \in DOMAIN Held, NEW json \in Value!Jsons, json # Value!Null,
         Value!Coerces(d, json)
  PROVE  LET stored == Value!ToJson(d.type, Value!Parse(d.type, json))
         IN  /\ stored \in Value!Jsons /\ Value!Readable(d, stored)
             /\ Value!ReadAs(d, stored) = Value!Parse(d.type, json)
<1> DEFINE stored == Value!ToJson(d.type, Value!Parse(d.type, json))
<1>1. Value!Shaped(d.type, json) /\ Value!InBounds(d.type, Value!Parse(d.type, json))
  BY DEF Value!Coerces
<1>2. CASE d.type.name = "decimal"
  <2>1. /\ json.str \in DOMAIN Numeric
        /\ Value!Parse(d.type, json) = [int |-> Numeric[json.str]]
        /\ Value!Parse(d.type, json) # Value!Null
    BY <1>1, <1>2, ParsedNumber DEF Value!Bounded
  <2>2. PICK text \in DOMAIN Numeric :
          Numeric[text] = Numeric[json.str] /\ stored = [str |-> text]
    <3>1. stored = [str |-> CHOOSE text \in DOMAIN Numeric : Numeric[text] = Numeric[json.str]]
      BY <1>2, <2>1 DEF Value!ToJson
    <3>2. \E text \in DOMAIN Numeric : Numeric[text] = Numeric[json.str]
      BY <2>1
    <3> QED BY <3>1, <3>2
  <2> HIDE DEF stored
  <2>3. stored # Value!Null /\ stored.str = text /\ DOMAIN stored = {"str"}
    BY <2>2 DEF Value!Null
  <2>4. stored \in Value!Jsons
    BY <2>2, NumbersAre
  <2>5. Value!Shaped(d.type, stored) /\ Value!Parse(d.type, stored) = Value!Parse(d.type, json)
    BY <1>2, <2>1, <2>2, <2>3 DEF Value!Shaped, Value!Parse, Value!Has
  <2>6. Value!Clamp(d.type, Value!Parse(d.type, json)) = Value!Parse(d.type, json)
    <3>1. d.type.min \in Int /\ d.type.max \in Int /\ Value!Parse(d.type, json).int \in Int
      BY <1>1, <1>2, ParsedNumber, BoundsInOrder DEF Value!Bounded
    <3>2. /\ d.type.min <= Value!Parse(d.type, json).int
          /\ Value!Parse(d.type, json).int <= d.type.max
      BY <1>1, <1>2 DEF Value!InBounds, Value!Bounded
    <3> QED BY <3>1, <3>2 DEF Value!Clamp
  <2> QED BY <2>3, <2>4, <2>5, <2>6 DEF Value!Readable, Value!ReadAs, stored
<1>3. CASE d.type.name # "decimal"
  <2>1. stored = json /\ Value!Parse(d.type, json) = json
    BY <1>3 DEF Value!ToJson, Value!Parse
  <2>2. Value!Clamp(d.type, json) = json
    <3>1. CASE ~Value!Bounded(d.type)
      BY <3>1 DEF Value!Clamp
    <3>2. CASE Value!Bounded(d.type)
      <4>1. d.type.min \in Int /\ d.type.max \in Int /\ json.int \in Int
        BY <1>1, <2>1, <3>2, ParsedNumber, BoundsInOrder
      <4>2. d.type.min <= json.int /\ json.int <= d.type.max
        BY <1>1, <2>1, <3>2 DEF Value!InBounds
      <4> QED BY <4>1, <4>2 DEF Value!Clamp
    <3> QED BY <3>1, <3>2
  <2> HIDE DEF stored
  <2> QED BY <1>1, <2>1, <2>2 DEF Value!Readable, Value!ReadAs, stored
<1> QED BY <1>2, <1>3

LEMMA WrittenIsRead ==
  ASSUME setting \in DOMAIN Held PROVE Value!WrittenIsRead
<1> SUFFICES ASSUME NEW json \in Held[setting], Value!Coerces(setting, json)
             PROVE  LET row == Value!Stored([json |-> json, locked |-> FALSE])
                    IN  /\ Value!Readable(setting, row.json)
                        /\ Value!ReadAs(setting, row.json) = IF json = Value!Null THEN Value!Null
                                                             ELSE Value!Parse(setting.type, json)
  BY DEF Value!WrittenIsRead
<1> DEFINE row == [json |-> json, locked |-> FALSE]
<1>1. json \in Value!Jsons
  BY Declared
<1>2. row # NoRow
  <2>1. row \in Value!Rows
    BY <1>1 DEF Value!Rows
  <2> QED BY <2>1, NumbersAre
<1>3. CASE json = Value!Null
  <2>1. Value!Stored(row).json = json
    BY <1>2, <1>3 DEF Value!Stored
  <2> QED BY <1>3, <2>1 DEF Value!Coerces, Value!Readable, Value!ReadAs
<1>4. CASE json # Value!Null
  <2>1. Value!Stored(row).json = Value!ToJson(setting.type, Value!Parse(setting.type, json))
    BY <1>2, <1>4 DEF Value!Stored
  <2> QED BY <1>1, <1>4, <2>1, WritesReadBack
<1> QED BY <1>3, <1>4

\* A write leaves a row of this release, at a scope of the setting.
LEMMA StoredRows ==
  ASSUME setting \in DOMAIN Held, NEW s, NEW row \in Value!RowsAt(s), Value!Accepted(s, row)
  PROVE  s \in setting.scopes /\ Value!Stored(row) \in RowOrNone
<1>1. s \in setting.scopes
  BY DEF Value!Accepted
<1>2. CASE row = NoRow
  BY <1>1, <1>2 DEF Value!Stored, RowOrNone
<1>3. CASE row # NoRow
  <2>1. row \in [json : Held[setting], locked : IF s = "platform" THEN BOOLEAN ELSE {FALSE}]
    BY <1>1, <1>3 DEF Value!RowsAt
  <2>2. /\ row.json \in Value!Jsons /\ row.locked \in BOOLEAN
        /\ row = [json |-> row.json, locked |-> row.locked]
    BY <2>1, Declared
  <2>3. Value!Coerces(setting, row.json)
    BY <1>3 DEF Value!Accepted
  <2>4. CASE row.json = Value!Null
    <3>1. Value!Stored(row) = [json |-> row.json, locked |-> row.locked]
      BY <1>3, <2>2, <2>4 DEF Value!Stored
    <3> QED BY <1>1, <2>2, <3>1 DEF RowOrNone, Value!Rows
  <2>5. CASE row.json # Value!Null
    <3>1. Value!Stored(row) = [json |-> Value!ToJson(setting.type, Value!Parse(setting.type, row.json)),
                               locked |-> row.locked]
      BY <1>3, <2>2, <2>5 DEF Value!Stored
    <3>2. Value!ToJson(setting.type, Value!Parse(setting.type, row.json)) \in Value!Jsons
      BY <2>2, <2>3, <2>5, WritesReadBack
    <3> QED BY <1>1, <2>2, <3>1, <3>2 DEF RowOrNone, Value!Rows
  <2> QED BY <2>4, <2>5
<1> QED BY <1>1, <1>2, <1>3

\* What can be looked up is a row.
LEMMA UsableRows ==
  ASSUME ValueTypes, NEW s \in setting.scopes
  PROVE  /\ Value!Visible(s) \in RowOrNone
         /\ Value!Usable(Value!Visible(s)) =>
              /\ Value!Visible(s) \in Value!Rows
              /\ Value!Readable(setting, Value!Visible(s).json)
<1>1. Value!Visible(s) \in RowOrNone
  BY DEF ValueTypes, Value!Visible
<1> QED BY <1>1 DEF Value!Usable, RowOrNone

LEMMA DefaultIsRead == ASSUME setting \in DOMAIN Held PROVE ReadFrom(Value!Default)
<1> DEFINE row == [json |-> Value!ToJson(setting.type, setting.default), locked |-> FALSE]
<1>1. row \in Value!Rows
  BY Declared DEF Value!Rows
<1>2. Value!Readable(setting, row.json)
  BY Declared DEF Value!Registrable, Value!Coerces, Value!Readable
<1>3. Value!Default = Value!Answer(row, "default")
  BY DEF Value!Default
<1> HIDE DEF row
<1> QED BY <1>1, <1>2, <1>3 DEF ReadFrom

-----------------------------------------------------------------------------
(* The order of the scopes *)

LEMMA UsableAreSteps == \A c : Value!UsableBy(c) \subseteq Value!Steps(c)
BY DEF Value!UsableBy, Value!Steps

-----------------------------------------------------------------------------
(* Steps *)

LEMMA ValuesStart == Value!Init => ValuesInv
<1> SUFFICES ASSUME Value!Init PROVE ValuesInv
  OBVIOUS
<1>1. PICK u \in Value!RowsAt("user"), t \in Value!RowsAt("tenant"), p \in Value!RowsAt("platform") :
        scoped = [user |-> u, tenant |-> t, platform |-> p]
  BY DEF Value!Init
<1>2. /\ setting \in DOMAIN Held /\ draft = NoRow /\ reading = NoRow
      /\ snapshot = [c \in Value!Callers |-> NoRow] /\ ceiling = [c \in Value!Callers |-> FALSE]
  BY DEF Value!Init, Value!Unread
<1>3. ASSUME NEW s \in setting.scopes, NEW row \in Value!RowsAt(s) PROVE row \in RowOrNone
  <2>1. row = NoRow \/ row \in [json : Held[setting], locked : BOOLEAN]
    BY <1>3 DEF Value!RowsAt
  <2> QED BY <1>2, <2>1, Declared DEF RowOrNone, Value!Rows
<1>4. ValueTypes
  <2>1. \A s \in setting.scopes : s \in Value!Scopes
    BY <1>2, Declared
  <2>2. \A s \in setting.scopes : scoped[s] \in RowOrNone
    BY <1>1, <1>3, <2>1 DEF Value!Scopes
  <2> QED BY <1>1, <1>2, <2>2 DEF ValueTypes, Value!Scopes
<1> QED
  BY <1>2, <1>4 DEF ValuesInv, AnswersAreRead, ReadGoesOn, Value!WorksWithWhatIsSet,
                    Value!LocksHold, Value!OwnValuesArePrivate, Value!Callers

\* What others write changes no answer, and what was locked it unlocks or leaves alone.
LEMMA OthersWrite ==
  ASSUME ValuesInv, NEW s \in Value!Scopes, NEW row \in Value!RowsAt(s), Value!Write(s, row)
  PROVE  ValuesInv'
<1> USE DEF ValuesInv
<1>1. /\ scoped' = [scoped EXCEPT ![s] = Value!Stored(row)]
      /\ quiet' = FALSE /\ ceiling' = Value!CeilingAfter(s)
      /\ UNCHANGED <<setting, draft, snapshot, reading>>
  BY DEF Value!Write
<1>2. s \in setting.scopes /\ Value!Stored(row) \in RowOrNone /\ setting \in DOMAIN Held
  BY StoredRows DEF Value!Write, Value!Changes, ValueTypes
<1>3. /\ DOMAIN ceiling' = Value!Callers /\ \A c \in Value!Callers : ceiling'[c] => ceiling[c]
      /\ s = "platform" /\ reading # NoRow => ~ceiling'[reading.caller]
  BY <1>1 DEF Value!CeilingAfter, ValueTypes
<1>4. ValueTypes'
  <2>1. DOMAIN scoped' = Value!Scopes /\ \A x \in setting.scopes : scoped'[x] \in RowOrNone
    BY <1>1, <1>2 DEF ValueTypes
  <2> QED BY <1>1, <1>3, <2>1 DEF ValueTypes
<1>5. AnswersAreRead' /\ Value!OwnValuesArePrivate'
  BY <1>1 DEF AnswersAreRead, ReadFrom, Value!Answer, Value!ReadAs, Value!Readable,
              Value!OwnValuesArePrivate
<1>6. Value!WorksWithWhatIsSet' /\ Value!LocksHold'
  BY <1>1, <1>3 DEF Value!WorksWithWhatIsSet, Value!LocksHold
<1>7. ReadGoesOn'
  <2> SUFFICES ASSUME reading # NoRow
               PROVE  /\ reading.left \subseteq Value!Steps(reading.caller)
                      /\ reading.platform # NoRow => Value!Readable(setting, reading.platform.json)
                      /\ LockIsAhead'
    BY <1>1 DEF ReadGoesOn, Value!Steps
  <2>1. CASE s = "platform"
    BY <1>1, <1>3, <2>1 DEF ReadGoesOn, LockIsAhead
  <2>2. CASE s # "platform"
    <3>1. Value!Visible("platform")' = Value!Visible("platform")
      BY <1>1, <2>2 DEF Value!Visible, ValueTypes
    <3>2. ceiling'[reading.caller] => ceiling[reading.caller]
      BY <1>3 DEF ValueTypes
    <3> QED BY <1>1, <3>1, <3>2 DEF ReadGoesOn, LockIsAhead, Value!Usable
  <2> QED BY <2>1, <2>2
<1> QED BY <1>4, <1>5, <1>6, <1>7

\* A request that remembers nothing, in the middle of no read, owes nothing.
LEMMA NothingRemembered ==
  ASSUME ValueTypes', snapshot' = Value!Unread, reading' = NoRow
  PROVE  ValuesInv'
BY DEF ValuesInv, AnswersAreRead, ReadGoesOn, Value!WorksWithWhatIsSet, Value!LocksHold,
       Value!OwnValuesArePrivate, Value!Unread, Value!Callers

\* The request's own writes
LEMMA OwnWrites ==
  ASSUME ValuesInv,
         \/ \E s \in Value!Scopes : \E row \in Value!RowsAt(s) : Value!WriteOwn(s, row)
         \/ Value!Commit \/ Value!Rollback \/ Value!NextRequest
  PROVE  ValuesInv'
<1> USE DEF ValuesInv
<1>1. ASSUME NEW s \in Value!Scopes, NEW row \in Value!RowsAt(s), Value!WriteOwn(s, row)
      PROVE  ValuesInv'
  <2>1. s \in setting.scopes /\ Value!Stored(row) \in RowOrNone
    BY <1>1, StoredRows DEF Value!WriteOwn, Value!Changes, ValueTypes
  <2>2. /\ draft' = [scope |-> s, row |-> Value!Stored(row)] /\ snapshot' = Value!Unread
        /\ reading' = NoRow /\ UNCHANGED <<setting, scoped, ceiling>>
    BY <1>1 DEF Value!WriteOwn
  <2>3. ValueTypes'
    BY <2>1, <2>2 DEF ValueTypes, Value!Unread
  <2> QED BY <2>2, <2>3, NothingRemembered
<1>2. CASE Value!NextRequest
  <2>1. /\ snapshot' = Value!Unread
        /\ reading' = NoRow /\ UNCHANGED <<setting, scoped, draft, ceiling>>
    BY <1>2 DEF Value!NextRequest
  <2>2. ValueTypes'
    BY <2>1 DEF ValueTypes, Value!Unread
  <2> QED BY <2>1, <2>2, NothingRemembered
<1>3. ASSUME reading = NoRow, UNCHANGED <<setting, snapshot, reading, ceiling>>, ValueTypes',
             Value!WorksWithWhatIsSet'
      PROVE  ValuesInv'
  BY <1>3 DEF AnswersAreRead, ReadGoesOn, ReadFrom, Value!Answer, Value!ReadAs, Value!Readable,
              Value!LocksHold, Value!OwnValuesArePrivate
<1>4. CASE Value!Rollback
  <2>1. /\ reading = NoRow /\ draft' = NoRow /\ quiet' = FALSE
        /\ UNCHANGED <<setting, scoped, snapshot, reading, ceiling>>
    BY <1>4 DEF Value!Rollback
  <2> QED BY <1>3, <2>1 DEF ValueTypes, Value!WorksWithWhatIsSet
<1>5. CASE Value!Commit
  <2>1. /\ draft # NoRow /\ reading = NoRow /\ draft' = NoRow
        /\ scoped' = [scoped EXCEPT ![draft.scope] = draft.row]
        /\ UNCHANGED <<setting, snapshot, reading, quiet, ceiling>>
    BY <1>5 DEF Value!Commit
  <2>2. draft.scope \in setting.scopes /\ draft.row \in RowOrNone
    BY <2>1 DEF ValueTypes
  <2>3. ValueTypes'
    BY <2>1, <2>2 DEF ValueTypes
  <2>4. \A s \in Value!Scopes : Value!Visible(s)' = Value!Visible(s)
    BY <2>1 DEF Value!Visible, ValueTypes
  <2>5. \A c \in Value!Callers : Value!UsableBy(c)' = Value!UsableBy(c)
    BY <2>1, <2>4, Declared DEF Value!UsableBy, Value!Usable, ValueTypes
  <2>6. \A s \in Value!Scopes : Value!Rank(s)' = Value!Rank(s)
    BY <2>4 DEF Value!Rank, Value!Scopes
  <2>7. \A c \in Value!Callers : Value!UsableBy(c) \subseteq Value!Scopes
    BY Declared DEF Value!UsableBy, ValueTypes
  <2>8. \A c \in Value!Callers : \A a : Value!Effective(c, a) => Value!Effective(c, a)'
    <3> TAKE c \in Value!Callers
    <3> TAKE a
    <3>1. PICK U \in SUBSET Value!Scopes : U = Value!UsableBy(c) /\ U = Value!UsableBy(c)'
      BY <2>5, <2>7
    <3>2. ASSUME NEW s \in U, \A t \in U : Value!Rank(s) <= Value!Rank(t),
                 a = Value!Answer(Value!Visible(s), s)
          PROVE  /\ \A t \in U : Value!Rank(s)' <= Value!Rank(t)'
                 /\ a = Value!Answer(Value!Visible(s), s)'
      BY <2>1, <2>4, <2>6, <3>2 DEF Value!Answer, Value!ReadAs
    <3> QED BY <2>1, <3>1, <3>2 DEF Value!Effective, Value!Default, Value!Answer, Value!ReadAs
  <2> QED BY <1>3, <2>1, <2>3, <2>8 DEF Value!WorksWithWhatIsSet
<1> QED BY <1>1, <1>2, <1>4, <1>5

\* A read begins: all is ahead of it.
LEMMA ReadBegins ==
  ASSUME ValuesInv, NEW c \in Value!Callers, Value!Resolve(c) PROVE ValuesInv'
<1> USE DEF ValuesInv
<1>1. /\ reading = NoRow /\ snapshot[c] = NoRow
      /\ reading' = [caller |-> c, left |-> Value!Steps(c), platform |-> NoRow]
      /\ ceiling' = [ceiling EXCEPT ![c] = /\ "platform" \in setting.scopes
                                           /\ Value!Usable(Value!Visible("platform"))
                                           /\ Value!Visible("platform").locked]
      /\ UNCHANGED <<setting, scoped, draft, snapshot, quiet>>
  BY DEF Value!Resolve, Value!MemoKey
<1>2. /\ reading'.caller = c /\ reading'.left = Value!Steps(c) /\ reading'.platform = NoRow
      /\ reading' \in [caller : Value!Callers, left : SUBSET setting.scopes, platform : RowOrNone]
  BY <1>1 DEF Value!Steps, RowOrNone
<1>3. ValueTypes'
  BY <1>1, <1>2 DEF ValueTypes
<1>4. AnswersAreRead' /\ Value!OwnValuesArePrivate'
  BY <1>1 DEF AnswersAreRead, ReadFrom, Value!Answer, Value!ReadAs, Value!Readable,
              Value!OwnValuesArePrivate
<1>5. Value!LocksHold'
  BY <1>1 DEF Value!LocksHold, ValueTypes
<1>6. Value!WorksWithWhatIsSet'
  <2>1. \A b, a : Value!Effective(b, a)' <=> Value!Effective(b, a)
    BY <1>1 DEF Value!Effective, Value!UsableBy, Value!Usable, Value!Visible, Value!Rank,
                Value!Default, Value!Answer, Value!ReadAs
  <2> QED BY <1>1, <2>1 DEF Value!WorksWithWhatIsSet
<1>7. ReadGoesOn'
  <2>1. LockIsAhead'
    <3>1. ceiling'[c] => /\ "platform" \in Value!Steps(c)
                         /\ Value!Usable(Value!Visible("platform")) /\ Value!Visible("platform").locked
      BY <1>1 DEF ValueTypes, Value!Steps
    <3> QED BY <1>1, <1>2, <3>1 DEF LockIsAhead, Value!Usable, Value!Visible
  <2>2. SeesEachScope'
    <3>1. Seen' = {}
      BY <1>1, <1>2 DEF Seen, Value!Steps
    <3> QED BY <1>2, <3>1 DEF SeesEachScope
  <2> QED BY <1>1, <1>2, <2>1, <2>2 DEF ReadGoesOn, Value!Steps
<1> QED BY <1>3, <1>4, <1>5, <1>6, <1>7

\* The scope to look up next: the platform if it is ahead, and then the user.
LEMMA NextInTurn ==
  ASSUME ValueTypes, NEW s \in Value!Scopes, Value!IsNext(s)
  PROVE  /\ reading # NoRow /\ s \in reading.left /\ s \in setting.scopes
         /\ "platform" \in reading.left => s = "platform"
         /\ s = "tenant" => "user" \notin reading.left
         /\ \A t \in reading.left \ {s} : Value!Turn[s] < Value!Turn[t]
<1>1. /\ reading # NoRow /\ s \in reading.left
      /\ \A t \in reading.left : Value!Turn[s] <= Value!Turn[t]
  BY DEF Value!IsNext
<1>2. \A t \in reading.left : t \in setting.scopes /\ t \in {"user", "tenant", "platform"}
  BY <1>1, Declared DEF ValueTypes, Value!Scopes
<1> QED BY <1>1, <1>2 DEF Value!Turn

\* An answer that is in order ends the read.
LEMMA AnswerReturned ==
  ASSUME ValuesInv, reading # NoRow, NEW answer, Value!Return(answer),
         ReadFrom(answer),
         ceiling[reading.caller] => answer.source = "platform",
         reading.caller = "nobody" => answer.source \in {"platform", "default"},
         quiet => Value!Effective(reading.caller, answer)
  PROVE  ValuesInv'
<1> USE DEF ValuesInv
<1>1. /\ reading' = NoRow /\ snapshot' = [snapshot EXCEPT ![reading.caller] = answer]
      /\ UNCHANGED <<setting, scoped, draft, quiet, ceiling>>
      /\ reading.caller \in Value!Callers
  BY DEF Value!Return, Value!MemoKey, ValueTypes
<1>2. \A c \in Value!Callers : snapshot'[c] = IF c = reading.caller THEN answer ELSE snapshot[c]
  BY <1>1 DEF ValueTypes
<1>3. ValueTypes'
  BY <1>1 DEF ValueTypes
<1>4. AnswersAreRead'
  <2>1. \A a : ReadFrom(a)' <=> ReadFrom(a)
    BY <1>1 DEF ReadFrom, Value!Answer, Value!ReadAs, Value!Readable
  <2> QED BY <1>2, <2>1 DEF AnswersAreRead
<1>5. Value!LocksHold'
  BY <1>1, <1>2 DEF Value!LocksHold
<1>6. Value!OwnValuesArePrivate'
  BY <1>1, <1>2 DEF Value!OwnValuesArePrivate, Value!Callers
<1>7. Value!WorksWithWhatIsSet'
  <2>1. \A c, a : Value!Effective(c, a)' <=> Value!Effective(c, a)
    BY <1>1 DEF Value!Effective, Value!UsableBy, Value!Usable, Value!Visible, Value!Rank,
                Value!Default, Value!Answer, Value!ReadAs
  <2> QED BY <1>1, <1>2, <2>1 DEF Value!WorksWithWhatIsSet
<1>8. ReadGoesOn'
  BY <1>1 DEF ReadGoesOn
<1> QED BY <1>3, <1>4, <1>5, <1>6, <1>7, <1>8

LEMMA ReadEnds ==
  ASSUME ValuesInv, Value!Finish PROVE ValuesInv'
<1> USE DEF ValuesInv
<1>1. reading # NoRow /\ reading.left = {}
  BY DEF Value!Finish
<1>2. reading.platform \in RowOrNone /\ ReadGoesOn /\ setting \in DOMAIN Held
  BY <1>1 DEF ValueTypes
<1> DEFINE c == reading.caller
           answer == IF reading.platform = NoRow THEN Value!Default
                     ELSE Value!Answer(reading.platform, "platform")
<1>3. ReadFrom(answer) /\ answer.source \in {"platform", "default"}
  <2>1. CASE reading.platform = NoRow
    BY <1>2, <2>1, DefaultIsRead DEF Value!Default, Value!Answer
  <2>2. CASE reading.platform # NoRow
    <3>1. reading.platform \in Value!Rows /\ Value!Readable(setting, reading.platform.json)
      BY <1>1, <1>2, <2>2 DEF ReadGoesOn, RowOrNone
    <3> QED BY <2>2, <3>1 DEF ReadFrom, Value!Answer, Value!Scopes
  <2> QED BY <2>1, <2>2
<1>4. ~ceiling[c]
  BY <1>1 DEF ReadGoesOn, LockIsAhead
<1>5. ASSUME quiet PROVE Value!Effective(c, answer)
  <2>1. SeesEachScope /\ Seen = Value!Steps(c)
    BY <1>1, <1>5 DEF ReadGoesOn, Seen
  <2>2. Value!UsableBy(c) \subseteq {"platform"}
    BY <2>1, UsableAreSteps DEF SeesEachScope, Value!UsableBy
  <2>3. CASE "platform" \in Value!UsableBy(c)
    <3>1. reading.platform = Value!Visible("platform") /\ Value!Usable(Value!Visible("platform"))
      BY <2>1, <2>3, UsableAreSteps DEF SeesEachScope, Value!UsableBy
    <3>2. answer = Value!Answer(Value!Visible("platform"), "platform")
      BY <3>1 DEF Value!Usable
    <3>3. Value!Rank("platform") <= Value!Rank("platform")
      BY DEF Value!Rank, Value!Order
    <3> QED BY <2>2, <2>3, <3>2, <3>3 DEF Value!Effective
  <2>4. CASE "platform" \notin Value!UsableBy(c)
    <3>1. Value!UsableBy(c) = {}
      BY <2>2, <2>4
    <3>2. ~("platform" \in Seen /\ Value!Usable(Value!Visible("platform")))
      BY <2>1, <2>4 DEF Value!UsableBy, Value!Steps
    <3>3. reading.platform = NoRow
      BY <2>1, <3>2 DEF SeesEachScope
    <3> QED BY <3>1, <3>3 DEF Value!Effective
  <2> QED BY <2>3, <2>4
<1>6. Value!Return(answer)
  BY DEF Value!Finish
<1> HIDE DEF answer
<1> QED BY <1>1, <1>3, <1>4, <1>5, <1>6, AnswerReturned

\* A scope that gave no answer is behind the read, which goes on.
LEMMA ScopeSkipped ==
  ASSUME ValuesInv, NEW s \in Value!Scopes, Value!IsNext(s),
         NEW row \in RowOrNone, row # NoRow => Value!Readable(setting, row.json),
         Value!Skip(s, row),
         DOMAIN ceiling' = Value!Callers, \A c \in Value!Callers : ceiling'[c] => ceiling[c],
         s = "platform" => ~ceiling'[reading.caller],
         quiet' => quiet, quiet' => SeesEachScope'
  PROVE  ValuesInv'
<1> USE DEF ValuesInv
<1>1. /\ reading # NoRow /\ s \in reading.left
      /\ "platform" \in reading.left => s = "platform"
  BY NextInTurn
<1>2. /\ reading \in [caller : Value!Callers, left : SUBSET setting.scopes, platform : RowOrNone]
      /\ reading.left \subseteq Value!Steps(reading.caller) /\ LockIsAhead
  BY <1>1 DEF ValueTypes, ReadGoesOn
<1>3. /\ reading' = [reading EXCEPT !.left = @ \ {s}, !.platform = row]
      /\ UNCHANGED <<setting, scoped, draft, snapshot>>
  BY DEF Value!Skip
<1>4. /\ reading' \in [caller : Value!Callers, left : SUBSET setting.scopes, platform : RowOrNone]
      /\ reading'.caller = reading.caller /\ reading'.left = reading.left \ {s}
      /\ reading'.platform = row
  BY <1>2, <1>3
<1>5. ValueTypes'
  BY <1>3, <1>4 DEF ValueTypes, RowOrNone
<1>6. AnswersAreRead' /\ Value!OwnValuesArePrivate'
  BY <1>3 DEF AnswersAreRead, ReadFrom, Value!Answer, Value!ReadAs, Value!Readable,
              Value!OwnValuesArePrivate
<1>7. Value!LocksHold'
  BY <1>3 DEF Value!LocksHold
<1>8. Value!WorksWithWhatIsSet'
  <2>1. \A b, a : Value!Effective(b, a)' <=> Value!Effective(b, a)
    BY <1>3 DEF Value!Effective, Value!UsableBy, Value!Usable, Value!Visible, Value!Rank,
                Value!Default, Value!Answer, Value!ReadAs
  <2> QED BY <1>3, <2>1 DEF Value!WorksWithWhatIsSet
<1>9. ReadGoesOn'
  <2>1. ~ceiling'[reading.caller]
    BY <1>1, <1>2 DEF LockIsAhead
  <2>2. LockIsAhead'
    BY <1>4, <2>1 DEF LockIsAhead
  <2> QED BY <1>2, <1>3, <1>4, <2>2 DEF ReadGoesOn, Value!Steps, Value!Readable
<1> QED BY <1>5, <1>6, <1>7, <1>8, <1>9

\* The scope looked up has the answer.
LEMMA ScopeAnswers ==
  ASSUME ValuesInv, NEW s \in Value!Scopes, Value!LookUp(s),
         Value!Usable(Value!Visible(s)), Value!Visible(s).locked \/ s # "platform"
  PROVE  ValuesInv'
<1> USE DEF ValuesInv
<1> DEFINE c == reading.caller
           answer == Value!Answer(Value!Visible(s), s)
<1>1. Value!IsNext(s) /\ Value!Return(answer)
  BY DEF Value!LookUp
<1>2. /\ reading # NoRow /\ s \in reading.left /\ s \in setting.scopes
      /\ "platform" \in reading.left => s = "platform"
      /\ s = "tenant" => "user" \notin reading.left
      /\ \A t \in reading.left \ {s} : Value!Turn[s] < Value!Turn[t]
  BY <1>1, NextInTurn
<1>3. c \in Value!Callers /\ reading.left \subseteq Value!Steps(c) /\ LockIsAhead
  BY <1>2 DEF ValueTypes, ReadGoesOn
<1>4. ReadFrom(answer) /\ answer.source = s
  BY <1>2, UsableRows DEF ReadFrom, Value!Answer
<1>5. ceiling[c] => answer.source = "platform"
  BY <1>2, <1>3, <1>4 DEF LockIsAhead
<1>6. c = "nobody" => answer.source \in {"platform", "default"}
  BY <1>2, <1>3, <1>4 DEF Value!Steps
<1>7. ASSUME quiet PROVE Value!Effective(c, answer)
  <2>1. SeesEachScope
    BY <1>2, <1>7 DEF ReadGoesOn
  <2>2. s \in Value!UsableBy(c)
    BY <1>2, <1>3 DEF Value!UsableBy, Value!Steps, Value!Callers
  <2>3. ASSUME NEW t \in Value!UsableBy(c) PROVE Value!Rank(s) <= Value!Rank(t)
    <3>1. /\ t \in {"user", "tenant", "platform"} /\ Value!Usable(Value!Visible(t))
          /\ t \in Seen \/ t \in reading.left
      <4>1. t \in Value!Scopes
        BY <2>3, Declared DEF Value!UsableBy, ValueTypes
      <4>2. t \in Value!Steps(c)
        BY <2>3, UsableAreSteps
      <4> QED BY <2>3, <4>1, <4>2 DEF Value!Scopes, Value!UsableBy, Seen
    <3>2. CASE s = "platform"
      BY <3>1, <3>2 DEF Value!Rank, Value!Order
    <3>3. CASE s # "platform" /\ t = "platform"
      <4>1. ~Value!Visible("platform").locked
        BY <1>2, <2>1, <3>1, <3>3 DEF SeesEachScope
      <4> QED BY <3>3, <4>1 DEF Value!Rank, Value!Order, Value!Scopes
    <3>4. CASE s # "platform" /\ t # "platform"
      <4>1. t \in reading.left
        BY <2>1, <3>1, <3>4 DEF SeesEachScope
      <4> QED BY <1>2, <3>1, <3>4, <4>1 DEF Value!Rank, Value!Order, Value!Scopes
    <3> QED BY <3>2, <3>3, <3>4
  <2> QED BY <2>2, <2>3 DEF Value!Effective
<1> HIDE DEF answer
<1> QED BY <1>1, <1>2, <1>4, <1>5, <1>6, <1>7, AnswerReturned

\* The scope looked up has none.
LEMMA ScopeHasNone ==
  ASSUME ValuesInv, NEW s \in Value!Scopes, Value!LookUp(s),
         ~(Value!Usable(Value!Visible(s)) /\ (Value!Visible(s).locked \/ s # "platform"))
  PROVE  ValuesInv'
<1> USE DEF ValuesInv
<1> DEFINE row == Value!Visible(s)
           found == IF Value!Usable(row) THEN row ELSE reading.platform
<1>1. Value!IsNext(s) /\ Value!Skip(s, found) /\ UNCHANGED <<quiet, ceiling>>
  BY DEF Value!LookUp
<1>2. /\ reading # NoRow /\ s \in reading.left /\ s \in setting.scopes
      /\ "platform" \in reading.left => s = "platform"
      /\ \A t \in reading.left \ {s} : Value!Turn[s] < Value!Turn[t]
  BY <1>1, NextInTurn
<1>3. /\ reading \in [caller : Value!Callers, left : SUBSET setting.scopes, platform : RowOrNone]
      /\ reading.left \subseteq Value!Steps(reading.caller) /\ LockIsAhead
      /\ reading.platform # NoRow => Value!Readable(setting, reading.platform.json)
  BY <1>2 DEF ValueTypes, ReadGoesOn
<1>4. found \in RowOrNone /\ (found # NoRow => Value!Readable(setting, found.json))
  BY <1>2, <1>3, UsableRows
<1>5. s = "platform" => ~ceiling[reading.caller]
  BY <1>3 DEF LockIsAhead
<1>6. ASSUME quiet PROVE SeesEachScope'
  <2>1. SeesEachScope
    BY <1>2, <1>6 DEF ReadGoesOn
  <2>2. /\ reading' = [reading EXCEPT !.left = @ \ {s}, !.platform = found]
        /\ UNCHANGED <<setting, scoped, draft>>
    BY <1>1 DEF Value!Skip
  <2>3. /\ reading'.caller = reading.caller /\ reading'.left = reading.left \ {s}
        /\ reading'.platform = found
    BY <1>3, <2>2
  <2>4. Seen' = Seen \cup {s} /\ s \notin Seen
    BY <1>2, <1>3, <2>2, <2>3 DEF Seen, Value!Steps
  <2>5. \A t : (Value!Visible(t)' = Value!Visible(t)) /\ (Value!Usable(Value!Visible(t))' <=> Value!Usable(Value!Visible(t)))
    BY <2>2 DEF Value!Visible, Value!Usable
  <2>6. \A a \in Seen', b \in reading'.left : Value!Turn[a] < Value!Turn[b]
    BY <1>2, <2>1, <2>3, <2>4 DEF SeesEachScope
  <2>7. \A a \in Seen' \ {"platform"} : ~Value!Usable(Value!Visible(a))'
    BY <2>1, <2>4, <2>5 DEF SeesEachScope
  <2>8. IF "platform" \in Seen' /\ Value!Usable(Value!Visible("platform"))
        THEN found = Value!Visible("platform") /\ ~Value!Visible("platform").locked
        ELSE found = NoRow
    <3>1. CASE s = "platform"
      BY <2>1, <2>4, <3>1 DEF SeesEachScope
    <3>2. CASE s # "platform"
      <4>1. found = reading.platform
        BY <3>2
      <4> QED BY <2>1, <2>4, <3>2, <4>1 DEF SeesEachScope
    <3> QED BY <3>1, <3>2
  <2> HIDE DEF found
  <2> QED BY <2>3, <2>5, <2>6, <2>7, <2>8 DEF SeesEachScope, Value!Usable
<1> HIDE DEF found
<1> QED BY <1>1, <1>4, <1>5, <1>6, ScopeSkipped DEF ValueTypes

LEMMA LookUpFailed ==
  ASSUME ValuesInv, NEW s \in Value!Scopes, Value!LookUpFails(s) PROVE ValuesInv'
<1> USE DEF ValuesInv
<1>1. /\ Value!IsNext(s) /\ Value!Skip(s, reading.platform)
      /\ quiet' = FALSE /\ ceiling' = Value!CeilingAfter(s)
  BY DEF Value!LookUpFails
<1>2. reading # NoRow
  BY <1>1, NextInTurn
<1>3. /\ reading.platform \in RowOrNone
      /\ reading.platform # NoRow => Value!Readable(setting, reading.platform.json)
  BY <1>2 DEF ValueTypes, ReadGoesOn
<1>4. /\ DOMAIN ceiling' = Value!Callers /\ \A c \in Value!Callers : ceiling'[c] => ceiling[c]
      /\ s = "platform" => ~ceiling'[reading.caller]
  BY <1>1, <1>2 DEF Value!CeilingAfter, ValueTypes
<1> QED BY <1>1, <1>3, <1>4, ScopeSkipped

LEMMA ValuesSteps == ValuesInv /\ [Value!Next]_(Value!vars) => ValuesInv'
<1> SUFFICES ASSUME ValuesInv, [Value!Next]_(Value!vars) PROVE ValuesInv'
  OBVIOUS
<1>1. ASSUME NEW s \in Value!Scopes, NEW row \in Value!RowsAt(s), Value!Write(s, row)
      PROVE  ValuesInv'
  BY <1>1, OthersWrite
<1>2. ASSUME NEW s \in Value!Scopes, NEW row \in Value!RowsAt(s), Value!WriteOwn(s, row)
      PROVE  ValuesInv'
  BY <1>2, OwnWrites
<1>3. CASE Value!Commit \/ Value!Rollback \/ Value!NextRequest
  BY <1>3, OwnWrites
<1>4. ASSUME NEW c \in Value!Callers, Value!Resolve(c) PROVE ValuesInv'
  BY <1>4, ReadBegins
<1>5. ASSUME NEW s \in Value!Scopes, Value!LookUp(s) PROVE ValuesInv'
  BY <1>5, ScopeAnswers, ScopeHasNone
<1>6. ASSUME NEW s \in Value!Scopes, Value!LookUpFails(s) PROVE ValuesInv'
  BY <1>6, LookUpFailed
<1>7. CASE Value!Finish
  BY <1>7, ReadEnds
<1>8. CASE UNCHANGED Value!vars
  <2>1. UNCHANGED <<setting, scoped, draft, snapshot, reading, quiet, ceiling>>
    BY <1>8 DEF Value!vars
  <2>2. ValueTypes' /\ AnswersAreRead' /\ ReadGoesOn'
    <3>1. Seen' = Seen
      BY <2>1 DEF Seen, Value!Steps
    <3>2. SeesEachScope' <=> SeesEachScope
      BY <2>1, <3>1 DEF SeesEachScope, Value!Visible, Value!Usable
    <3> QED BY <2>1, <3>2 DEF ValuesInv, ValueTypes, AnswersAreRead, ReadGoesOn, LockIsAhead, ReadFrom,
              Value!Steps, Value!Visible, Value!Usable, Value!Answer, Value!ReadAs, Value!Readable
  <2>3. \A b, a : Value!Effective(b, a)' <=> Value!Effective(b, a)
    BY <2>1 DEF Value!Effective, Value!UsableBy, Value!Usable, Value!Visible, Value!Rank,
                Value!Default, Value!Answer, Value!ReadAs
  <2> QED BY <2>1, <2>2, <2>3 DEF ValuesInv, Value!WorksWithWhatIsSet, Value!LocksHold,
                                 Value!OwnValuesArePrivate
<1> QED BY <1>1, <1>2, <1>3, <1>4, <1>5, <1>6, <1>7, <1>8 DEF Value!Next

LEMMA ValuesAreAsDocumented == ValuesInv => Value!SettingsMeanWhatTheySay
<1> SUFFICES ASSUME ValuesInv PROVE Value!SettingsMeanWhatTheySay
  OBVIOUS
<1>1. setting \in DOMAIN Held
  BY DEF ValuesInv, ValueTypes
<1>2. Value!FloorsHold
  <2> SUFFICES ASSUME NEW c \in Value!Callers, snapshot[c] # NoRow
               PROVE  LET v == snapshot[c].value
                      IN  IF v = Value!Null THEN setting.nullable ELSE Value!InBounds(setting.type, v)
    BY DEF Value!FloorsHold
  <2>1. PICK row \in Value!Rows, source \in Value!Scopes \cup {"default"} :
          Value!Readable(setting, row.json) /\ snapshot[c] = Value!Answer(row, source)
    BY DEF ValuesInv, AnswersAreRead, ReadFrom
  <2>2. row.json \in Value!Jsons /\ snapshot[c].value = Value!ReadAs(setting, row.json)
    BY <2>1 DEF Value!Rows, Value!Answer
  <2> QED BY <1>1, <2>1, <2>2, ReadWithinBounds
<1> QED BY <1>1, <1>2, WrittenIsRead DEF ValuesInv, Value!SettingsMeanWhatTheySay

\* The inductive invariant of Resolution, for every declaration and every set of
\* values that rows may hold: it is what resolve_setting() has to know at each of its
\* lookups for its answer to be the documented one (core/settings_service.py).
THEOREM ValuesInductive == Value!Spec => []ValuesInv
BY ValuesStart, ValuesSteps, PTL DEF Value!Spec

\* A request works with the settings as documented: the order of the scopes, locks,
\* floors, privacy, and the round trip of what is written (core/settings_service.py).
THEOREM SettingsAsDocumented == MCSpec => []SettingsMeanWhatTheySay
<1> DEFINE Inv == focus = "values" => ValuesInv
<1>1. MCInit => Inv
  BY ValuesStart DEF MCInit
<1>2. Inv /\ [MCNext]_mcvars => Inv'
  <2> SUFFICES ASSUME Inv, [MCNext]_mcvars, focus' = "values" PROVE ValuesInv'
    OBVIOUS
  <2>1. focus = "values" /\ [Value!Next]_(Value!vars)
    BY DEF MCNext, mcvars, valuevars, Value!vars
  <2> QED BY <2>1, ValuesSteps
<1>3. Inv => SettingsMeanWhatTheySay
  BY ValuesAreAsDocumented DEF SettingsMeanWhatTheySay
<1> HIDE DEF Inv
<1> QED BY <1>1, <1>2, <1>3, PTL DEF MCSpec

-----------------------------------------------------------------------------
(* The monitor (JobHealth, Health)                                            *)

JobTypes ==
  /\ clock \in From..Until
  /\ running = {} \/ \E j \in Mon!Jobs : running = {j}
  /\ \A m \in queued : m.job \in Mon!Jobs /\ m.at \in From..clock
  /\ next \in [Mon!Jobs -> Int]
  /\ DOMAIN started = Mon!Jobs /\ \A j \in Mon!Jobs : started[j] = Never \/ started[j] \in From..clock
  /\ DOMAIN ended = Mon!Jobs
  /\ enabled \subseteq Mon!Jobs

\* Nothing starts after the worker has stopped.
StoppedMeansStopped ==
  IF "worker" \in up THEN down = Never
  ELSE down \in From..clock /\ \A j \in Mon!Jobs : started[j] = Never \/ started[j] <= down

\* Where a job is while nothing goes wrong: it runs in the slot in which it is due.
Expected(j) ==
  IF \E m \in queued : m.job = j THEN JobClocks[j].next[clock]
  ELSE IF started[j] = Never THEN Mon!FirstOf(j) ELSE JobClocks[j].next[started[j]]
AllIsWell ==
  calm =>
    /\ up = {"beat", "worker"} /\ enabled = Mon!Jobs
    /\ \A m \in queued : m.at = clock
    /\ \A j \in Mon!Jobs :
          ended[j] \notin {"failed", "dead"} /\ next[j] = Expected(j) /\ clock <= next[j]

JobsInv == JobTypes /\ StoppedMeansStopped /\ AllIsWell


\* What the schedules and the clock owe each other.
LEMMA Clocked ==
  /\ From \in Int /\ Until \in Int /\ From <= Until /\ StallThreshold \in Nat /\ Never \notin Int
  /\ Mon!Jobs = DOMAIN Specs
  /\ \A j \in Mon!Jobs :
       /\ Mon!Every(j) \in Nat \ {0} /\ JobClocks[j].expires \in Nat
       /\ \A now \in From..Until :
            JobClocks[j].next[now] \in Int /\ now < JobClocks[j].next[now]
       /\ IF Specs[j].schedule.cron
          THEN /\ \A now \in From..Until : JobClocks[j].last[now] \in Int
               /\ \A now \in From..Until : \A then \in From..now :
                    IF JobClocks[j].next[then] <= now
                    THEN JobClocks[j].next[then] <= JobClocks[j].last[now]
                    ELSE JobClocks[j].last[now] <= then
          ELSE \A now \in From..Until : JobClocks[j].next[now] = now + Mon!Every(j)
BY StartupAssumption DEF Mon!JobsAssumption, Mon!GoesByFirings, Mon!Jobs

\* A job first falls due within a period.
LEMMA FirstWithinPeriod ==
  ASSUME NEW j \in Mon!Jobs
  PROVE  /\ Mon!FirstOf(j) \in Int
         /\ From < Mon!FirstOf(j) /\ Mon!FirstOf(j) <= From + Mon!Every(j)
<1>1. From \in From..Until /\ From \in Int /\ Mon!Every(j) \in Nat \ {0}
  BY StartupAssumption DEF Mon!JobsAssumption
<1>2. CASE Specs[j].schedule.cron
  BY <1>1, <1>2, Clocked, StartupAssumption DEF Mon!JobsAssumption, Mon!FirstOf
<1>3. CASE ~Specs[j].schedule.cron
  <2>1. Specs[j].offset \in 0..(Mon!Every(j) - 1)
    BY <1>3, StartupAssumption DEF Mon!JobsAssumption
  <2> DEFINE e == Mon!Every(j)
  <2>2. e \in Nat \ {0} /\ Mon!FirstOf(j) = Mon!JitteredStart(e, Specs[j].offset, From)
    BY <1>1, <1>3 DEF Mon!FirstOf
  <2> HIDE DEF e
  <2>3. \A n \in Int, p \in Nat \ {0} : (n \div p) * p <= n /\ n < (n \div p) * p + p /\ (n \div p) * p \in Int
    OBVIOUS
  <2>4. PICK m \in Int : m = (From \div e) * e /\ m <= From /\ From < m + e
    BY <1>1, <2>2, <2>3
  <2>5. Specs[j].offset \in 0..(e - 1)
    BY <2>1 DEF e
  <2>6. Mon!FirstOf(j) = IF m + Specs[j].offset > From THEN m + Specs[j].offset ELSE m + Specs[j].offset + e
    BY <2>2, <2>4 DEF Mon!JitteredStart
  <2>7. /\ Mon!FirstOf(j) \in Int /\ From < Mon!FirstOf(j) /\ Mon!FirstOf(j) <= From + e
    BY <1>1, <2>2, <2>4, <2>5, <2>6
  <2> QED BY <2>7 DEF e
<1> QED BY <1>2, <1>3

-----------------------------------------------------------------------------
(* Beat, the worker and the operators *)

LEMMA JobsStart == Mon!Init => JobsInv
<1> SUFFICES ASSUME Mon!Init PROVE JobsInv
  OBVIOUS
<1>1. From \in From..Until /\ \A j \in Mon!Jobs : Mon!FirstOf(j) \in Int /\ From < Mon!FirstOf(j)
  <2>1. From \in From..Until
    BY Clocked
  <2> QED BY <2>1, FirstWithinPeriod
<1>2. JobTypes
  BY <1>1 DEF JobTypes, Mon!Init
<1>3. StoppedMeansStopped
  BY DEF StoppedMeansStopped, Mon!Init
<1>4. AllIsWell
  <2>1. \A j \in Mon!Jobs : next[j] = Expected(j)
    BY DEF Expected, Mon!Init
  <2>2. \A j \in Mon!Jobs : next[j] = Mon!FirstOf(j) /\ clock = From /\ clock \in Int
    BY Clocked DEF Mon!Init
  <2>3. \A j \in Mon!Jobs : ended[j] \notin {"failed", "dead"} /\ clock <= next[j]
    <3> SUFFICES ASSUME NEW j \in Mon!Jobs PROVE ended[j] \notin {"failed", "dead"} /\ clock <= next[j]
      OBVIOUS
    <3>1. ended[j] = ""
      BY DEF Mon!Init
    <3>2. From < Mon!FirstOf(j) /\ Mon!FirstOf(j) \in Int /\ From \in Int
      BY <1>1, Clocked
    <3>3. clock <= next[j]
      BY <2>2, <3>2
    <3> QED BY <3>1, <3>3
  <2>4. up = {"beat", "worker"} /\ enabled = Mon!Jobs /\ queued = {}
    BY DEF Mon!Init
  <2> QED BY <2>1, <2>3, <2>4 DEF AllIsWell
<1> QED BY <1>2, <1>3, <1>4 DEF JobsInv

\* A step that is an upset leaves only the first two parts to show.
LEMMA Upsetting == ASSUME Mon!Upset PROVE AllIsWell'
BY DEF Mon!Upset, AllIsWell

LEMMA Published ==
  ASSUME JobsInv, NEW j \in Mon!Jobs, Mon!Publish(j) PROVE JobsInv'
<1> USE DEF JobsInv
<1>1. /\ next' = [next EXCEPT ![j] = JobClocks[j].next[clock]]
      /\ queued' = queued \cup {[job |-> j, at |-> clock]}
      /\ UNCHANGED <<clock, up, enabled, running, started, ended, upsets, down, calm>>
      /\ next[j] <= clock
  BY DEF Mon!Publish, Mon!Due
<1>2. clock \in From..Until /\ clock \in From..clock
      /\ JobClocks[j].next[clock] \in Int /\ clock < JobClocks[j].next[clock]
  BY Clocked DEF JobTypes
<1>3. next' \in [Mon!Jobs -> Int]
  BY <1>1, <1>2 DEF JobTypes
<1>4. JobTypes'
  BY <1>1, <1>2, <1>3 DEF JobTypes
<1>5. StoppedMeansStopped'
  BY <1>1 DEF StoppedMeansStopped
<1>6. AllIsWell'
  <2> SUFFICES ASSUME calm
               PROVE  /\ \A m \in queued' : m.at = clock
                      /\ \A k \in Mon!Jobs : next'[k] = Expected(k)' /\ clock <= next'[k]
    BY <1>1 DEF AllIsWell
  <2>1. \A m \in queued' : m.at = clock
    BY <1>1 DEF AllIsWell
  <2>2. next'[j] = Expected(j)' /\ clock <= next'[j]
    <3>1. [job |-> j, at |-> clock] \in queued' /\ [job |-> j, at |-> clock].job = j
      BY <1>1
    <3>2. Expected(j)' = JobClocks[j].next[clock]
      BY <1>1, <3>1 DEF Expected
    <3>3. next'[j] = JobClocks[j].next[clock]
      BY <1>1 DEF JobTypes
    <3> QED BY <1>2, <3>2, <3>3, Clocked
  <2>3. ASSUME NEW k \in Mon!Jobs, k # j PROVE next'[k] = Expected(k)' /\ clock <= next'[k]
    <3>1. next'[k] = next[k] /\ next[k] = Expected(k) /\ clock <= next[k]
      BY <1>1, <2>3 DEF AllIsWell, JobTypes
    <3>2. (\E m \in queued' : m.job = k) <=> (\E m \in queued : m.job = k)
      BY <1>1, <2>3
    <3> QED BY <1>1, <3>1, <3>2 DEF Expected
  <2> QED BY <2>1, <2>2, <2>3
<1> QED BY <1>4, <1>5, <1>6

LEMMA Taken ==
  ASSUME JobsInv, NEW q, Mon!Take(q) PROVE JobsInv'
<1> USE DEF JobsInv
<1>1. PICK m \in queued :
        /\ queued' = queued \ {m}
        /\ IF clock > m.at + JobClocks[m.job].expires
           THEN ended' = [ended EXCEPT ![m.job] = "revoked"] /\ UNCHANGED <<running, started>>
           ELSE /\ running' = {m.job}
                /\ started' = [started EXCEPT ![m.job] = clock]
                /\ UNCHANGED ended
  BY DEF Mon!Take, Mon!Oldest, Mon!Waiting, Mon!Expired
<1>2. "worker" \in up /\ running = {} /\ UNCHANGED <<clock, up, enabled, next, upsets, down, calm>>
  BY DEF Mon!Take
<1>3. m.job \in Mon!Jobs /\ clock \in From..Until /\ clock \in From..clock
  BY DEF JobTypes
<1>4. \A j \in Mon!Jobs : started'[j] = started[j] \/ (j = m.job /\ started'[j] = clock)
  BY <1>1, <1>3 DEF JobTypes
<1>5. DOMAIN started' = Mon!Jobs /\ DOMAIN ended' = Mon!Jobs
  BY <1>1 DEF JobTypes
<1>6. JobTypes'
  BY <1>1, <1>2, <1>3, <1>4, <1>5 DEF JobTypes
<1>7. StoppedMeansStopped'
  BY <1>2 DEF StoppedMeansStopped
<1>8. AllIsWell'
  <2> SUFFICES ASSUME calm
               PROVE  \A j \in Mon!Jobs :
                         ended'[j] \notin {"failed", "dead"} /\ next[j] = Expected(j)' /\ clock <= next[j]
    BY <1>1, <1>2 DEF AllIsWell
  <2>1. m.at = clock /\ \A n \in queued : n.at = clock
    BY DEF AllIsWell
  <2>2. /\ running' = {m.job} /\ started' = [started EXCEPT ![m.job] = clock] /\ ended' = ended
    <3>1. JobClocks[m.job].expires \in Nat /\ clock \in Int
      BY <1>3, Clocked
    <3>2. ~(clock > m.at + JobClocks[m.job].expires)
      BY <2>1, <3>1
    <3> QED BY <1>1, <3>2
  <2>3. ASSUME NEW j \in Mon!Jobs PROVE next[j] = Expected(j)'
    <3>1. next[j] = Expected(j)
      BY DEF AllIsWell
    <3>2. CASE j # m.job
      <4>1. (\E n \in queued' : n.job = j) <=> (\E n \in queued : n.job = j)
        BY <1>1, <3>2
      <4>2. started'[j] = started[j]
        BY <2>2, <3>2 DEF JobTypes
      <4> QED BY <1>2, <3>1, <4>1, <4>2 DEF Expected
    <3>3. CASE j = m.job
      <4>1. next[j] = JobClocks[j].next[clock]
        BY <3>1, <3>3 DEF Expected
      <4>2. started'[j] = clock /\ clock # Never
        BY <1>3, <2>2, <3>3, Clocked DEF JobTypes
      <4> QED BY <1>2, <4>1, <4>2 DEF Expected
    <3> QED BY <3>2, <3>3
  <2> QED BY <2>2, <2>3 DEF AllIsWell
<1> QED BY <1>6, <1>7, <1>8

LEMMA JobEnded ==
  ASSUME JobsInv, NEW j \in Mon!Jobs, Mon!Succeed(j) \/ Mon!Fail(j) PROVE JobsInv'
<1> USE DEF JobsInv
<1>1. /\ running' = {} /\ DOMAIN ended' = Mon!Jobs
      /\ UNCHANGED <<clock, up, enabled, next, queued, started, down>>
  BY DEF Mon!Succeed, Mon!Fail, JobTypes
<1>2. JobTypes' /\ StoppedMeansStopped'
  BY <1>1 DEF JobTypes, StoppedMeansStopped
<1>3. CASE Mon!Fail(j)
  BY <1>2, <1>3, Upsetting DEF Mon!Fail
<1>4. CASE Mon!Succeed(j)
  <2>1. \A k \in Mon!Jobs : ended'[k] = ended[k] \/ ended'[k] = "succeeded"
    BY <1>4 DEF Mon!Succeed, JobTypes
  <2>2. UNCHANGED calm /\ \A k \in Mon!Jobs : Expected(k)' = Expected(k)
    BY <1>1, <1>4 DEF Mon!Succeed, Expected
  <2>3. AllIsWell'
    BY <1>1, <2>1, <2>2 DEF AllIsWell
  <2> QED BY <1>2, <2>3
<1> QED BY <1>3, <1>4

LEMMA NotKnown ==
  ASSUME JobsInv, NEW q, Mon!Unknown(q) PROVE JobsInv'
<1>1. PICK m \in queued : queued' = queued \ {m} /\ ended' = [ended EXCEPT ![m.job] = "dead"]
  BY DEF Mon!Unknown, Mon!Oldest, Mon!Waiting
<1>2. UNCHANGED <<clock, up, enabled, next, running, started, down>>
  BY DEF Mon!Unknown
<1> QED BY <1>1, <1>2, Upsetting DEF Mon!Unknown, JobsInv, JobTypes, StoppedMeansStopped

LEMMA Stopped ==
  ASSUME JobsInv, NEW p \in {"beat", "worker"}, Mon!Stop(p) PROVE JobsInv'
<1> USE DEF JobsInv
<1>1. /\ up' = up \ {p} /\ down' = IF p = "worker" THEN clock ELSE down
      /\ running' = IF p = "worker" THEN {} ELSE running
      /\ UNCHANGED <<clock, enabled, next, queued, started, ended>>
  BY DEF Mon!Stop
<1>2. clock \in From..Until /\ From \in Int
  BY Clocked DEF JobTypes
<1>3. JobTypes'
  BY <1>1 DEF JobTypes
<1>4. StoppedMeansStopped'
  BY <1>1, <1>2 DEF StoppedMeansStopped, JobTypes
<1> QED BY <1>3, <1>4, Upsetting DEF Mon!Stop

LEMMA Restarted ==
  ASSUME JobsInv, NEW p \in {"beat", "worker"}, Mon!Restart(p) PROVE JobsInv'
<1> USE DEF JobsInv
<1>1. /\ up' = up \cup {p} /\ p \notin up /\ down' = IF p = "worker" THEN Never ELSE down
      /\ UNCHANGED <<clock, enabled, next, queued, running, started, ended, calm>>
  BY DEF Mon!Restart
<1>2. JobTypes' /\ StoppedMeansStopped'
  BY <1>1 DEF JobTypes, StoppedMeansStopped
<1>3. AllIsWell'
  BY <1>1 DEF AllIsWell
<1> QED BY <1>2, <1>3

LEMMA Switched ==
  ASSUME JobsInv, NEW j \in Mon!Jobs, Mon!Switch(j) PROVE JobsInv'
<1>1. /\ enabled' = IF j \in enabled THEN enabled \ {j} ELSE enabled \cup {j}
      /\ UNCHANGED <<clock, up, next, queued, running, started, ended, down>>
  BY DEF Mon!Switch
<1> QED BY <1>1, Upsetting DEF Mon!Switch, JobsInv, JobTypes, StoppedMeansStopped

\* Time passes when nothing is due that could be published, and nothing waits that could start.
LEMMA Ticked ==
  ASSUME JobsInv, Mon!Tick PROVE JobsInv'
<1> USE DEF JobsInv
<1>1. /\ clock' = clock + 1 /\ clock < Until
      /\ UNCHANGED <<up, enabled, next, queued, running, started, ended, down>>
  BY DEF Mon!Tick
<1>2. From \in Int /\ Until \in Int /\ clock \in Int /\ From <= clock
  BY Clocked DEF JobTypes
<1>3. JobTypes'
  <2>1. \A t : t \in From..clock => t \in From..clock'
    BY <1>1, <1>2
  <2>2. clock' \in From..Until
    BY <1>1, <1>2
  <2> QED BY <1>1, <2>1, <2>2 DEF JobTypes
<1>4. StoppedMeansStopped'
  BY <1>1, <1>2 DEF StoppedMeansStopped
<1>5. AllIsWell'
  <2> SUFFICES ASSUME calm' PROVE AllIsWell'
    BY DEF AllIsWell
  <2>1. running = {} /\ calm
    BY DEF Mon!Tick, Mon!Upset
  <2>2. queued = {} /\ up = {"beat", "worker"} /\ enabled = Mon!Jobs
    BY <2>1 DEF Mon!Tick, AllIsWell
  <2>3. ASSUME NEW j \in Mon!Jobs
        PROVE  ended[j] \notin {"failed", "dead"} /\ next[j] = Expected(j)' /\ clock' <= next[j]
    <3>1. ended[j] \notin {"failed", "dead"} /\ next[j] = Expected(j)
      BY <2>1 DEF AllIsWell
    <3>2. Expected(j)' = Expected(j)
      BY <1>1, <2>2 DEF Expected
    <3>3. ~(next[j] <= clock) /\ next[j] \in Int
      BY <2>2 DEF Mon!Tick, Mon!Due, JobTypes
    <3> QED BY <1>1, <1>2, <3>1, <3>2, <3>3
  <2> QED BY <1>1, <2>2, <2>3 DEF AllIsWell
<1> QED BY <1>3, <1>4, <1>5

LEMMA JobsSteps == JobsInv /\ [Mon!Next]_(Mon!vars) => JobsInv'
<1> SUFFICES ASSUME JobsInv, [Mon!Next]_(Mon!vars) PROVE JobsInv'
  OBVIOUS
<1>1. ASSUME NEW j \in Mon!Jobs, Mon!Publish(j) \/ Mon!Succeed(j) \/ Mon!Fail(j) \/ Mon!Switch(j)
      PROVE  JobsInv'
  BY <1>1, Published, JobEnded, Switched
<1>2. ASSUME NEW q \in Mon!Queues, Mon!Take(q) \/ Mon!Unknown(q) PROVE JobsInv'
  BY <1>2, Taken, NotKnown
<1>3. ASSUME NEW p \in {"beat", "worker"}, Mon!Stop(p) \/ Mon!Restart(p) PROVE JobsInv'
  BY <1>3, Stopped, Restarted
<1>4. CASE Mon!Tick
  BY <1>4, Ticked
<1>5. CASE UNCHANGED Mon!vars
  <2>1. UNCHANGED <<clock, up, enabled, next, queued, running, started, ended, upsets, down, calm>>
    BY <1>5 DEF Mon!vars
  <2>2. \A j \in Mon!Jobs : Expected(j)' = Expected(j)
    BY <2>1 DEF Expected
  <2> QED BY <2>1, <2>2 DEF JobsInv, JobTypes, StoppedMeansStopped, AllIsWell
<1> QED BY <1>1, <1>2, <1>3, <1>4, <1>5 DEF Mon!Next


-----------------------------------------------------------------------------
(* What the monitor tells *)

LEMMA DeadWorkerTold == JobsInv => Mon!DeadWorkerIsTold
<1> SUFFICES ASSUME JobsInv, NEW j \in enabled, down # Never, clock > Mon!Deadline(j), ~Mon!InGrace(j)
             PROVE  j \in Mon!ScheduleDoctor
  BY DEF Mon!DeadWorkerIsTold, Mon!Told
<1> USE DEF JobsInv
<1>1. j \in Mon!Jobs /\ clock \in From..Until
  BY DEF JobTypes
<1>2. down \in From..clock /\ (started[j] = Never \/ started[j] <= down)
  BY <1>1 DEF StoppedMeansStopped
<1>3. From \in Int /\ Until \in Int /\ StallThreshold \in Nat /\ Mon!Every(j) \in Nat
      /\ clock \in Int /\ down \in Int /\ down \in From..Until
  BY <1>1, <1>2, Clocked
<1>4. CASE started[j] = Never
  <2>1. Mon!JobState(j) = "never_run"
    BY <1>4 DEF Mon!JobState
  <2> QED BY <1>1, <1>4, <2>1 DEF Mon!ScheduleDoctor, Mon!NeverRun, Mon!Deadline
<1>5. CASE started[j] # Never
  <2>1. started[j] \in Int /\ started[j] <= down
    BY <1>1, <1>2, <1>3, <1>5 DEF JobTypes
  <2>2. Mon!Overdue(j)
    <3>1. CASE ~Specs[j].schedule.cron
      BY <1>3, <1>5, <2>1, <3>1 DEF Mon!Overdue, Mon!Deadline, Mon!OVERDUE_PERIODS
    <3>2. CASE Specs[j].schedule.cron
      <4>1. /\ JobClocks[j].next[down] \in Int /\ down < JobClocks[j].next[down]
            /\ JobClocks[j].last[clock] \in Int
            /\ JobClocks[j].next[down] <= clock => JobClocks[j].next[down] <= JobClocks[j].last[clock]
        BY <1>1, <1>2, <1>3, <3>2, Clocked
      <4>2. clock > JobClocks[j].next[down] + StallThreshold
        BY <1>5, <3>2 DEF Mon!Deadline
      <4>3. clock > JobClocks[j].last[clock] + StallThreshold
        BY <1>3, <3>2, <4>1 DEF Mon!InGrace
      <4> QED BY <1>3, <1>5, <2>1, <3>2, <4>1, <4>2, <4>3 DEF Mon!Overdue
    <3> QED BY <3>1, <3>2
  <2>3. Mon!JobState(j) \in {"failing", "overdue"}
    BY <1>5, <2>2 DEF Mon!JobState
  <2> QED BY <1>1, <2>3 DEF Mon!ScheduleDoctor
<1> QED BY <1>4, <1>5

LEMMA HealthyGreen == JobsInv => Mon!HealthyIsGreen
<1> SUFFICES ASSUME JobsInv, calm, queued = {}
             PROVE  Mon!Green /\ Mon!QueueDoctor = {} /\ Mon!ScheduleDoctor = {}
  BY DEF Mon!HealthyIsGreen
<1> USE DEF JobsInv
<1>1. \A q : ~Mon!Stalled(q) /\ Mon!Alive(q)
  BY DEF Mon!Stalled, Mon!Alive, Mon!Waiting, Mon!Oldest
<1>2. ASSUME NEW j \in Mon!Jobs
      PROVE  Mon!JobState(j) \notin {"failing", "overdue"} /\ ~Mon!NeverRun(j)
  <2>1. /\ ended[j] \notin {"failed", "dead"} /\ clock <= next[j] /\ clock \in From..Until
        /\ next[j] = IF started[j] = Never THEN Mon!FirstOf(j) ELSE JobClocks[j].next[started[j]]
    BY DEF AllIsWell, JobTypes, Expected
  <2>2. clock \in Int /\ From \in Int /\ StallThreshold \in Nat /\ Mon!Every(j) \in Nat
    BY <2>1, Clocked
  <2>3. CASE started[j] = Never
    <3>1. clock <= From + Mon!Every(j)
      BY <2>1, <2>2, <2>3, FirstWithinPeriod
    <3>2. ~Mon!NeverRun(j)
      BY <2>2, <3>1 DEF Mon!NeverRun
    <3> QED BY <2>3, <3>2 DEF Mon!JobState
  <2>4. CASE started[j] # Never
    <3>1. started[j] \in From..clock /\ started[j] \in From..Until /\ started[j] \in Int
      BY <2>1, <2>2, <2>4, Clocked DEF JobTypes
    <3>2. clock <= JobClocks[j].next[started[j]] /\ JobClocks[j].next[started[j]] \in Int
      BY <2>1, <2>4, <3>1, Clocked
    <3>3. ~Mon!Overdue(j)
      <4>1. CASE ~Specs[j].schedule.cron
        <5>1. clock <= started[j] + Mon!Every(j)
          BY <3>1, <3>2, <4>1, Clocked
        <5> QED BY <2>2, <3>1, <4>1, <5>1 DEF Mon!Overdue, Mon!OVERDUE_PERIODS
      <4>2. CASE Specs[j].schedule.cron
        <5>1. /\ JobClocks[j].last[clock] \in Int
              /\ IF JobClocks[j].next[started[j]] <= clock
                 THEN JobClocks[j].next[started[j]] <= JobClocks[j].last[clock]
                 ELSE JobClocks[j].last[clock] <= started[j]
          BY <2>1, <3>1, <4>2, Clocked
        <5> QED BY <2>2, <3>1, <3>2, <4>2, <5>1 DEF Mon!Overdue
      <4> QED BY <4>1, <4>2
    <3>4. Mon!JobState(j) \in {"disabled", "ok"}
      BY <2>1, <2>4, <3>3 DEF Mon!JobState
    <3> QED BY <3>4 DEF Mon!NeverRun
  <2> QED BY <2>3, <2>4
<1> QED BY <1>1, <1>2 DEF Mon!Green, Mon!Reasons, Mon!QueueDoctor, Mon!ScheduleDoctor

\* Whatever the monitor says, the jobs probe alone takes nothing out of service.
LEMMA CoreAlone == Mon!OnlyCoreTakesDown
<1> SUFFICES ASSUME NEW core \in [Mon!CoreProbes -> Mon!Answers]
             PROVE  LET answer == [p \in Mon!CoreProbes \cup {"jobs"} |->
                                     IF p = "jobs" THEN IF Mon!Green THEN "yes" ELSE "no" ELSE core[p]]
                        report == Mon!Components(answer, {}, {"ok"})
                    IN  /\ (report.code = 503) <=> (Mon!Ready(answer) = 503)
                        /\ ~Mon!Green => report.status # "ok"
  BY DEF Mon!OnlyCoreTakesDown
<1> DEFINE answer == [p \in Mon!CoreProbes \cup {"jobs"} |->
                        IF p = "jobs" THEN IF Mon!Green THEN "yes" ELSE "no" ELSE core[p]]
           statuses == {Mon!RunProbe(answer[p], p \in Mon!Probed({})) : p \in DOMAIN answer}
           report == Mon!Components(answer, {}, {"ok"})
<1>1. /\ DOMAIN answer = {"database", "cache", "jobs"}
      /\ answer["jobs"] = IF Mon!Green THEN "yes" ELSE "no"
  BY DEF Mon!CoreProbes
<1>2. Mon!Probed({}) = {"database", "cache"}
  BY DEF Mon!Probed, Mon!CoreProbes
<1> HIDE DEF answer
<1>3. Mon!Ready(answer) = IF answer["database"] = "yes" /\ answer["cache"] = "yes" THEN 200 ELSE 503
  BY DEF Mon!Ready, Mon!Failed, Mon!CoreProbes
<1>4. /\ "down" \in statuses <=> answer["database"] # "yes" \/ answer["cache"] # "yes"
      /\ ~Mon!Green => "degraded" \in statuses
  BY <1>1, <1>2 DEF Mon!RunProbe, Mon!FailureStatus
<1>5. Mon!Overall(answer, {}) = IF "down" \in statuses THEN "down"
                                ELSE IF "degraded" \in statuses THEN "degraded" ELSE "ok"
  BY DEF Mon!Overall
<1>6. Mon!Worst({"ok"}) = "ok"
  BY DEF Mon!Worst
<1> HIDE DEF statuses
<1>7. /\ report.code = IF Mon!Overall(answer, {}) = "down" THEN 503 ELSE 200
      /\ report.status = Mon!Overall(answer, {})
  BY <1>6 DEF Mon!Components
<1> HIDE DEF report
<1>8. ((report.code = 503) <=> (Mon!Ready(answer) = 503)) /\ (~Mon!Green => report.status # "ok")
  BY <1>3, <1>4, <1>5, <1>7
<1> QED BY <1>8 DEF report, answer

\* The umbrella fails when a doctor has found something.
LEMMA DoctorsExit ==
  (Mon!ExitCode(Mon!Umbrella, {}, {"queue", "schedule"}, FALSE) = 0)
    <=> (Mon!ScheduleDoctor \cup Mon!QueueDoctor = {})
<1>1. ASSUME NEW subjects
      PROVE  LET d == [found |-> {Mon!Finding(s) : s \in subjects}, known |-> {}, crashed |-> FALSE]
             IN  ~d.crashed /\ (Mon!DoctorFailed(d, FALSE) <=> subjects # {})
  <2> DEFINE d == [found |-> {Mon!Finding(s) : s \in subjects}, known |-> {}, crashed |-> FALSE]
  <2>1. ~d.crashed /\ d.known = {} /\ d.found = {Mon!Finding(s) : s \in subjects}
    OBVIOUS
  <2> HIDE DEF d
  <2>2. Mon!EntriesFixed(d) = {}
    BY <2>1 DEF Mon!EntriesFixed
  <2>3. \A f \in d.found : f.severity = "failure" /\ f = [f EXCEPT !.severity = @]
    BY <2>1 DEF Mon!Finding
  <2>4. Mon!Reported(d, FALSE) = d.found
    BY <2>1, <2>3 DEF Mon!Reported
  <2>5. Mon!DoctorFailed(d, FALSE) <=> d.found # {}
    BY <2>1, <2>2, <2>3, <2>4 DEF Mon!DoctorFailed
  <2>6. d.found # {} <=> subjects # {}
    BY <2>1
  <2> QED BY <2>1, <2>5, <2>6 DEF d
<1> DEFINE Doctor(subjects) == [found |-> {Mon!Finding(s) : s \in subjects}, known |-> {}, crashed |-> FALSE]
<1>2. Mon!Umbrella = {Doctor(Mon!ScheduleDoctor), Doctor(Mon!QueueDoctor)}
  BY DEF Mon!Umbrella
<1>3. \A subjects : ~Doctor(subjects).crashed /\ (Mon!DoctorFailed(Doctor(subjects), FALSE) <=> subjects # {})
  BY <1>1
<1> HIDE DEF Doctor
<1>4. \A d \in Mon!Umbrella : d = Doctor(Mon!ScheduleDoctor) \/ d = Doctor(Mon!QueueDoctor)
  BY <1>2
<1>5. (\E d \in Mon!Umbrella : Mon!DoctorFailed(d, FALSE)) <=> (Mon!ScheduleDoctor # {} \/ Mon!QueueDoctor # {})
  <2>1. Doctor(Mon!ScheduleDoctor) \in Mon!Umbrella /\ Doctor(Mon!QueueDoctor) \in Mon!Umbrella
    BY <1>2
  <2> QED BY <1>3, <1>4, <2>1, Zenon
<1>6. Mon!ExitCode(Mon!Umbrella, {}, {"queue", "schedule"}, FALSE)
        = IF \E d \in Mon!Umbrella : Mon!DoctorFailed(d, FALSE) THEN 1 ELSE 0
  <2>1. ~(\E d \in Mon!Umbrella : d.crashed)
    BY <1>3, <1>4, Zenon
  <2>2. {} \subseteq {"queue", "schedule"}
    OBVIOUS
  <2> QED BY <2>1, <2>2, Zenon DEF Mon!ExitCode
<1>7. Mon!ScheduleDoctor \cup Mon!QueueDoctor = {} <=> Mon!ScheduleDoctor = {} /\ Mon!QueueDoctor = {}
  OBVIOUS
<1> DEFINE code == Mon!ExitCode(Mon!Umbrella, {}, {"queue", "schedule"}, FALSE)
<1> DEFINE failed == \E d \in Mon!Umbrella : Mon!DoctorFailed(d, FALSE)
<1>8. code = IF failed THEN 1 ELSE 0
  BY <1>6
<1>9. failed <=> ~(Mon!ScheduleDoctor \cup Mon!QueueDoctor = {})
  BY <1>5, <1>7, Zenon
<1>10. code = 0 <=> Mon!ScheduleDoctor \cup Mon!QueueDoctor = {}
  <2> HIDE DEF code, failed
  <2> QED BY <1>8, <1>9
<1> QED BY <1>10

LEMMA MonitorTells == JobsInv => Mon!MonitorIsRight
BY DeadWorkerTold, HealthyGreen, CoreAlone, DoctorsExit DEF Mon!MonitorIsRight

\* The inductive invariant of JobHealth, for any schedules: nothing starts after the worker has
\* stopped, and while nothing goes wrong every job runs when it is due (core/jobs/health.py).
THEOREM JobsInductive == Mon!Spec => []JobsInv
BY JobsStart, JobsSteps, PTL DEF Mon!Spec

\* A stopped worker is told of, a healthy system is green, and neither makes an instance
\* unready (core/jobs/health.py, core/jobs/doctors.py, core/observability/health.py).
THEOREM MonitorAsMeant == Mon!Spec => []MonitorIsRight
BY JobsInductive, MonitorTells, PTL DEF MonitorIsRight

-----------------------------------------------------------------------------
(* The schedules that the monitor is right about *)

DailyAt(slot) == [slots |-> {One(slot)}, doms |-> Star, dows |-> Star]

\* The clock is long enough to be looked at, and every job has an interval or a moment of the day.
PlainSchedules ==
  /\ SlotsPerDay \in Nat \ {0} /\ MonthDays \in Nat \ {0} /\ WindowDays \in Nat /\ WindowDays >= 2
  /\ From \in Nat /\ Until \in Nat /\ From <= Until
  /\ Until < (From \div SlotsPerDay + WindowDays - 1) * SlotsPerDay
  /\ StallThreshold \in Nat /\ Never \notin Int
  /\ \A j \in DOMAIN Specs :
        /\ Specs[j].expires \in Nat
        /\ IF Specs[j].schedule.cron
           THEN \E slot \in 0..(SlotsPerDay - 1) : Specs[j].schedule.fires = DailyAt(slot)
           ELSE Specs[j].schedule.every \in Nat \ {0} /\ Specs[j].offset \in 0..(Specs[j].schedule.every - 1)

LEMMA LeastIs ==
  ASSUME NEW S \in SUBSET Int, NEW m \in S, \A x \in S : m <= x
  PROVE  Min(S) = m
<1>1. \A x \in S : (\A y \in S : x <= y) => x = m
  OBVIOUS
<1> QED BY <1>1 DEF Min

LEMMA GreatestIs ==
  ASSUME NEW S \in SUBSET Int, NEW m \in S, \A x \in S : x <= m
  PROVE  Max(S) = m
<1>1. \A x \in S : (\A y \in S : x >= y) => x = m
  OBVIOUS
<1> QED BY <1>1 DEF Max

\* Days and slots
LEMMA DaysOf ==
  ASSUME NEW n \in Nat \ {0}, NEW m \in Int
  PROVE  /\ m \div n \in Int /\ m = (m \div n) * n + (m % n) /\ m % n \in 0..(n - 1)
OBVIOUS

\* Of two days the later one's slots come later.
LEMMA LaterDay ==
  ASSUME NEW n \in Nat \ {0}, NEW d \in Int, NEW e \in Int, d + 1 <= e
  PROVE  d * n + n <= e * n /\ d * n \in Int /\ e * n \in Int
<1>1. (d + 1) * n <= e * n
  OBVIOUS
<1>2. (d + 1) * n = d * n + n
  OBVIOUS
<1> QED BY <1>1, <1>2

LEMMA EveryDayHits ==
  ASSUME MonthDays \in Nat \ {0}, NEW slot, NEW day \in Int
  PROVE  DayHit(DailyAt(slot), day)
<1>1. day % MonthDays \in 0..(MonthDays - 1)
  BY DaysOf
<1>2. (day % MonthDays) + 1 \in Expand(Star, 1, MonthDays)
  BY <1>1 DEF Expand, Star, AnyPart, PartStart, PartEnd, Stride
<1>3. day % 7 \in 0..6 /\ (day % 7) % 7 = day % 7
  OBVIOUS
<1>4. day % 7 \in Expand(Star, 0, 7)
  BY <1>3 DEF Expand, Star, AnyPart, PartStart, PartEnd, Stride
<1> QED BY <1>2, <1>3, <1>4 DEF DayHit, DailyAt

LEMMA DailyFires ==
  ASSUME PlainSchedules, NEW slot \in 0..(SlotsPerDay - 1), NEW start \in Int, NEW days \in Int
  PROVE  FireTimes(DailyAt(slot), start, days)
           = {day * SlotsPerDay + slot : day \in start..(start + days - 1)}
<1>1. Expand({One(slot)}, 0, SlotsPerDay - 1) = {slot}
  <2>1. PartStart(One(slot), 0) = slot /\ PartEnd(One(slot), SlotsPerDay - 1) = slot /\ Stride(One(slot)) = 1
    BY DEF PartStart, PartEnd, Stride, One
  <2>2. slot \in Int /\ slot..slot = {slot} /\ (slot - slot) % 1 = 0
    BY DEF PlainSchedules
  <2> QED BY <2>1, <2>2 DEF Expand
<1>2. {d \in start..(start + days - 1) : DayHit(DailyAt(slot), d)} = start..(start + days - 1)
  BY EveryDayHits DEF PlainSchedules
<1> DEFINE slots == Expand(DailyAt(slot).slots, 0, SlotsPerDay - 1)
           hit == {d \in start..(start + days - 1) : DayHit(DailyAt(slot), d)}
<1>3. slots = {slot}
  BY <1>1 DEF DailyAt
<1>4. FireTimes(DailyAt(slot), start, days) = UNION {{day * SlotsPerDay + s : s \in slots} : day \in hit}
  BY DEF FireTimes
<1>5. hit = start..(start + days - 1)
  BY <1>2
<1> HIDE DEF slots, hit
<1> QED BY <1>3, <1>4, <1>5

\* The moments of a slot of the day: after any moment the next one is in the same day or in
\* the one after, and before it the latest one is in the same day or in the one before.
LEMMA AroundMoment ==
  ASSUME NEW n \in Nat \ {0}, NEW slot \in 0..(n - 1), NEW now \in Int
  PROVE  LET today == now \div n
             after == IF now < today * n + slot THEN today ELSE today + 1
         IN  /\ today \in Int /\ after \in {today, today + 1}
             /\ now < after * n + slot /\ (after - 1) * n + slot <= now
             /\ after * n + slot <= now + n
             /\ \A day \in Int : /\ day < after => day * n + slot <= (after - 1) * n + slot
                                 /\ after <= day => after * n + slot <= day * n + slot
<1> DEFINE today == now \div n
           after == IF now < today * n + slot THEN today ELSE today + 1
<1>1. today \in Int /\ now = today * n + (now % n) /\ now % n \in 0..(n - 1)
  BY DaysOf
<1>2. (today - 1) * n + n = today * n /\ (today + 1) * n = today * n + n
  BY <1>1
<1>3. after \in {today, today + 1} /\ after \in Int
  BY <1>1
<1>4. now < after * n + slot /\ (after - 1) * n + slot <= now
  <2>1. CASE now < today * n + slot
    BY <1>1, <1>2, <2>1
  <2>2. CASE ~(now < today * n + slot)
    BY <1>1, <1>2, <2>2
  <2> QED BY <2>1, <2>2
<1>5. after * n = (after - 1) * n + n
  BY <1>3
<1>6. ASSUME NEW day \in Int
      PROVE  /\ day < after => day * n + slot <= (after - 1) * n + slot
             /\ after <= day => after * n + slot <= day * n + slot
  <2> HIDE DEF after
  <2>1. day <= after - 1 => day * n <= (after - 1) * n
    BY <1>3
  <2>2. after <= day => after * n <= day * n
    BY <1>3
  <2> QED BY <1>3, <2>1, <2>2
<1> QED BY <1>1, <1>3, <1>4, <1>5, <1>6

LEMMA DivUnique ==
  ASSUME NEW n \in Nat \ {0}, NEW d \in Int, NEW m \in Int, d * n <= m, m < d * n + n
  PROVE  m \div n = d
<1>1. m \div n \in Int /\ m = (m \div n) * n + (m % n) /\ m % n \in 0..(n - 1)
  BY DaysOf
<1>2. ~(m \div n + 1 <= d)
  <2>1. SUFFICES ASSUME m \div n + 1 <= d PROVE FALSE
    OBVIOUS
  <2>2. (m \div n) * n + n <= d * n
    BY <1>1, <2>1, LaterDay
  <2> QED BY <1>1, <2>2
<1>3. ~(d + 1 <= m \div n)
  <2>1. SUFFICES ASSUME d + 1 <= m \div n PROVE FALSE
    OBVIOUS
  <2>2. d * n + n <= (m \div n) * n
    BY <1>1, <2>1, LaterDay
  <2> QED BY <1>1, <2>2
<1> QED BY <1>1, <1>2, <1>3

LEMMA DailyPeriod ==
  ASSUME PlainSchedules, NEW slot \in 0..(SlotsPerDay - 1)
  PROVE  CronPeriod(DailyAt(slot)) = SlotsPerDay
<1> DEFINE n == SlotsPerDay
           at(d) == d * n + slot
           fires == {at(d) : d \in 0..(WindowDays - 1)}
<1>1. FireTimes(DailyAt(slot), 0, WindowDays) = fires
  <2>1. 0 + WindowDays - 1 = WindowDays - 1 /\ WindowDays \in Int /\ 0 \in Int
    BY DEF PlainSchedules
  <2>2. FireTimes(DailyAt(slot), 0, WindowDays)
          = {d * SlotsPerDay + slot : d \in 0..(0 + WindowDays - 1)}
    BY <2>1, DailyFires, Zenon
  <2> QED BY <2>1, <2>2
<1>2. n \in Nat \ {0} /\ slot \in Nat /\ WindowDays \in Nat /\ WindowDays >= 2
  BY DEF PlainSchedules
<1>3. \A d, e \in Int : /\ at(d) \in Int /\ at(d + 1) = at(d) + n
                        /\ d + 1 <= e => at(d) + n <= at(e)
  BY <1>2, LaterDay
<1> HIDE DEF at
<1>4. fires \subseteq Int /\ IsFiniteSet(fires)
  <2>1. ASSUME NEW d \in 0..(WindowDays - 1) PROVE at(d) \in at(0)..at(WindowDays - 1)
    <3>1. d = 0 \/ 0 + 1 <= d
      OBVIOUS
    <3>2. d = WindowDays - 1 \/ d + 1 <= WindowDays - 1
      BY <1>2
    <3> QED BY <1>2, <1>3, <3>1, <3>2
  <2>2. at(0) \in Int /\ at(WindowDays - 1) \in Int
    BY <1>2, <1>3
  <2>3. fires \subseteq at(0)..at(WindowDays - 1)
    BY <2>1
  <2>4. IsFiniteSet(at(0)..at(WindowDays - 1))
    BY <2>2, FS_Interval
  <2> HIDE DEF fires
  <2>5. IsFiniteSet(fires)
    BY <2>3, <2>4, FS_Subset
  <2>6. fires \subseteq Int
    BY <2>2, <2>3
  <2> QED BY <2>5, <2>6
<1>5. at(0) \in fires /\ at(1) \in fires /\ at(0) # at(1)
  <2>1. 0 \in 0..(WindowDays - 1) /\ 1 \in 0..(WindowDays - 1)
    BY <1>2
  <2>2. at(0 + 1) = at(0) + n
    BY <1>3
  <2> QED BY <1>2, <1>3, <2>1, <2>2
<1>6. ~(Cardinality(fires) < 2)
  <2>1. {at(0), at(1)} \subseteq fires
    BY <1>5
  <2>2. Cardinality({at(0), at(1)}) <= Cardinality(fires)
    BY <1>4, <2>1, FS_Subset
  <2>3. Cardinality({at(0), at(1)}) = 2
    <3>1. IsFiniteSet({at(0)}) /\ Cardinality({at(0)}) = 1
      BY FS_Singleton
    <3>2. Cardinality({at(0)} \cup {at(1)}) = 1 + 1
      BY <1>5, <3>1, FS_AddElement
    <3>3. {at(0)} \cup {at(1)} = {at(0), at(1)}
      OBVIOUS
    <3> QED BY <3>2, <3>3
  <2>4. Cardinality(fires) \in Nat
    BY <1>4, FS_CardinalityType
  <2> QED BY <2>2, <2>3, <2>4
<1>7. Max(fires) = at(WindowDays - 1)
  <2>1. at(WindowDays - 1) \in fires
    BY <1>2
  <2>2. \A x \in fires : x <= at(WindowDays - 1)
    <3>1. ASSUME NEW d \in 0..(WindowDays - 1) PROVE at(d) <= at(WindowDays - 1)
      <4>1. d = WindowDays - 1 \/ d + 1 <= WindowDays - 1
        BY <1>2
      <4> QED BY <1>2, <1>3, <4>1
    <3> QED BY <3>1
  <2> HIDE DEF fires
  <2> QED BY <1>4, <2>1, <2>2, GreatestIs
<1>8. ASSUME NEW d \in 0..(WindowDays - 1), at(d) # at(WindowDays - 1)
      PROVE  Min({later \in fires : later > at(d)}) = at(d + 1)
  <2>1. d + 1 \in 0..(WindowDays - 1) /\ d \in Int /\ d + 1 \in Int
    BY <1>2, <1>8
  <2>2. at(d + 1) = at(d) + n
    BY <1>3, <2>1
  <2>3. at(d + 1) \in {later \in fires : later > at(d)}
    BY <1>2, <1>3, <2>1, <2>2
  <2>4. \A x \in {later \in fires : later > at(d)} : at(d + 1) <= x
    <3>1. ASSUME NEW e \in 0..(WindowDays - 1), at(e) > at(d) PROVE at(d + 1) <= at(e)
      <4>1. e # d
        BY <1>3, <2>1, <3>1
      <4>2. ~(e + 1 <= d)
        <5>1. e + 1 <= d => at(e) + n <= at(d)
          BY <1>3, <2>1
        <5>2. at(e) \in Int /\ at(d) \in Int
          BY <1>3, <2>1
        <5> QED BY <1>2, <3>1, <5>1, <5>2
      <4>3. d + 1 <= e
        BY <2>1, <4>1, <4>2
      <4> QED BY <1>3, <2>1, <2>2, <4>3
    <3> QED BY <3>1
  <2>5. {later \in fires : later > at(d)} \subseteq Int
    BY <1>4
  <2> HIDE DEF fires
  <2> QED BY <2>3, <2>4, <2>5, LeastIs
<1>9. Gaps(fires) = {n}
  <2>1. ASSUME NEW x \in fires \ {Max(fires)} PROVE Min({later \in fires : later > x}) - x = n
    <3>1. PICK d \in 0..(WindowDays - 1) : x = at(d)
      OBVIOUS
    <3>2. Min({later \in fires : later > x}) = at(d + 1)
      BY <1>7, <1>8, <2>1, <3>1
    <3>3. at(d + 1) = at(d) + n /\ at(d) \in Int
      BY <1>3
    <3> QED BY <1>2, <3>1, <3>2, <3>3
  <2>2. at(0) \in fires \ {Max(fires)}
    <3>1. at(0) + n <= at(WindowDays - 1) /\ at(0) \in Int /\ at(WindowDays - 1) \in Int
      BY <1>2, <1>3
    <3> QED BY <1>2, <1>5, <1>7, <3>1
  <2> HIDE DEF fires, n
  <2>3. Gaps(fires) = {Min({later \in fires : later > fire}) - fire : fire \in fires \ {Max(fires)}}
    BY DEF Gaps
  <2> QED BY <2>1, <2>2, <2>3
<1>10. Min({n}) = n
  BY <1>2, LeastIs
<1> HIDE DEF fires
<1> QED BY <1>1, <1>6, <1>9, <1>10 DEF CronPeriod

LEMMA DailyClock ==
  ASSUME PlainSchedules, NEW slot \in 0..(SlotsPerDay - 1), NEW now \in From..Until
  PROVE  LET n == SlotsPerDay
             today == now \div n
             after == IF now < today * n + slot THEN today ELSE today + 1
             fires == FireTimes(DailyAt(slot), From \div n, WindowDays)
         IN  /\ Min({fire \in fires : fire > now}) = after * n + slot
             /\ PreviousFire(DailyAt(slot), now) = (after - 1) * n + slot
<1> DEFINE n == SlotsPerDay
           today == now \div n
           after == IF now < today * n + slot THEN today ELSE today + 1
           first == From \div n
           upcoming == after * n + slot
           latest == (after - 1) * n + slot
           fires == FireTimes(DailyAt(slot), first, WindowDays)
<1>1. /\ n \in Nat \ {0} /\ slot \in 0..(n - 1) /\ now \in Int /\ WindowDays \in Nat
      /\ From \in Nat /\ From <= now /\ now < (first + WindowDays - 1) * n
      /\ Never \notin Int
  <2>1. first \in Int
    BY DaysOf DEF PlainSchedules
  <2>2. (first + WindowDays - 1) * n \in Int /\ now <= Until /\ now \in Int /\ Until \in Int
    BY <2>1 DEF PlainSchedules
  <2> QED BY <2>1, <2>2 DEF PlainSchedules
<1>2. /\ today \in Int /\ after \in {today, today + 1}
      /\ now < upcoming /\ latest <= now
      /\ \A day \in Int : /\ day < after => day * n + slot <= latest
                          /\ after <= day => upcoming <= day * n + slot
  BY <1>1, AroundMoment
<1> HIDE DEF n, fires, upcoming, latest, after, today, first
<1>3. first \in Int /\ first <= today /\ today + 1 <= first + WindowDays - 1
  <2>1. first \in Int /\ From = first * n + (From % n) /\ From % n \in 0..(n - 1)
    <3>1. From \in Int
      BY <1>1
    <3> QED BY <1>1, <3>1, DaysOf DEF first
  <2>2. now = today * n + (now % n) /\ now % n \in 0..(n - 1)
    BY <1>1, DaysOf DEF today
  <2>3. first <= today
    <3>1. SUFFICES ASSUME today + 1 <= first PROVE FALSE
      BY <1>2, <2>1
    <3>2. today * n + n <= first * n
      BY <1>1, <1>2, <2>1, <3>1, LaterDay
    <3> QED BY <1>1, <1>2, <2>1, <2>2, <3>2
  <2>4. today + 1 <= first + WindowDays - 1
    <3>1. SUFFICES ASSUME first + WindowDays - 1 <= today PROVE FALSE
      BY <1>1, <1>2, <2>1
    <3>2. (first + WindowDays - 1) * n <= today * n
      BY <1>1, <1>2, <2>1, <3>1
    <3> QED BY <1>1, <1>2, <2>1, <2>2, <3>2
  <2> QED BY <2>1, <2>3, <2>4
<1>4. fires = {day * n + slot : day \in first..(first + WindowDays - 1)}
  <2>1. WindowDays \in Int
    BY <1>1
  <2> QED BY <1>3, <2>1, DailyFires DEF fires, n
<1>5. upcoming \in Int /\ latest \in Int /\ after \in Int
  BY <1>1, <1>2 DEF upcoming, latest
<1>6. Min({fire \in fires : fire > now}) = upcoming
  <2>1. after \in first..(first + WindowDays - 1)
    BY <1>1, <1>2, <1>3
  <2>2. upcoming \in {fire \in fires : fire > now}
    BY <1>2, <1>4, <2>1 DEF upcoming
  <2>3. ASSUME NEW x \in fires, x > now PROVE upcoming <= x /\ x \in Int
    <3>1. PICK day \in first..(first + WindowDays - 1) : x = day * n + slot
      BY <1>4
    <3>2. day \in Int /\ x \in Int
      BY <1>1, <1>3, <3>1
    <3>3. ~(day < after)
      BY <1>1, <1>2, <1>5, <2>3, <3>1, <3>2
    <3> QED BY <1>2, <1>5, <3>1, <3>2, <3>3
  <2> QED BY <2>2, <2>3, LeastIs
<1>7. PreviousFire(DailyAt(slot), now) = latest
  <2> DEFINE start == today - 3
             seen == {day * n + slot : day \in start..(start + 5 - 1)}
             past == {fire \in seen : fire <= now}
  <2>1. Lookback(DailyAt(slot)) = n + 2 * n
    BY DailyPeriod DEF Lookback, n
  <2>2. (now - (n + 2 * n)) \div n = start
    <3>1. now = today * n + (now % n) /\ now % n \in 0..(n - 1)
      BY <1>1, DaysOf DEF today
    <3>2. start * n = today * n - (n + 2 * n) /\ start \in Int
      BY <1>1, <1>2
    <3>3. now - (n + 2 * n) \in Int /\ start * n <= now - (n + 2 * n)
          /\ now - (n + 2 * n) < start * n + n
      BY <1>1, <1>2, <3>1, <3>2
    <3> HIDE DEF start
    <3> QED BY <1>1, <3>2, <3>3, DivUnique
  <2>3. (n + 2 * n) \div n = 3
    <3>1. 3 * n <= n + 2 * n /\ n + 2 * n < 3 * n + n /\ n + 2 * n \in Int
      BY <1>1
    <3> QED BY <1>1, <3>1, DivUnique
  <2>4. FireTimes(DailyAt(slot), start, 5) = seen
    <3>1. start \in Int
      BY <1>2
    <3> QED BY <3>1, DailyFires DEF n
  <2>5. PreviousFire(DailyAt(slot), now) = IF past = {} THEN Never ELSE Max(past)
    <3> HIDE DEF start, seen
    <3> QED BY <2>1, <2>2, <2>3, <2>4 DEF PreviousFire, n
  <2>6. latest \in past
    <3>1. after - 1 \in start..(start + 5 - 1)
      BY <1>2, <1>5
    <3>2. latest \in seen
      BY <3>1 DEF latest
    <3> QED BY <1>2, <3>2
  <2>7. ASSUME NEW x \in past PROVE x <= latest /\ x \in Int
    <3>1. PICK day \in start..(start + 5 - 1) : x = day * n + slot
      OBVIOUS
    <3>2. day \in Int /\ x \in Int
      BY <1>1, <1>2, <3>1
    <3>3. x <= now
      BY <2>7
    <3>4. day < after
      BY <1>1, <1>2, <1>5, <3>1, <3>2, <3>3
    <3> QED BY <1>2, <3>1, <3>2, <3>4
  <2> HIDE DEF past
  <2>8. Max(past) = latest
    BY <2>6, <2>7, GreatestIs
  <2> QED BY <2>5, <2>6, <2>8
<1> QED BY <1>6, <1>7 DEF fires, upcoming, latest, after, today, first, n

\* What the clock of a daily cron says at a moment: the next firing is on the day `after`, the
\* latest one the day before, and those of all other days are further away.
At(day, slot) == day * SlotsPerDay + slot
FiresAround(c, slot, now, after) ==
  /\ c.next[now] = At(after, slot) /\ c.last[now] = At(after - 1, slot)
  /\ At(after, slot) \in Int /\ At(after - 1, slot) \in Int
  /\ now < At(after, slot) /\ At(after - 1, slot) <= now /\ At(after, slot) <= now + SlotsPerDay
  /\ \A day \in Int : /\ At(day, slot) \in Int
                      /\ day < after => At(day, slot) <= At(after - 1, slot)
                      /\ after <= day => At(after, slot) <= At(day, slot)

LEMMA DailyMoments ==
  ASSUME PlainSchedules, NEW spec, spec.schedule.cron, NEW slot \in 0..(SlotsPerDay - 1),
         spec.schedule.fires = DailyAt(slot), NEW now \in From..Until
  PROVE  \E after \in Int : FiresAround(ClockOf(spec, From, Until), slot, now, after)
<1> DEFINE n == SlotsPerDay
           at(day) == day * n + slot
           c == ClockOf(spec, From, Until)
           today == now \div n
           after == IF now < today * n + slot THEN today ELSE today + 1
           fires == FireTimes(DailyAt(slot), From \div n, WindowDays)
<1>1. n \in Nat \ {0} /\ slot \in 0..(n - 1) /\ now \in Int
  BY DEF PlainSchedules
<1>2. /\ today \in Int /\ after \in {today, today + 1}
      /\ now < at(after) /\ at(after - 1) <= now /\ at(after) <= now + n
      /\ \A day \in Int : /\ day < after => at(day) <= at(after - 1)
                          /\ after <= day => at(after) <= at(day)
  BY <1>1, AroundMoment
<1>3. Min({fire \in fires : fire > now}) = at(after) /\ PreviousFire(DailyAt(slot), now) = at(after - 1)
  BY DailyClock
<1>4. c.next[now] = Min({fire \in fires : fire > now}) /\ c.last[now] = PreviousFire(DailyAt(slot), now)
  <2> HIDE DEF fires
  <2>1. c.next = [t \in From..Until |-> Min({fire \in fires : fire > t})]
    BY DEF ClockOf, fires
  <2>2. c.last = [t \in From..Until |-> PreviousFire(DailyAt(slot), t)]
    BY DEF ClockOf
  <2> HIDE DEF c
  <2> QED BY <2>1, <2>2
<1>5. after \in Int /\ \A day \in Int : at(day) \in Int
  BY <1>1, <1>2
<1> HIDE DEF c, after, today, fires, at
<1>6. after - 1 \in Int
  BY <1>5
<1>7. c.next[now] = at(after) /\ c.last[now] = at(after - 1)
  BY <1>3, <1>4
<1>8. FiresAround(c, slot, now, after)
  BY <1>2, <1>5, <1>6, <1>7 DEF FiresAround, At, at
<1> QED BY <1>5, <1>8 DEF c

LEMMA DailyGoesByFirings ==
  ASSUME PlainSchedules, NEW spec, spec.schedule.cron, NEW slot \in 0..(SlotsPerDay - 1),
         spec.schedule.fires = DailyAt(slot)
  PROVE  LET c == ClockOf(spec, From, Until)
         IN  Mon!GoesByFirings(c) /\ c.next[From] <= From + c.every /\ c.every = SlotsPerDay
<1> DEFINE c == ClockOf(spec, From, Until)
           Moment(now, a) == FiresAround(c, slot, now, a)
<1>1. \A now \in From..Until : \E a \in Int : Moment(now, a)
  BY DailyMoments
<1>2. c.every = SlotsPerDay
  BY DailyPeriod DEF ClockOf, PeriodOf
<1>3. From \in From..Until /\ From \in Int /\ Until \in Int
  BY DEF PlainSchedules
<1> USE DEF FiresAround
<1> HIDE DEF c
<1>4. ASSUME NEW now \in From..Until
      PROVE  /\ c.next[now] \in Int /\ now < c.next[now] /\ c.last[now] \in Int
             /\ \A then \in From..now :
                   IF c.next[then] <= now THEN c.next[then] <= c.last[now] ELSE c.last[now] <= then
  <2>1. PICK b \in Int : Moment(now, b)
    BY <1>1
  <2>2. ASSUME NEW then \in From..now
        PROVE  IF c.next[then] <= now THEN c.next[then] <= c.last[now] ELSE c.last[now] <= then
    <3>1. then \in From..Until /\ then \in Int /\ now \in Int
      BY <1>3
    <3>2. PICK a \in Int : Moment(then, a)
      BY <1>1, <3>1
    <3>3. CASE c.next[then] <= now
      <4>1. At(a, slot) \in Int /\ At(b, slot) \in Int /\ At(a, slot) <= now /\ now < At(b, slot)
        BY <2>1, <3>2, <3>3
      <4>2. ~(b <= a)
        BY <2>1, <3>1, <4>1
      <4>3. At(a, slot) <= At(b - 1, slot)
        BY <2>1, <4>2
      <4> QED BY <2>1, <3>2, <3>3, <4>3
    <3>4. CASE ~(c.next[then] <= now)
      <4>1. b - 1 \in Int /\ At(b - 1, slot) \in Int /\ At(a, slot) \in Int /\ At(a - 1, slot) \in Int
            /\ At(b - 1, slot) <= now /\ ~(At(a, slot) <= now) /\ At(a - 1, slot) <= then
        BY <2>1, <3>2, <3>4
      <4>2. ~(a <= b - 1)
        BY <3>1, <3>2, <4>1
      <4>3. At(b - 1, slot) <= At(a - 1, slot)
        BY <3>2, <4>1, <4>2
      <4>4. At(b - 1, slot) <= then
        BY <3>1, <4>1, <4>3
      <4> QED BY <2>1, <3>4, <4>4
    <3> QED BY <3>3, <3>4
  <2> QED BY <2>1, <2>2
<1>5. c.next[From] <= From + c.every
  BY <1>1, <1>2, <1>3
<1>6. Mon!GoesByFirings(c)
  BY <1>4 DEF Mon!GoesByFirings
<1> QED BY <1>2, <1>5, <1>6 DEF c

\* What the monitor is proved right about includes the schedules that the code has: intervals,
\* and crons that fire once a day (users/jobs.py).
THEOREM PlainSchedulesWillDo == PlainSchedules => Mon!JobsAssumption
<1> SUFFICES ASSUME PlainSchedules PROVE Mon!JobsAssumption
  OBVIOUS
<1>1. /\ From \in Int /\ Until \in Int /\ From <= Until
      /\ StallThreshold \in Nat /\ Never \notin Int
  BY DEF PlainSchedules
<1>2. ASSUME NEW j \in DOMAIN Specs
      PROVE  /\ Mon!Every(j) \in Nat \ {0} /\ JobClocks[j].expires \in Nat
             /\ IF Specs[j].schedule.cron
                THEN Mon!GoesByFirings(JobClocks[j]) /\ JobClocks[j].next[From] <= From + Mon!Every(j)
                ELSE /\ Specs[j].offset \in 0..(Mon!Every(j) - 1)
                     /\ \A now \in From..Until : JobClocks[j].next[now] = now + Mon!Every(j)
  <2> DEFINE c == ClockOf(Specs[j], From, Until)
  <2>1. JobClocks[j] = c
    BY DEF JobClocks
  <2>2. Specs[j].expires \in Nat
    BY DEF PlainSchedules
  <2>3. PeriodOf(Specs[j].schedule) \in Nat \ {0}
    BY DailyPeriod DEF PeriodOf, PlainSchedules
  <2>4. c.every = PeriodOf(Specs[j].schedule) /\ c.expires = ExpireSeconds(Specs[j])
    BY DEF ClockOf
  <2>5. ExpireSeconds(Specs[j]) \in Nat
    <3> DEFINE share == (PeriodOf(Specs[j].schedule) * 9) \div 10
    <3>1. share \in Int
      BY <2>3
    <3> HIDE DEF share
    <3>2. Max({1, share}) \in Nat
      <4>1. CASE share <= 1
        <5>1. Max({1, share}) = 1
          BY <3>1, <4>1, GreatestIs
        <5> QED BY <5>1
      <4>2. CASE 1 <= share
        <5>1. Max({1, share}) = share
          BY <3>1, <4>2, GreatestIs
        <5> QED BY <3>1, <4>2, <5>1
      <4> QED BY <3>1, <4>1, <4>2
    <3> QED BY <2>2, <3>2 DEF ExpireSeconds, share
  <2>6. CASE Specs[j].schedule.cron
    <3>1. PICK slot \in 0..(SlotsPerDay - 1) : Specs[j].schedule.fires = DailyAt(slot)
      BY <2>6 DEF PlainSchedules
    <3>2. Mon!GoesByFirings(c) /\ c.next[From] <= From + c.every
      BY <2>6, <3>1, DailyGoesByFirings
    <3> HIDE DEF c
    <3> QED BY <2>1, <2>3, <2>4, <2>5, <2>6, <3>2 DEF Mon!Every
  <2>7. CASE ~Specs[j].schedule.cron
    <3>1. Specs[j].offset \in 0..(Specs[j].schedule.every - 1)
          /\ PeriodOf(Specs[j].schedule) = Specs[j].schedule.every
      BY <2>7 DEF PlainSchedules, PeriodOf
    <3>2. \A now \in From..Until : c.next[now] = now + PeriodOf(Specs[j].schedule)
      BY <2>7 DEF ClockOf
    <3> HIDE DEF c
    <3> QED BY <2>1, <2>3, <2>4, <2>5, <2>7, <3>1, <3>2 DEF Mon!Every
  <2> QED BY <2>6, <2>7
<1>3. Mon!Jobs = DOMAIN Specs
  BY DEF Mon!Jobs
<1> QED BY <1>1, <1>2, <1>3 DEF Mon!JobsAssumption

-----------------------------------------------------------------------------
\* The runs are behaviours of the parts that the theorems are about: whichever part a behaviour
\* of MCStartup looks at, the others only stutter.
THEOREM EveryRunIsABehaviour == MCSpec => BootSpec /\ PlugSpec /\ Ring!Spec /\ Sched!Spec /\ Mon!Spec
<1>1. MCInit => BootInit /\ Plug!Init /\ Ring!Init /\ Sched!Init /\ Mon!Init
  BY DEF MCInit, BootInit
<1>2. [MCNext]_mcvars => [MCBoot /\ UNCHANGED plan]_bootvars
  BY DEF MCNext, mcvars, bootvars
<1>3. [MCNext]_mcvars => [Plug!Next(Manifests)]_plugvars
  BY DEF MCNext, mcvars, plugvars
<1>4. [MCNext]_mcvars => [Ring!Next]_(Ring!vars)
  BY DEF MCNext, mcvars, keyvars, Ring!vars
<1>5. [MCNext]_mcvars => [Sched!Next]_(Sched!vars)
  BY DEF MCNext, mcvars, syncvars, Sched!vars
<1>6. [MCNext]_mcvars => [Mon!Next]_(Mon!vars)
  BY DEF MCNext, mcvars, jobvars, Mon!vars
<1> QED BY <1>1, <1>2, <1>3, <1>4, <1>5, <1>6, PTL
        DEF MCSpec, BootSpec, PlugSpec, Ring!Spec, Sched!Spec, Mon!Spec
=============================================================================
