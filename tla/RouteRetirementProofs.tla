------------------------ MODULE RouteRetirementProofs ------------------------
(***************************************************************************)
(* Type correctness of RouteRetirement, soundness of the generations in    *)
(* directory.json, and that both files together never lose a retirement    *)
(* or a conflict, for any number of peers, keys, CLI processes, failed     *)
(* writes, crashes and power losses.  The parts that compare the two files *)
(* need a file system that orders writes, or no power loss.                *)
(***************************************************************************)
EXTENDS RouteRetirement, FiniteSetTheorems, TLAPS

-----------------------------------------------------------------------------
(* Maxima. *)

(* A member of a set of numbers that bounds the set is its maximum.        *)
LEMMA MaxIs ==
  ASSUME NEW S \in SUBSET Nat, NEW n \in S, \A m \in S : m <= n
  PROVE  MaxOf(S) = n
<1>1. \E x \in S : \A m \in S : m <= x
  OBVIOUS
<1>2. MaxOf(S) \in S /\ \A m \in S : m <= MaxOf(S)
  BY <1>1 DEF MaxOf
<1>3. MaxOf(S) <= n /\ n <= MaxOf(S)
  BY <1>2
<1>4. MaxOf(S) \in Nat /\ n \in Nat
  BY <1>2
<1> QED
  BY <1>3, <1>4

(* The maximum of two counters is one of them and bounds both.             *)
LEMMA MaxPair ==
  ASSUME NEW a \in Nat, NEW b \in Nat
  PROVE  /\ MaxOf({a, b}) \in Nat
         /\ MaxOf({a, b}) = IF b <= a THEN a ELSE b
<1>1. CASE b <= a
  BY <1>1, MaxIs, \A m \in {a, b} : m <= a
<1>2. CASE ~(b <= a)
  BY <1>2, MaxIs, \A m \in {a, b} : m <= b
<1> QED
  BY <1>1, <1>2

(* A counter that already bounds everything else loaded with it is kept.   *)
LEMMA MaxGens ==
  ASSUME NEW g \in Nat, NEW S \in SUBSET Nat, NEW tomb \in [Keys -> Nat],
         g \in S, \A x \in S : x <= g, \A k \in Keys : tomb[k] <= g
  PROVE  MaxOf(S \cup Gens(tomb)) = g
<1>1. Gens(tomb) \in SUBSET Nat /\ \A x \in Gens(tomb) : x <= g
  BY DEF Gens
<1> QED
  BY <1>1, MaxIs

-----------------------------------------------------------------------------
(* Views. *)

(* A sound view, its provisional tombstones aside.                         *)
SoundBut(d) ==
  /\ d.applied <= d.routeGen
  /\ \A k \in Keys : d.tomb[k] # 0 =>
       d.applied < d.tomb[k] /\ d.tomb[k] <= d.routeGen
  /\ \A j, k \in Keys : d.tomb[j] = d.tomb[k] => d.tomb[j] = 0 \/ j = k

(* d with some keys retired and some records changed, nothing numbered.    *)
Edited(d, m) ==
  /\ m \in View
  /\ m.routeGen = d.routeGen
  /\ m.applied = d.applied
  /\ \A k \in Keys : m.tomb[k] = IF k \in m.prov THEN 0 ELSE d.tomb[k]

(* Pruning at a mark no tombstone has reached removes nothing.             *)
LEMMA PruneNothing ==
  ASSUME NEW tomb \in [Keys -> Nat], NEW n \in Nat,
         \A k \in Keys : tomb[k] # 0 => n < tomb[k]
  PROVE  PruneTombstones(tomb, n) = tomb
<1>1. \A k \in Keys : (IF tomb[k] <= n THEN 0 ELSE tomb[k]) = tomb[k]
  OBVIOUS
<1> QED
  BY <1>1 DEF PruneTombstones

(* Loading a sound file changes nothing.                                   *)
LEMMA LoadSound ==
  ASSUME NEW d \in View, Sound(d)
  PROVE  /\ Load(d) \in View
         /\ Edited(d, Load(d))
         /\ Load(d).prov = {}
         /\ \A k \in Keys : Load(d).tomb[k] = d.tomb[k]
<1>1. d.routeGen \in Nat /\ d.applied \in Nat /\ d.tomb \in [Keys -> Nat]
  BY DEF View
<1>2. MaxOf({d.routeGen, d.applied} \cup Gens(d.tomb)) = d.routeGen
  <2>1. \A x \in {d.routeGen, d.applied} : x <= d.routeGen
    BY <1>1 DEF Sound
  <2>2. \A k \in Keys : d.tomb[k] <= d.routeGen
    BY <1>1 DEF Sound
  <2> QED
    BY <1>1, <2>1, <2>2, MaxGens
<1>3. PruneTombstones(d.tomb, d.applied) = d.tomb
  BY <1>1, PruneNothing DEF Sound
<1>4. Load(d) = [d EXCEPT !.routeGen = d.routeGen, !.tomb = d.tomb]
  BY <1>2, <1>3 DEF Load
<1>5. Load(d) = d
  BY <1>4 DEF View
<1> QED
  BY <1>5 DEF Edited, Sound

(* Each directory operation edits the view it starts from.                 *)
LEMMA TombstoneEdits ==
  ASSUME NEW d \in View, d.prov = {}, NEW k \in Keys
  PROVE  Edited(d, Tombstone(d, k))
<1> DEFINE m == Tombstone(d, k)
<1>1. m \in View
  BY DEF Tombstone, View
<1>2. m.routeGen = d.routeGen /\ m.applied = d.applied /\ m.prov = {k}
  BY DEF Tombstone, View
<1>3. m.tomb = [d.tomb EXCEPT ![k] = 0]
  BY DEF Tombstone, View
<1>4. d.tomb \in [Keys -> Nat]
  BY DEF View
<1> QED
  BY <1>1, <1>2, <1>3, <1>4 DEF Edited

LEMMA ForgetEdits ==
  ASSUME NEW d \in View, d.prov = {}, NEW p \in Peers, Holds(d, p)
  PROVE  Edited(d, Forget(d, p))
<1>1. d.admitted[p].id \in Keys
  BY DEF View, Record, Holds
<1> DEFINE t == Tombstone(d, d.admitted[p].id)
<1>2. Edited(d, t)
  BY <1>1, TombstoneEdits
<1> HIDE DEF t
<1>3. Forget(d, p) = [t EXCEPT !.admitted = [@ EXCEPT ![p] = None]]
  BY DEF Forget, t
<1>4. t \in View
  BY <1>2 DEF Edited
<1>5. [t EXCEPT !.admitted = [@ EXCEPT ![p] = None]] \in View
  BY <1>4 DEF View
<1> QED
  BY <1>2, <1>3, <1>4, <1>5 DEF Edited, View

LEMMA RotateEdits ==
  ASSUME NEW d \in View, d.prov = {}, NEW p \in Peers, Holds(d, p), NEW j \in Keys
  PROVE  Edited(d, RotateKey(d, p, j))
<1>1. d.admitted[p].id \in Keys /\ d.admitted[p].rev \in Nat
  BY DEF View, Record, Holds
<1> DEFINE t == Tombstone(d, d.admitted[p].id)
<1>2. Edited(d, t)
  BY <1>1, TombstoneEdits
<1>3. t.admitted = d.admitted
  BY DEF Tombstone, View
<1> HIDE DEF t
<1> DEFINE r == [id |-> j, rev |-> d.admitted[p].rev + 1]
<1>4. RotateKey(d, p, j) = [t EXCEPT !.admitted = [@ EXCEPT ![p] = r]]
  BY DEF RotateKey, t
<1>5. t \in View /\ r \in Record
  BY <1>1, <1>2, <1>3 DEF Edited, Record
<1> HIDE DEF r
<1>6. [t EXCEPT !.admitted = [@ EXCEPT ![p] = r]] \in View
  BY <1>5 DEF View
<1> QED
  BY <1>2, <1>4, <1>5, <1>6 DEF Edited, View

LEMMA AdmitEdits ==
  ASSUME NEW d \in View, d.prov = {}, NEW p \in Peers, NEW j \in Keys
  PROVE  Edited(d, Admit(d, p, j))
<1>1. Admit(d, p, j) \in View
  BY DEF Admit, View, Record
<1> QED
  BY <1>1 DEF Admit, Edited, View

-----------------------------------------------------------------------------
(* Numbering. *)

(* What finalizeRouteGens does to a view that is sound but for its         *)
(* provisional tombstones: those get numbers of their own above the old    *)
(* counter, the others keep theirs, and the counter covers them all.       *)
LEMMA FinalizeFacts ==
  ASSUME NEW d \in View, SoundBut(d), NEW order \in Orders(d.prov), NEW stamp \in Nat
  PROVE  LET f == FinalizeRouteGens(d, order, stamp) IN
         /\ f \in View
         /\ Sound(f)
         /\ f.applied = d.applied
         /\ d.routeGen <= f.routeGen
         /\ \A k \in Keys : IF k \in d.prov THEN d.routeGen < f.tomb[k]
                                            ELSE f.tomb[k] = d.tomb[k]
<1> DEFINE f == FinalizeRouteGens(d, order, stamp)
<1>1. /\ d.routeGen \in Nat /\ d.applied \in Nat /\ d.tomb \in [Keys -> Nat]
      /\ d.prov \in SUBSET Keys /\ d.log \in [Keys -> Nat]
  BY DEF View
<1>2. CASE d.prov = {}
  <2>1. f = d
    BY <1>2 DEF FinalizeRouteGens
  <2>2. Sound(d)
    BY <1>2 DEF Sound, SoundBut
  <2> QED
    BY <1>1, <1>2, <2>1, <2>2
<1>3. CASE d.prov # {}
  <2> DEFINE n == Cardinality(d.prov)
             base == MaxOf({d.routeGen, d.applied} \cup Gens(d.tomb))
             tomb == [k \in Keys |-> IF k \in d.prov THEN base + order[k] ELSE d.tomb[k]]
             log == [k \in Keys |-> IF k \in d.prov THEN stamp ELSE d.log[k]]
  <2>1. n \in Nat
    BY <1>1, ConstantsAssumption, FS_Subset, FS_CardinalityType
  <2>2. base = d.routeGen
    <3>1. \A x \in {d.routeGen, d.applied} : x <= d.routeGen
      BY <1>1 DEF SoundBut
    <3>2. \A k \in Keys : d.tomb[k] <= d.routeGen
      BY <1>1 DEF SoundBut
    <3> QED
      BY <1>1, <3>1, <3>2, MaxGens
  <2>3. /\ \A k \in d.prov : order[k] \in Nat /\ 1 <= order[k] /\ order[k] <= n
        /\ \A j, k \in d.prov : order[j] = order[k] => j = k
    BY <2>1 DEF Orders
  <2>4. f = [d EXCEPT !.tomb = tomb, !.prov = {}, !.routeGen = base + n, !.log = log]
    BY <1>3 DEF FinalizeRouteGens
  <2> HIDE DEF n, base
  <2>5. tomb \in [Keys -> Nat] /\ log \in [Keys -> Nat]
    BY <1>1, <2>2, <2>3
  <2>6. \A k \in Keys : IF k \in d.prov THEN tomb[k] = d.routeGen + order[k]
                                       ELSE tomb[k] = d.tomb[k]
    BY <2>2
  <2> HIDE DEF tomb, log, f
  <2>7. f \in View
    <3>1. f = [d EXCEPT !.tomb = tomb, !.prov = {}, !.routeGen = d.routeGen + n,
                        !.log = log]
      BY <2>2, <2>4
    <3>2. d.routeGen + n \in Nat
      BY <1>1, <2>1
    <3> HIDE DEF n
    <3>3. ASSUME NEW g \in Nat
          PROVE  [d EXCEPT !.tomb = tomb, !.prov = {}, !.routeGen = g, !.log = log]
                   \in View
      BY <2>5 DEF View
    <3> QED
      BY <3>1, <3>2, <3>3
  <2>8. /\ f.tomb = tomb /\ f.prov = {} /\ f.applied = d.applied
        /\ f.routeGen = d.routeGen + n
    BY <2>2, <2>4 DEF View
  <2>9. \A k \in Keys : IF k \in d.prov THEN d.routeGen < tomb[k]
                                       ELSE tomb[k] = d.tomb[k]
    BY <1>1, <2>3, <2>6
  <2>10. Sound(f)
    <3>1. f.applied <= f.routeGen
      BY <1>1, <2>1, <2>8 DEF SoundBut
    <3>2. ASSUME NEW k \in Keys, tomb[k] # 0
          PROVE  f.applied < tomb[k] /\ tomb[k] <= f.routeGen
      <4>1. CASE k \in d.prov
        BY <1>1, <2>1, <2>3, <2>6, <2>8, <4>1 DEF SoundBut
      <4>2. CASE k \notin d.prov
        BY <1>1, <2>1, <2>6, <2>8, <3>2, <4>2 DEF SoundBut
      <4> QED
        BY <4>1, <4>2
    <3>3. ASSUME NEW j \in Keys, NEW k \in Keys, tomb[j] = tomb[k]
          PROVE  tomb[j] = 0 \/ j = k
      <4>1. CASE j \in d.prov /\ k \in d.prov
        BY <1>1, <2>3, <2>6, <3>3, <4>1
      <4>2. CASE j \notin d.prov /\ k \notin d.prov
        BY <1>1, <2>6, <3>3, <4>2 DEF SoundBut
      <4>3. CASE j \in d.prov /\ k \notin d.prov
        BY <1>1, <2>3, <2>6, <3>3, <4>3 DEF SoundBut
      <4>4. CASE j \notin d.prov /\ k \in d.prov
        BY <1>1, <2>3, <2>6, <3>3, <4>4 DEF SoundBut
      <4> QED
        BY <4>1, <4>2, <4>3, <4>4
    <3> QED
      BY <2>8, <3>1, <3>2, <3>3 DEF Sound
  <2> QED
    BY <1>1, <2>1, <2>7, <2>8, <2>9, <2>10 DEF f
<1> QED
  BY <1>2, <1>3

-----------------------------------------------------------------------------
(* Reconciling. *)

(* An edit of a sound view is sound but for its provisionals.              *)
LEMMA EditedSound ==
  ASSUME NEW d \in View, Sound(d), NEW m, Edited(d, m)
  PROVE  m \in View /\ SoundBut(m)
<1>1. d.tomb \in [Keys -> Nat] /\ m.tomb \in [Keys -> Nat] /\ m \in View
  BY DEF Edited, View
<1> QED
  BY <1>1 DEF Edited, Sound, SoundBut

(* The merged record of each peer is a record or none.                     *)
LEMMA MergeByRevisionType ==
  ASSUME NEW a \in [Peers -> Record \cup {None}],
         NEW b \in [Peers -> Record \cup {None}],
         NEW base \in [Peers -> Record \cup {None}]
  PROVE  MergeByRevision(a, b, base) \in [Peers -> Record \cup {None}]
<1>1. ASSUME NEW x \in Record, NEW y \in Record, NEW z \in Record \cup {None}
      PROVE  MergeRecord(x, y, z) \in Record
  <2>1. MaxOf({x.rev, y.rev}) \in Nat
    BY MaxPair DEF Record
  <2> DEFINE both == [id |-> IF y.id # z.id /\ x.id = z.id THEN y.id ELSE x.id,
                      rev |-> MaxOf({x.rev, y.rev})]
  <2>2. both \in Record
    BY <2>1 DEF Record
  <2>3. MergeRecord(x, y, z) \in {x, y, both}
    BY DEF MergeRecord
  <2> QED
    BY <2>2, <2>3
<1>2. ASSUME NEW p \in Peers
      PROVE  MergeByRevision(a, b, base)[p] \in Record \cup {None}
  <2>1. CASE b[p] # None /\ a[p] # None
    <3>1. MergeByRevision(a, b, base)[p] = MergeRecord(a[p], b[p], base[p])
      BY <2>1 DEF MergeByRevision
    <3> QED
      BY <1>1, <2>1, <3>1
  <2>2. CASE b[p] = None
    BY <2>2 DEF MergeByRevision
  <2>3. CASE b[p] # None /\ a[p] = None
    BY <2>3 DEF MergeByRevision
  <2> QED
    BY <2>1, <2>2, <2>3
<1> QED
  BY <1>2 DEF MergeByRevision

(* However stale the view a writer started from, what it brings to the     *)
(* file under the lock is an edit of the file as it is now: no tombstone   *)
(* of another writer is lost or lowered and none already consumed returns. *)
LEMMA ReconcileEdits ==
  ASSUME NEW d \in View, Sound(d), NEW base \in View, Behind(base, d),
         NEW mine, Edited(base, mine)
  PROVE  Edited(d, ReconcilePersist(d, base, mine))
<1> DEFINE r == ReconcilePersist(d, base, mine)
           applied == MaxOf({d.applied, base.applied, mine.applied})
           merged == MergeTombstones(d, mine)
<1>1. /\ d.routeGen \in Nat /\ d.applied \in Nat /\ d.tomb \in [Keys -> Nat]
      /\ base.routeGen \in Nat /\ base.applied \in Nat /\ base.tomb \in [Keys -> Nat]
      /\ mine \in View /\ mine.tomb \in [Keys -> Nat] /\ mine.prov \in SUBSET Keys
      /\ d.log \in [Keys -> Nat]
  BY DEF View, Edited
<1>2. applied = d.applied
  <2>1. {d.applied, base.applied, mine.applied} \in SUBSET Nat
    BY <1>1 DEF Edited
  <2>2. \A x \in {d.applied, base.applied, mine.applied} : x <= d.applied
    BY <1>1 DEF Edited, Behind
  <2> QED
    BY <2>1, <2>2, MaxIs
<1>3. MaxOf({d.routeGen, base.routeGen, mine.routeGen}) = d.routeGen
  <2>1. {d.routeGen, base.routeGen, mine.routeGen} \in SUBSET Nat
    BY <1>1 DEF Edited
  <2>2. \A x \in {d.routeGen, base.routeGen, mine.routeGen} : x <= d.routeGen
    BY <1>1 DEF Edited, Behind
  <2> QED
    BY <2>1, <2>2, MaxIs
<1>4. d.prov = {} /\ d.prov \cup mine.prov = mine.prov
  BY DEF Sound
<1>5. ASSUME NEW k \in Keys
      PROVE  /\ PruneTombstones(merged, d.applied)[k] \in Nat
             /\ PruneTombstones(merged, d.applied)[k] =
                  IF k \in mine.prov THEN 0 ELSE d.tomb[k]
  <2>1. CASE k \in mine.prov
    <3>1. merged[k] = 0
      BY <2>1 DEF MergeTombstones
    <3> QED
      BY <2>1, <3>1 DEF PruneTombstones
  <2>2. CASE k \notin mine.prov
    <3>1. merged[k] = MaxOf({d.tomb[k], mine.tomb[k]})
      BY <1>4, <2>2 DEF MergeTombstones
    <3>2. mine.tomb[k] = base.tomb[k]
      BY <2>2 DEF Edited
    <3>3. merged[k] = IF base.tomb[k] <= d.tomb[k] THEN d.tomb[k] ELSE base.tomb[k]
      BY <1>1, <3>1, <3>2, MaxPair
    <3>4. base.tomb[k] <= d.tomb[k] \/ base.tomb[k] <= d.applied
      BY DEF Behind
    <3>5. d.tomb[k] # 0 => d.applied < d.tomb[k]
      BY DEF Sound
    <3>6. PruneTombstones(merged, d.applied)[k] =
            IF merged[k] <= d.applied THEN 0 ELSE merged[k]
      BY DEF PruneTombstones
    <3>7. d.tomb[k] \in Nat /\ base.tomb[k] \in Nat /\ d.applied \in Nat
      BY <1>1
    <3> HIDE DEF merged
    <3> QED
      BY <2>2, <3>3, <3>4, <3>5, <3>6, <3>7
  <2> QED
    BY <2>1, <2>2
<1>6. MergeByRevision(d.admitted, mine.admitted, base.admitted)
        \in [Peers -> Record \cup {None}]
  BY <1>1, MergeByRevisionType DEF View
<1>7. /\ r.routeGen = d.routeGen /\ r.applied = d.applied /\ r.prov = mine.prov
      /\ r.tomb = PruneTombstones(merged, d.applied)
  BY <1>2, <1>3, <1>4 DEF ReconcilePersist
<1>8. r.tomb \in [Keys -> Nat]
  <2>1. r.tomb = [k \in Keys |-> PruneTombstones(merged, d.applied)[k]]
    BY <1>7 DEF PruneTombstones
  <2> QED
    BY <1>5, <2>1
<1>9. r \in View
  <2>1. r = [routeGen |-> r.routeGen, applied |-> r.applied, tomb |-> r.tomb,
             prov |-> r.prov,
             admitted |-> MergeByRevision(d.admitted, mine.admitted, base.admitted),
             log |-> d.log]
    BY DEF ReconcilePersist
  <2> HIDE DEF r
  <2> QED
    BY <1>1, <1>6, <1>7, <1>8, <2>1 DEF View
<1> QED
  BY <1>5, <1>7, <1>9 DEF Edited

-----------------------------------------------------------------------------
(* The invariant. *)

IInv == TypeOK /\ GenerationInv

(* How directory.json changes when a writer holding an edit of it writes:  *)
(* only new tombstones, numbered above the counter, and a higher counter.  *)
Grown(d, e) ==
  /\ e \in View
  /\ Sound(e)
  /\ e.applied = d.applied
  /\ d.routeGen <= e.routeGen
  /\ \A k \in Keys : e.tomb[k] = d.tomb[k] \/ d.routeGen < e.tomb[k]

LEMMA InitInv ==
  Init => IInv
<1> SUFFICES ASSUME Init PROVE IInv
  OBVIOUS
<1>1. \A recs \in [Peers -> Record \cup {None}] :
        EmptyView(recs) \in View /\ Sound(EmptyView(recs))
  BY DEF EmptyView, View, Sound
<1>2. [Peers -> [id : Keys, rev : {1}] \cup {None}]
        \subseteq [Peers -> Record \cup {None}]
  BY DEF Record
<1>3. disk \in View /\ Sound(disk)
  BY <1>1, <1>2 DEF Init
<1>4. NoView \in View
  <2>1. [p \in Peers |-> None] \in [Peers -> Record \cup {None}]
    OBVIOUS
  <2> QED
    BY <1>1, <2>1 DEF NoView
<1>5. EmptyStore \in Store
  BY DEF EmptyStore, Store
<1>6. TypeOK
  BY <1>3, <1>4, <1>5 DEF Init, TypeOK
<1>7. GenerationInv
  BY <1>3 DEF Init, GenerationInv, BootingBehind
<1> QED
  BY <1>6, <1>7 DEF IInv

(* A write under the lock, of any edit of the file as it is now.           *)
LEMMA WriteGrows ==
  ASSUME IInv, NEW m, Edited(disk, m), WriteDirectory(m)
  PROVE  Grown(disk, disk') /\ serial' \in Nat
<1>1. disk \in View /\ Sound(disk) /\ serial \in Nat
  BY DEF IInv, TypeOK, GenerationInv
<1>2. m \in View /\ SoundBut(m)
  BY <1>1, EditedSound
<1>3. PICK order \in Orders(m.prov) : disk' = FinalizeRouteGens(m, order, serial + 1)
  BY DEF WriteDirectory
<1>4. serial + 1 \in Nat /\ serial' \in Nat
  BY <1>1 DEF WriteDirectory
<1>5. /\ disk' \in View
      /\ Sound(disk')
      /\ disk'.applied = m.applied
      /\ m.routeGen <= disk'.routeGen
      /\ \A k \in Keys : IF k \in m.prov THEN m.routeGen < disk'.tomb[k]
                                         ELSE disk'.tomb[k] = m.tomb[k]
  BY <1>2, <1>3, <1>4, FinalizeFacts
<1> QED
  BY <1>4, <1>5 DEF Grown, Edited

(* Growth keeps every view loaded earlier behind the file.                 *)
LEMMA BehindGrown ==
  ASSUME NEW v \in View, NEW d \in View, NEW e, Sound(d), Behind(v, d), Grown(d, e)
  PROVE  Behind(v, e)
<1>1. /\ v.routeGen \in Nat /\ v.applied \in Nat /\ v.tomb \in [Keys -> Nat]
      /\ d.routeGen \in Nat /\ d.applied \in Nat /\ d.tomb \in [Keys -> Nat]
      /\ e.routeGen \in Nat /\ e.applied \in Nat /\ e.tomb \in [Keys -> Nat]
  BY DEF Grown, View
<1>2. ASSUME NEW k \in Keys
      PROVE  v.tomb[k] <= e.tomb[k] \/ v.tomb[k] <= e.applied
  <2>1. d.tomb[k] <= d.routeGen
    BY <1>1 DEF Sound
  <2>2. v.tomb[k] <= d.tomb[k] \/ v.tomb[k] <= d.applied
    BY DEF Behind
  <2>3. e.tomb[k] = d.tomb[k] \/ d.routeGen < e.tomb[k]
    BY DEF Grown
  <2>4. e.applied = d.applied
    BY DEF Grown
  <2> QED
    BY <1>1, <2>1, <2>2, <2>3, <2>4
<1> QED
  BY <1>1, <1>2 DEF Behind, Grown

(* What a growing write leaves of the inductive invariant, when the CLI    *)
(* views that remain are among those there were and the daemon's view is   *)
(* not the one a startup in progress loaded, or has not changed.           *)
LEMMA GrownKeepsInv ==
  ASSUME IInv, Grown(disk, disk'),
         \A c \in Clis : cli'[c] # None => cli'[c] = cli[c],
         phase' = phase, phase = "serving" \/ dir' = dir,
         dirPlatter' \in {dirPlatter, disk'}
  PROVE  GenerationInv'
<1>1. disk \in View /\ Sound(disk) /\ dir \in View
  BY DEF IInv, TypeOK, GenerationInv
<1>2. Sound(disk') /\ Sound(dirPlatter')
  BY DEF Grown, IInv, GenerationInv
<1>3. ASSUME NEW c \in Clis, cli'[c] # None
      PROVE  Behind(cli'[c], disk')
  <2>1. cli[c] \in View /\ Behind(cli[c], disk) /\ cli'[c] = cli[c]
    BY <1>3 DEF IInv, TypeOK, GenerationInv
  <2> QED
    BY <1>1, <2>1, BehindGrown
<1>4. BootingBehind'
  <2> SUFFICES ASSUME phase \notin {"down", "serving"}
               PROVE  /\ dir.routeGen <= disk'.routeGen
                      /\ \A k \in Keys : \/ dir.routeGen < disk'.tomb[k]
                                        \/ disk'.tomb[k] = dir.tomb[k]
    BY DEF BootingBehind
  <2>1. /\ dir.routeGen <= disk.routeGen
        /\ \A k \in Keys : dir.routeGen < disk.tomb[k] \/ disk.tomb[k] = dir.tomb[k]
    BY DEF IInv, GenerationInv, BootingBehind
  <2>2. /\ dir.routeGen \in Nat /\ disk.routeGen \in Nat /\ disk'.routeGen \in Nat
        /\ disk.tomb \in [Keys -> Nat] /\ disk'.tomb \in [Keys -> Nat]
    BY <1>1 DEF Grown, View
  <2>3. disk.routeGen <= disk'.routeGen
    BY DEF Grown
  <2>4. ASSUME NEW k \in Keys
        PROVE  dir.routeGen < disk'.tomb[k] \/ disk'.tomb[k] = dir.tomb[k]
    <3>1. disk'.tomb[k] = disk.tomb[k] \/ disk.routeGen < disk'.tomb[k]
      BY DEF Grown
    <3> QED
      BY <2>1, <2>2, <3>1
  <2> QED
    BY <2>1, <2>2, <2>3, <2>4
<1> QED
  BY <1>2, <1>3, <1>4 DEF GenerationInv

-----------------------------------------------------------------------------
(* CLI processes. *)

LEMMA CliLoadInv ==
  ASSUME IInv, NEW c \in Clis, CliLoad(c)
  PROVE  IInv'
<1>1. /\ disk \in View /\ Sound(disk) /\ cli \in [Clis -> View \cup {None}]
      /\ cli' = [cli EXCEPT ![c] = Load(disk)]
  BY DEF IInv, TypeOK, GenerationInv, CliLoad
<1>2. /\ Load(disk) \in View /\ Edited(disk, Load(disk)) /\ Load(disk).prov = {}
      /\ \A k \in Keys : Load(disk).tomb[k] = disk.tomb[k]
  BY <1>1, LoadSound
<1>3. Behind(Load(disk), disk)
  BY <1>1, <1>2 DEF Behind, Edited, View
<1>4. TypeOK'
  <2>1. cli' \in [Clis -> View \cup {None}]
    BY <1>1, <1>2
  <2> QED
    BY <2>1 DEF IInv, TypeOK, CliLoad, fileVars, daemonVars
<1>5. \A b \in Clis : cli'[b] # None => Behind(cli'[b], disk')
  BY <1>1, <1>3 DEF IInv, GenerationInv, CliLoad, fileVars
<1>6. GenerationInv'
  BY <1>5 DEF IInv, GenerationInv, BootingBehind, CliLoad, fileVars, daemonVars
<1> QED
  BY <1>4, <1>6 DEF IInv

LEMMA CliPersistInv ==
  ASSUME IInv, NEW c \in Clis, cli[c] # None,
         NEW mine, Edited(cli[c], mine), CliPersist(c, mine)
  PROVE  IInv'
<1>1. disk \in View /\ Sound(disk) /\ cli[c] \in View /\ Behind(cli[c], disk)
  BY DEF IInv, TypeOK, GenerationInv
<1>2. Edited(disk, ReconcilePersist(disk, cli[c], mine))
  BY <1>1, ReconcileEdits
<1>3. WriteDirectory(ReconcilePersist(disk, cli[c], mine))
  BY DEF CliPersist
<1>4. Grown(disk, disk') /\ serial' \in Nat
  BY <1>2, <1>3, WriteGrows
<1>5. /\ cli \in [Clis -> View \cup {None}]
      /\ cli' = [cli EXCEPT ![c] = None]
      /\ UNCHANGED <<dirPlatter, keys, keysPlatter, phase, dir, store, degraded, faults>>
  BY DEF CliPersist, daemonVars, IInv, TypeOK
<1>6. cli' \in [Clis -> View \cup {None}]
      /\ \A b \in Clis : cli'[b] # None => cli'[b] = cli[b]
  BY <1>5
<1>7. TypeOK'
  BY <1>4, <1>5, <1>6 DEF IInv, TypeOK, Grown
<1>8. GenerationInv'
  BY <1>4, <1>5, <1>6, GrownKeepsInv
<1> QED
  BY <1>7, <1>8 DEF IInv

LEMMA CliInv ==
  ASSUME IInv, Cli
  PROVE  IInv'
<1>1. PICK c \in Clis :
        \/ CliLoad(c)
        \/ CliExit(c)
        \/ \E p \in Peers : CliForget(c, p)
        \/ \E p \in Peers, k \in Keys : CliRotate(c, p, k) \/ CliAdd(c, p, k)
  BY DEF Cli
<1>2. CASE CliLoad(c)
  BY <1>2, CliLoadInv
<1>3. CASE CliExit(c)
  <2>1. /\ cli \in [Clis -> View \cup {None}] /\ cli' = [cli EXCEPT ![c] = None]
        /\ UNCHANGED <<fileVars, daemonVars, faults, serial>>
    BY <1>3 DEF CliExit, IInv, TypeOK
  <2>2. cli' \in [Clis -> View \cup {None}]
        /\ \A b \in Clis : cli'[b] # None => cli'[b] = cli[b]
    BY <2>1
  <2> QED
    BY <2>1, <2>2 DEF IInv, TypeOK, GenerationInv, BootingBehind, fileVars, daemonVars
<1>4. cli[c] # None => cli[c] \in View /\ cli[c].prov = {}
  BY DEF IInv, TypeOK, GenerationInv, Behind
<1>5. ASSUME NEW p \in Peers, CliForget(c, p)
      PROVE  IInv'
  <2>1. cli[c] # None /\ Edited(cli[c], Forget(cli[c], p))
    BY <1>4, <1>5, ForgetEdits DEF CliForget
  <2> QED
    BY <1>5, <2>1, CliPersistInv DEF CliForget
<1>6. ASSUME NEW p \in Peers, NEW k \in Keys, CliRotate(c, p, k)
      PROVE  IInv'
  <2>1. cli[c] # None /\ Edited(cli[c], RotateKey(cli[c], p, k))
    BY <1>4, <1>6, RotateEdits DEF CliRotate
  <2> QED
    BY <1>6, <2>1, CliPersistInv DEF CliRotate
<1>7. ASSUME NEW p \in Peers, NEW k \in Keys, CliAdd(c, p, k)
      PROVE  IInv'
  <2>1. cli[c] # None /\ Edited(cli[c], Admit(cli[c], p, k))
    BY <1>4, <1>7, AdmitEdits DEF CliAdd
  <2> QED
    BY <1>7, <2>1, CliPersistInv DEF CliAdd
<1> QED
  BY <1>1, <1>2, <1>3, <1>5, <1>6, <1>7

-----------------------------------------------------------------------------
(* Daemon steps that do not touch directory.json. *)

Phases == {"down", "loaded", "dropped", "kept", "durable", "serving"}

(* What a step that may write the sidecar leaves behind.                   *)
SidecarTyped ==
  /\ keys' \in Store /\ keysPlatter' \in Store
  /\ faults' \in Nat /\ degraded' \in BOOLEAN
  /\ dirPlatter' \in {dirPlatter, disk'}

LEMMA SidecarTypes ==
  ASSUME IInv, NEW e \in Store, NEW restricting \in BOOLEAN, NEW ok \in BOOLEAN,
         WriteSidecar(e, restricting, ok)
  PROVE  SidecarTyped
<1>1. keys \in Store /\ keysPlatter \in Store /\ faults \in Nat /\ degraded \in BOOLEAN
  BY DEF IInv, TypeOK
<1>2. keys' \in Store /\ keysPlatter' \in Store /\ dirPlatter' \in {dirPlatter, disk'}
  BY <1>1 DEF WriteSidecar
<1>3. faults' \in Nat
  BY <1>1 DEF WriteSidecar
<1>4. degraded' \in BOOLEAN
  BY <1>1 DEF WriteSidecar
<1> QED
  BY <1>2, <1>3, <1>4 DEF SidecarTyped

(* A step that makes no sidecar write leaves those variables typed.        *)
LEMMA NoSidecarTypes ==
  ASSUME IInv, NoSidecarWrite
  PROVE  SidecarTyped
BY DEF NoSidecarWrite, IInv, TypeOK, SidecarTyped

LEMMA WithoutStore ==
  ASSUME NEW s \in Store, NEW gone
  PROVE  Without(s, gone) \in Store
BY DEF Without, Store

(* Any step that leaves directory.json, the loaded views and the commits   *)
(* alone keeps the invariant, whatever it does to the sidecar.             *)
LEMMA SidecarStep ==
  ASSUME IInv, UNCHANGED <<disk, cli, dir, serial>>,
         store' \in Store, SidecarTyped, phase' \in Phases,
         phase' \notin {"down", "serving"} => phase \notin {"down", "serving"}
  PROVE  IInv'
<1>1. TypeOK'
  BY DEF IInv, TypeOK, Phases, SidecarTyped
<1>2. GenerationInv'
  BY DEF IInv, GenerationInv, BootingBehind, SidecarTyped
<1> QED
  BY <1>1, <1>2 DEF IInv

LEMMA BootApplyInv ==
  ASSUME IInv, BootApply
  PROVE  IInv'
<1>1. /\ UNCHANGED <<disk, cli, dir, serial>>
      /\ phase = "loaded" /\ phase' \in {"dropped", "kept"}
      /\ store' = Without(store, Retired(store, dir))
      /\ \/ \E ok \in BOOLEAN : WriteSidecar(store', FALSE, ok)
         \/ NoSidecarWrite
  BY DEF BootApply
<1>2. store' \in Store
  BY <1>1, WithoutStore DEF IInv, TypeOK
<1>3. SidecarTyped
  BY <1>1, <1>2, SidecarTypes, NoSidecarTypes
<1> QED
  BY <1>1, <1>2, <1>3, SidecarStep DEF Phases

LEMMA BootPersistInv ==
  ASSUME IInv, BootPersist
  PROVE  IInv'
<1>1. /\ UNCHANGED <<disk, cli, dir, store, serial>>
      /\ phase \in {"dropped", "kept"} /\ phase' \in {"durable", "serving"}
      /\ \/ \E ok \in BOOLEAN : WriteSidecar(store, TRUE, ok)
         \/ NoSidecarWrite
  BY DEF BootPersist
<1>2. store \in Store /\ store' \in Store
  BY <1>1 DEF IInv, TypeOK
<1>3. SidecarTyped
  BY <1>1, <1>2, SidecarTypes, NoSidecarTypes
<1> QED
  BY <1>1, <1>2, <1>3, SidecarStep DEF Phases

LEMMA BootConsumeFailsInv ==
  ASSUME IInv, BootConsumeFails
  PROVE  IInv'
<1>1. /\ UNCHANGED <<disk, dirPlatter, keys, keysPlatter, cli, dir, store, degraded, serial>>
      /\ phase' = "serving" /\ faults' = faults + 1
  BY DEF BootConsumeFails, fileVars
<1>2. store' \in Store /\ SidecarTyped
  BY <1>1 DEF IInv, TypeOK, SidecarTyped
<1> QED
  BY <1>1, <1>2, SidecarStep DEF Phases

LEMMA RetryPersistInv ==
  ASSUME IInv, RetryPersist
  PROVE  IInv'
<1>1. /\ UNCHANGED <<disk, cli, phase, dir, store, serial>>
      /\ phase = "serving"
      /\ \E ok \in BOOLEAN : WriteSidecar(store, TRUE, ok)
  BY DEF RetryPersist
<1>2. store \in Store /\ store' \in Store
  BY <1>1 DEF IInv, TypeOK
<1>3. SidecarTyped
  BY <1>1, <1>2, SidecarTypes
<1> QED
  BY <1>1, <1>2, <1>3, SidecarStep DEF Phases

(* Discovery and approval: an entry made from the daemon's own counter.    *)
LEMMA ClaimType ==
  ASSUME IInv, NEW k \in Keys, NEW st \in {"pending", "approved", "conflict"}
  PROVE  Claim(st, k) \in Entry
<1>1. dir.routeGen \in Nat /\ dir.log[k] \in Nat
  BY DEF IInv, TypeOK, View
<1> QED
  BY <1>1 DEF Claim, Entry

LEMMA SetEntryInv ==
  ASSUME IInv, NEW k \in Keys, NEW e \in Entry \cup {None},
         NEW restricting \in BOOLEAN, SetEntry(k, e, restricting)
  PROVE  IInv'
<1>1. /\ UNCHANGED <<disk, cli, phase, dir, serial>>
      /\ phase = "serving" /\ store' = [store EXCEPT ![k] = e]
      /\ \E ok \in BOOLEAN : WriteSidecar(store', restricting, ok)
  BY DEF SetEntry
<1>2. store' \in Store
  BY <1>1 DEF IInv, TypeOK, Store
<1>3. SidecarTyped
  BY <1>1, <1>2, SidecarTypes
<1> QED
  BY <1>1, <1>2, <1>3, SidecarStep DEF Phases

LEMMA DiscoveryInv ==
  ASSUME IInv, Discovery
  PROVE  IInv'
<1>1. ASSUME NEW k \in Keys, ObserveNew(k)
      PROVE  IInv'
  <2>1. Claim("pending", k) \in Entry
    BY ClaimType
  <2>2. SetEntry(k, Claim("pending", k), FALSE)
    BY <1>1 DEF ObserveNew
  <2> QED
    BY <2>1, <2>2, SetEntryInv
<1>2. ASSUME NEW k \in Keys, ObserveConflict(k)
      PROVE  IInv'
  <2>1. Claim("conflict", k) \in Entry
    BY ClaimType
  <2>2. SetEntry(k, Claim("conflict", k), TRUE)
    BY <1>2 DEF ObserveConflict
  <2> QED
    BY <2>1, <2>2, SetEntryInv
<1>3. ASSUME NEW k \in Keys, NEW victim \in Keys, ObserveEvicting(k, victim)
      PROVE  IInv'
  <2>1. Claim("pending", k) \in Entry
    BY ClaimType
  <2>2. /\ UNCHANGED <<disk, cli, phase, dir, serial>>
        /\ phase = "serving"
        /\ store' = [store EXCEPT ![victim] = None, ![k] = Claim("pending", k)]
        /\ \E ok \in BOOLEAN : WriteSidecar(store', FALSE, ok)
    BY <1>3 DEF ObserveEvicting
  <2>3. store' \in Store
    BY <2>1, <2>2 DEF IInv, TypeOK, Store
  <2>4. SidecarTyped
    BY <2>2, <2>3, SidecarTypes
  <2> QED
    BY <2>2, <2>3, <2>4, SidecarStep DEF Phases
<1>4. ASSUME NEW k \in Keys, Approve(k)
      PROVE  IInv'
  <2>1. Claim("approved", k) \in Entry
    BY ClaimType
  <2>2. SetEntry(k, Claim("approved", k), FALSE)
    BY <1>4 DEF Approve
  <2> QED
    BY <2>1, <2>2, SetEntryInv
<1>5. ASSUME NEW k \in Keys, Discard(k)
      PROVE  IInv'
  BY <1>5, SetEntryInv DEF Discard
<1> QED
  BY <1>1, <1>2, <1>3, <1>4, <1>5 DEF Discovery

-----------------------------------------------------------------------------
(* Daemon steps that write directory.json or adopt it. *)

(* What the daemon serves after adopting a sound file is a view.           *)
LEMMA AdoptedType ==
  ASSUME NEW d \in View, NEW next \in View, Sound(next)
  PROVE  Adopted(d, next) \in View
<1>1. /\ d.routeGen \in Nat /\ d.applied \in Nat
      /\ next.routeGen \in Nat /\ next.applied \in Nat /\ next.tomb \in [Keys -> Nat]
  BY DEF View
<1> DEFINE applied == MaxOf({d.applied, next.applied})
           high == IF d.routeGen <= next.routeGen THEN next.routeGen ELSE d.routeGen
           counter == MaxOf({d.routeGen, next.routeGen} \cup Gens(next.tomb))
<1>2. applied \in Nat
  BY <1>1, MaxPair
<1>3. counter \in Nat
  <2>1. \A k \in Keys : next.tomb[k] <= next.routeGen
    BY <1>1 DEF Sound
  <2>2. high \in {d.routeGen, next.routeGen} /\ high \in Nat
    BY <1>1
  <2>3. \A x \in {d.routeGen, next.routeGen} : x <= high
    BY <1>1
  <2>4. \A k \in Keys : next.tomb[k] <= high
    BY <1>1, <2>1
  <2> HIDE DEF high
  <2>5. counter = high
    BY <1>1, <2>2, <2>3, <2>4, MaxGens
  <2> QED
    BY <2>2, <2>5
<1>4. PruneTombstones(next.tomb, applied) \in [Keys -> Nat]
  BY <1>1 DEF PruneTombstones
<1> HIDE DEF applied, counter
<1>5. [routeGen |-> counter, applied |-> applied,
       tomb |-> PruneTombstones(next.tomb, applied), prov |-> next.prov,
       admitted |-> next.admitted, log |-> next.log] \in View
  BY <1>2, <1>3, <1>4 DEF View
<1> QED
  BY <1>5 DEF Adopted, applied, counter

(* Adopting disk', as the file is after this step.                         *)
LEMMA AdoptTypes ==
  ASSUME IInv, NEW next \in View, Sound(next), Adopt(next)
  PROVE  /\ dir' \in View /\ store' \in Store /\ SidecarTyped
         /\ UNCHANGED <<cli, phase>>
<1>1. dir \in View /\ store \in Store
  BY DEF IInv, TypeOK
<1>2. dir' \in View
  BY <1>1, AdoptedType DEF Adopt
<1>3. store' \in Store
  BY <1>1, WithoutStore DEF Adopt
<1>4. SidecarTyped
  BY <1>3, SidecarTypes, NoSidecarTypes DEF Adopt
<1> QED
  BY <1>2, <1>3, <1>4 DEF Adopt

LEMMA ApplyChangeInv ==
  ASSUME IInv, NEW m, Edited(disk, m), ApplyChange(m)
  PROVE  IInv'
<1>1. Grown(disk, disk') /\ serial' \in Nat
  BY WriteGrows DEF ApplyChange
<1>2. /\ dir' \in View /\ store' \in Store /\ SidecarTyped
      /\ UNCHANGED <<cli, phase>>
  BY <1>1, AdoptTypes DEF ApplyChange, Grown
<1>3. TypeOK'
  BY <1>1, <1>2 DEF IInv, TypeOK, Grown, SidecarTyped
<1>4. GenerationInv'
  BY <1>1, <1>2, GrownKeepsInv DEF ApplyChange, SidecarTyped
<1> QED
  BY <1>3, <1>4 DEF IInv

LEMMA DirectoryChangeInv ==
  ASSUME IInv, DirectoryChange
  PROVE  IInv'
<1>1. /\ disk \in View /\ Sound(disk) /\ Load(disk) \in View
      /\ Edited(disk, Load(disk)) /\ Load(disk).prov = {}
      /\ \A k \in Keys : Load(disk).tomb[k] = disk.tomb[k]
  BY LoadSound DEF IInv, TypeOK, GenerationInv
<1>2. Load(disk).admitted = disk.admitted
  BY <1>1 DEF Load, View
<1>3. ASSUME NEW m, Edited(Load(disk), m)
      PROVE  Edited(disk, m)
  BY <1>1, <1>3 DEF Edited
<1>4. ASSUME NEW p \in Peers, DaemonForget(p)
      PROVE  IInv'
  <2>1. Edited(Load(disk), Forget(Load(disk), p))
    BY <1>1, <1>2, <1>4, ForgetEdits DEF DaemonForget, Holds
  <2> QED
    BY <1>3, <1>4, <2>1, ApplyChangeInv DEF DaemonForget
<1>5. ASSUME NEW p \in Peers, NEW k \in Keys, DaemonAdd(p, k)
      PROVE  IInv'
  <2>1. Edited(Load(disk), Admit(Load(disk), p, k))
    BY <1>1, AdmitEdits
  <2> QED
    BY <1>3, <1>5, <2>1, ApplyChangeInv DEF DaemonAdd
<1>6. CASE DaemonTouch
  BY <1>1, <1>6, ApplyChangeInv DEF DaemonTouch
<1>7. CASE Reload
  <2>1. UNCHANGED <<disk, serial>> /\ Adopt(disk) /\ phase = "serving"
    BY <1>7 DEF Reload
  <2>2. /\ dir' \in View /\ store' \in Store /\ SidecarTyped
        /\ UNCHANGED <<cli, phase>>
    BY <1>1, <2>1, AdoptTypes
  <2> QED
    BY <2>1, <2>2
    DEF IInv, TypeOK, GenerationInv, BootingBehind, SidecarTyped
<1> QED
  BY <1>4, <1>5, <1>6, <1>7 DEF DirectoryChange

LEMMA BootLoadInv ==
  ASSUME IInv, BootLoad
  PROVE  IInv'
<1>1. /\ disk \in View /\ Sound(disk)
      /\ Load(disk) \in View /\ Edited(disk, Load(disk)) /\ Load(disk).prov = {}
      /\ \A k \in Keys : Load(disk).tomb[k] = disk.tomb[k]
  BY LoadSound DEF IInv, TypeOK, GenerationInv
<1>2. /\ UNCHANGED <<disk, dirPlatter, keys, keysPlatter, cli, faults, serial>>
      /\ dir' = Load(disk) /\ store' = keys /\ degraded' = FALSE /\ phase' = "loaded"
  BY DEF BootLoad, fileVars
<1>3. TypeOK'
  BY <1>1, <1>2 DEF IInv, TypeOK
<1>4. BootingBehind'
  BY <1>1, <1>2 DEF BootingBehind, Edited, View
<1>5. GenerationInv'
  BY <1>2, <1>4 DEF IInv, GenerationInv
<1> QED
  BY <1>3, <1>5 DEF IInv

(* Consumption removes from the file exactly the tombstones this startup   *)
(* loaded: whatever was retired meanwhile is numbered above its mark.      *)
LEMMA BootConsumeInv ==
  ASSUME IInv, BootConsume
  PROVE  IInv'
<1> DEFINE through == dir.routeGen
           processed == Pending(dir)
           d == ConsumeOn(disk, processed, through)
<1>1. /\ disk \in View /\ Sound(disk) /\ dir \in View
      /\ dir.routeGen <= disk.routeGen
      /\ \A k \in Keys : dir.routeGen < disk.tomb[k] \/ disk.tomb[k] = dir.tomb[k]
  BY DEF IInv, TypeOK, GenerationInv, BootingBehind, BootConsume
<1>2. /\ disk.routeGen \in Nat /\ disk.applied \in Nat /\ disk.tomb \in [Keys -> Nat]
      /\ dir.routeGen \in Nat /\ dir.applied \in Nat /\ dir.tomb \in [Keys -> Nat]
  BY <1>1 DEF View
<1>3. /\ phase' = "serving"
      /\ UNCHANGED <<dirPlatter, keys, keysPlatter, cli, store, degraded, faults, serial>>
  BY DEF BootConsume
<1>4. CASE processed = {}
  <2>1. UNCHANGED <<disk, dir>>
    BY <1>4 DEF BootConsume
  <2> QED
    BY <1>3, <2>1 DEF IInv, TypeOK, GenerationInv, BootingBehind
<1>5. CASE processed # {}
  <2>1. disk' = d /\ dir' = MarkTombstonesApplied(dir, through)
    BY <1>5 DEF BootConsume
  <2> DEFINE mark == MaxOf({disk.applied, through})
             tomb == [k \in Keys |-> IF k \in processed /\ disk.tomb[k] <= through
                                     THEN 0 ELSE disk.tomb[k]]
  <2>2. /\ mark \in Nat
        /\ mark = IF through <= disk.applied THEN disk.applied ELSE through
    BY <1>2, MaxPair
  <2>3. tomb \in [Keys -> Nat]
    BY <1>2
  <2>4. d = [disk EXCEPT !.applied = mark, !.tomb = tomb, !.prov = disk.prov \ processed]
    BY DEF ConsumeOn
  <2>5. ASSUME NEW k \in Keys
        PROVE  tomb[k] = IF through < disk.tomb[k] THEN disk.tomb[k] ELSE 0
    BY <1>1, <1>2 DEF Pending
  <2> HIDE DEF mark, tomb, processed, d
  <2>6. /\ disk' \in View
        /\ disk'.routeGen = disk.routeGen /\ disk'.applied = mark
        /\ disk'.tomb = tomb /\ disk'.prov = {}
    <3>1. disk.prov \ processed = {}
      BY <1>1 DEF Sound
    <3> QED
      BY <1>1, <2>1, <2>2, <2>3, <2>4, <3>1 DEF View
  <2>7. Sound(disk')
    <3>1. disk'.applied <= disk'.routeGen
      BY <1>1, <1>2, <2>2, <2>6 DEF Sound
    <3>2. ASSUME NEW k \in Keys, tomb[k] # 0
          PROVE  mark < tomb[k] /\ tomb[k] <= disk.routeGen
      BY <1>1, <1>2, <2>2, <2>5, <3>2 DEF Sound
    <3>3. ASSUME NEW j \in Keys, NEW k \in Keys, tomb[j] = tomb[k]
          PROVE  tomb[j] = 0 \/ j = k
      BY <1>1, <1>2, <2>5, <3>3 DEF Sound
    <3> QED
      BY <2>6, <3>1, <3>2, <3>3 DEF Sound
  <2>8. ASSUME NEW c \in Clis, cli[c] # None
        PROVE  Behind(cli[c], disk')
    <3> DEFINE v == cli[c]
    <3>1. v \in View /\ Behind(v, disk)
      BY <2>8 DEF IInv, TypeOK, GenerationInv
    <3>2. v.applied \in Nat /\ v.tomb \in [Keys -> Nat]
      BY <3>1 DEF View
    <3> HIDE DEF v
    <3>3. v.applied <= mark
      BY <1>2, <2>2, <3>1, <3>2 DEF Behind
    <3>4. ASSUME NEW k \in Keys
          PROVE  v.tomb[k] <= tomb[k] \/ v.tomb[k] <= mark
      BY <1>2, <2>2, <2>5, <3>1, <3>2 DEF Behind
    <3>5. Behind(v, disk')
      BY <2>6, <3>1, <3>3, <3>4 DEF Behind
    <3> QED
      BY <3>5 DEF v
  <2>9. dir' \in View
    <3>1. MaxOf({dir.applied, through}) \in Nat
      BY <1>2, MaxPair
    <3>2. ASSUME NEW n \in Nat
          PROVE  [dir EXCEPT !.applied = n, !.tomb = PruneTombstones(dir.tomb, n)] \in View
      <4>1. PruneTombstones(dir.tomb, n) \in [Keys -> Nat]
        BY <1>2 DEF PruneTombstones
      <4> QED
        BY <1>1, <4>1 DEF View
    <3> QED
      BY <2>1, <3>1, <3>2 DEF MarkTombstonesApplied
  <2>10. TypeOK'
    BY <1>3, <2>6, <2>9 DEF IInv, TypeOK
  <2>11. GenerationInv'
    BY <1>3, <2>7, <2>8 DEF IInv, GenerationInv, BootingBehind
  <2> QED
    BY <2>10, <2>11 DEF IInv
<1> QED
  BY <1>4, <1>5

-----------------------------------------------------------------------------
(* Crashes and power losses. *)

LEMMA DownTypes ==
  NoView \in View /\ EmptyStore \in Store
<1>1. [p \in Peers |-> None] \in [Peers -> Record \cup {None}]
  OBVIOUS
<1> QED
  BY <1>1 DEF NoView, EmptyView, View, EmptyStore, Store

LEMMA CrashInv ==
  ASSUME IInv, DaemonStops \/ Writeback \/ PowerLoss
  PROVE  IInv'
<1>1. CASE DaemonStops
  BY <1>1, DownTypes
  DEF DaemonStops, DaemonDown, fileVars, IInv, TypeOK, GenerationInv, BootingBehind
<1>2. CASE Writeback
  <2>1. /\ dirPlatter' \in {dirPlatter, disk} /\ keysPlatter' \in {keysPlatter, keys}
        /\ UNCHANGED <<disk, keys, cli, phase, dir, store, degraded, faults, serial>>
    BY <1>2 DEF Writeback, daemonVars
  <2> QED
    BY <2>1 DEF IInv, TypeOK, GenerationInv, BootingBehind
<1>3. CASE PowerLoss
  <2>1. cli' \in [Clis -> View \cup {None}] /\ \A c \in Clis : cli'[c] = None
    BY <1>3 DEF PowerLoss
  <2> QED
    BY <1>3, <2>1, DownTypes
    DEF PowerLoss, DaemonDown, IInv, TypeOK, GenerationInv, BootingBehind
<1> QED
  BY <1>1, <1>2, <1>3

-----------------------------------------------------------------------------
(* The theorems. *)

LEMMA StepInv ==
  ASSUME IInv, [Next]_vars
  PROVE  IInv'
<1>1. CASE UNCHANGED vars
  BY <1>1 DEF vars, IInv, TypeOK, GenerationInv, BootingBehind
<1>2. CASE Cli
  BY <1>2, CliInv
<1>3. CASE Boot
  BY <1>3, BootLoadInv, BootApplyInv, BootPersistInv, BootConsumeInv DEF Boot
<1>4. CASE BootConsumeFails
  BY <1>4, BootConsumeFailsInv
<1>5. CASE Discovery
  BY <1>5, DiscoveryInv
<1>6. CASE RetryPersist
  BY <1>6, RetryPersistInv
<1>7. CASE DirectoryChange
  BY <1>7, DirectoryChangeInv
<1>8. CASE DaemonStops \/ Writeback \/ PowerLoss
  BY <1>8, CrashInv
<1> QED
  BY <1>1, <1>2, <1>3, <1>4, <1>5, <1>6, <1>7, <1>8 DEF Next

(* The variables of the daemon, the CLI processes and both files always    *)
(* have their types.                                                       *)
THEOREM TypeCorrect == Spec => []TypeOK
<1>1. IInv => TypeOK
  BY DEF IInv
<1> QED
  BY <1>1, InitInv, StepInv, PTL DEF Spec

(* The inductive form: directory.json and its platter image are sound, and *)
(* every view loaded from it, by a CLI process or by a startup in          *)
(* progress, is behind it.                                                 *)
THEOREM ViewsStayBehind == Spec => []GenerationInv
<1>1. IInv => GenerationInv
  BY DEF IInv
<1> QED
  BY <1>1, InitInv, StepInv, PTL DEF Spec

(* Every tombstone in directory.json has a number of its own, above what   *)
(* has been consumed and within the counter, whatever writers, crashes and *)
(* power losses interleave (finalizeRouteGens under both write paths).     *)
THEOREM GenerationsAlwaysSound == Spec => []GenerationsSound
<1>1. GenerationInv => GenerationsSound
  BY DEF GenerationInv, GenerationsSound
<1> QED
  BY <1>1, ViewsStayBehind, PTL

-----------------------------------------------------------------------------
(* Retirements only advance. *)

Advances ==
  /\ disk'.routeGen >= disk.routeGen
  /\ disk'.applied >= disk.applied
  /\ \A k \in Keys : disk'.tomb[k] # disk.tomb[k] =>
       \/ disk'.tomb[k] > disk.routeGen
       \/ disk'.tomb[k] = 0 /\ disk.tomb[k] <= disk'.applied

LEMMA GrownAdvances ==
  ASSUME IInv, Grown(disk, disk')
  PROVE  Advances
<1>1. /\ disk.routeGen \in Nat /\ disk.applied \in Nat /\ disk.tomb \in [Keys -> Nat]
      /\ disk'.routeGen \in Nat /\ disk'.applied \in Nat /\ disk'.tomb \in [Keys -> Nat]
  BY DEF IInv, TypeOK, Grown, View
<1> QED
  BY <1>1 DEF Grown, Advances

(* Every command of a CLI process that writes holds an edit of the file.   *)
LEMMA CliAdvances ==
  ASSUME IInv, Cli
  PROVE  Advances \/ disk' = disk
<1>1. ASSUME NEW c \in Clis, cli[c] # None,
             NEW mine, Edited(cli[c], mine), CliPersist(c, mine)
      PROVE  Advances
  <2>1. disk \in View /\ Sound(disk) /\ cli[c] \in View /\ Behind(cli[c], disk)
    BY <1>1 DEF IInv, TypeOK, GenerationInv
  <2>2. Edited(disk, ReconcilePersist(disk, cli[c], mine))
    BY <1>1, <2>1, ReconcileEdits
  <2>3. Grown(disk, disk')
    BY <1>1, <2>2, WriteGrows DEF CliPersist
  <2> QED
    BY <2>3, GrownAdvances
<1>2. PICK c \in Clis :
        \/ CliLoad(c)
        \/ CliExit(c)
        \/ \E p \in Peers : CliForget(c, p)
        \/ \E p \in Peers, k \in Keys : CliRotate(c, p, k) \/ CliAdd(c, p, k)
  BY DEF Cli
<1>3. CASE CliLoad(c) \/ CliExit(c)
  BY <1>3 DEF CliLoad, CliExit, fileVars
<1>4. cli[c] # None => cli[c] \in View /\ cli[c].prov = {}
  BY DEF IInv, TypeOK, GenerationInv, Behind
<1>5. ASSUME NEW p \in Peers, CliForget(c, p)
      PROVE  Advances
  BY <1>1, <1>4, <1>5, ForgetEdits DEF CliForget
<1>6. ASSUME NEW p \in Peers, NEW k \in Keys, CliRotate(c, p, k)
      PROVE  Advances
  BY <1>1, <1>4, <1>6, RotateEdits DEF CliRotate
<1>7. ASSUME NEW p \in Peers, NEW k \in Keys, CliAdd(c, p, k)
      PROVE  Advances
  BY <1>1, <1>4, <1>7, AdmitEdits DEF CliAdd
<1> QED
  BY <1>2, <1>3, <1>5, <1>6, <1>7

LEMMA DirectoryChangeAdvances ==
  ASSUME IInv, DirectoryChange
  PROVE  Advances \/ disk' = disk
<1>1. /\ disk \in View /\ Sound(disk) /\ Load(disk) \in View
      /\ Edited(disk, Load(disk)) /\ Load(disk).prov = {}
      /\ \A k \in Keys : Load(disk).tomb[k] = disk.tomb[k]
  BY LoadSound DEF IInv, TypeOK, GenerationInv
<1>2. Load(disk).admitted = disk.admitted
  BY <1>1 DEF Load, View
<1>3. ASSUME NEW m, Edited(Load(disk), m), ApplyChange(m)
      PROVE  Advances
  <2>1. Edited(disk, m)
    BY <1>1, <1>3 DEF Edited
  <2> QED
    BY <1>3, <2>1, WriteGrows, GrownAdvances DEF ApplyChange
<1>4. ASSUME NEW p \in Peers, DaemonForget(p)
      PROVE  Advances
  BY <1>1, <1>2, <1>3, <1>4, ForgetEdits DEF DaemonForget, Holds
<1>5. ASSUME NEW p \in Peers, NEW k \in Keys, DaemonAdd(p, k)
      PROVE  Advances
  BY <1>1, <1>3, <1>5, AdmitEdits DEF DaemonAdd
<1>6. Edited(Load(disk), Load(disk))
  BY <1>1 DEF Edited
<1>7. CASE DaemonTouch
  BY <1>3, <1>6, <1>7 DEF DaemonTouch
<1>8. CASE Reload
  BY <1>8 DEF Reload
<1> QED
  BY <1>4, <1>5, <1>7, <1>8 DEF DirectoryChange

LEMMA BootConsumeAdvances ==
  ASSUME IInv, BootConsume
  PROVE  Advances \/ disk' = disk
<1>1. CASE Pending(dir) = {}
  BY <1>1 DEF BootConsume
<1>2. CASE Pending(dir) # {}
  <2> DEFINE mark == MaxOf({disk.applied, dir.routeGen})
  <2>1. disk' = ConsumeOn(disk, Pending(dir), dir.routeGen)
    BY <1>2 DEF BootConsume
  <2>2. disk \in View /\ dir \in View
    BY DEF IInv, TypeOK
  <2>3. /\ disk.routeGen \in Nat /\ disk.applied \in Nat /\ disk.tomb \in [Keys -> Nat]
        /\ dir.routeGen \in Nat
    BY <2>2 DEF View
  <2>4. disk.applied <= mark /\ dir.routeGen <= mark /\ mark \in Nat
    BY <2>3, MaxPair
  <2>5. /\ disk'.routeGen = disk.routeGen /\ disk'.applied = mark
        /\ disk'.tomb = [k \in Keys |-> IF k \in Pending(dir) /\ disk.tomb[k] <= dir.routeGen
                                        THEN 0 ELSE disk.tomb[k]]
    BY <2>1, <2>2 DEF ConsumeOn, View
  <2> HIDE DEF mark
  <2> QED
    BY <2>3, <2>4, <2>5 DEF Advances
<1> QED
  BY <1>1, <1>2

(* Without power losses no writer, however stale its view, and no startup  *)
(* ever lowers a counter, loses a tombstone that has not been applied, or  *)
(* issues a generation a second time (reconcilePersist, mergeTombstones,   *)
(* the consuming update of the startup).                                   *)
THEOREM RetirementsNeverRegress ==
  ASSUME ~PowerLosses
  PROVE  Spec => RetirementsOnlyAdvance
<1>1. ASSUME IInv, [Next]_vars
      PROVE  [Advances]_vars
  <2>1. CASE UNCHANGED vars
    BY <2>1
  <2>2. disk' = disk => Advances
    BY <1>1 DEF Advances, IInv, TypeOK, View
  <2>3. CASE Cli
    <3>1. Advances
      BY <1>1, <2>2, <2>3, CliAdvances
    <3> QED
      BY <3>1
  <2>4. CASE Boot
    <3>1. Advances
      BY <1>1, <2>2, <2>4, BootConsumeAdvances
      DEF Boot, BootLoad, BootApply, BootPersist, fileVars
    <3> QED
      BY <3>1
  <2>5. CASE DirectoryChange
    <3>1. Advances
      BY <1>1, <2>2, <2>5, DirectoryChangeAdvances
    <3> QED
      BY <3>1
  <2>6. CASE BootConsumeFails \/ RetryPersist \/ DaemonStops \/ Discovery
    <3>1. disk' = disk
      BY <2>6 DEF BootConsumeFails, RetryPersist, DaemonStops, fileVars, Discovery,
        ObserveNew, ObserveEvicting, ObserveConflict, Approve, Discard, SetEntry
    <3> QED
      BY <2>2, <3>1
  <2>7. CASE Writeback \/ PowerLoss
    BY <2>7 DEF Writeback, PowerLoss
  <2> QED
    BY <1>1, <2>1, <2>3, <2>4, <2>5, <2>6, <2>7 DEF Next
<1>2. Spec => [][Advances]_vars
  BY <1>1, InitInv, StepInv, PTL DEF Spec
<1>3. RetirementsOnlyAdvance <=> [][Advances]_vars
  BY DEF RetirementsOnlyAdvance, Advances
<1> QED
  BY <1>2, <1>3, PTL

-----------------------------------------------------------------------------
(* Claims and retirements. *)

(* In the store s, whose entries were claimed under the counter of d, the  *)
(* comparison of generations decides what the history decides: a claim is  *)
(* below its key's tombstone exactly if it had not seen the retirement.    *)
Matches(s, d, n) ==
  \A k \in Keys : s[k] # None =>
    /\ s[k].gen <= d.routeGen
    /\ s[k].saw <= n
    /\ s[k].saw < d.log[k] <=> s[k].gen < d.tomb[k]

FilesMatch ==
  /\ Matches(keys, disk, serial)
  /\ OrderedFS => Matches(keysPlatter, dirPlatter, serial)
  /\ \A k \in Keys : disk.log[k] <= serial /\ dirPlatter.log[k] <= serial

DaemonMatches ==
  /\ Matches(store, disk, serial)
  /\ dir.routeGen <= disk.routeGen
  /\ \A k \in Keys : dir.log[k] <= serial
  /\ phase # "down" =>
       \A k \in Keys : dir.log[k] < disk.log[k] <=> dir.routeGen < disk.tomb[k]

StartupMatches ==
  /\ phase \in {"loaded", "kept", "durable"} => keys = store
  /\ phase = "loaded" =>
       /\ dir.prov = {}
       /\ \A k \in Keys : store[k] # None =>
            (store[k].saw < dir.log[k] <=> store[k].gen < dir.tomb[k])
  /\ phase \in {"dropped", "kept", "durable"} =>
       \A k \in Keys : ~Unseen(store[k], k, dir)

ClaimInv == FilesMatch /\ DaemonMatches /\ StartupMatches

(* What a write of directory.json does to the history: a key it retires    *)
(* gets the serial of this write and a tombstone above the old counter,    *)
(* every other key keeps both.                                             *)
Stamped(d, e, n, m) ==
  /\ m \in {n, n + 1}
  /\ \A k \in Keys :
       \/ e.tomb[k] = d.tomb[k] /\ e.log[k] = d.log[k]
       \/ d.routeGen < e.tomb[k] /\ e.log[k] = n + 1 /\ m = n + 1

LEMMA FinalizeStamps ==
  ASSUME NEW d \in View, NEW order, NEW stamp \in Nat
  PROVE  \A k \in Keys : FinalizeRouteGens(d, order, stamp).log[k] =
                           IF k \in d.prov THEN stamp ELSE d.log[k]
<1>1. CASE d.prov = {}
  BY <1>1 DEF FinalizeRouteGens
<1>2. CASE d.prov # {}
  <2> DEFINE log == [k \in Keys |-> IF k \in d.prov THEN stamp ELSE d.log[k]]
  <2>1. FinalizeRouteGens(d, order, stamp).log = log
    BY <1>2 DEF FinalizeRouteGens, View
  <2> QED
    BY <2>1
<1> QED
  BY <1>1, <1>2

LEMMA WriteStamps ==
  ASSUME IInv, NEW m, Edited(disk, m), m.log = disk.log, WriteDirectory(m)
  PROVE  Stamped(disk, disk', serial, serial')
<1>1. disk \in View /\ Sound(disk) /\ serial \in Nat
  BY DEF IInv, TypeOK, GenerationInv
<1>2. m \in View /\ SoundBut(m)
  BY <1>1, EditedSound
<1>3. PICK order \in Orders(m.prov) : disk' = FinalizeRouteGens(m, order, serial + 1)
  BY DEF WriteDirectory
<1>4. serial + 1 \in Nat /\ serial' = IF m.prov = {} THEN serial ELSE serial + 1
  BY <1>1 DEF WriteDirectory
<1>5. \A k \in Keys : disk'.log[k] = IF k \in m.prov THEN serial + 1 ELSE m.log[k]
  BY <1>2, <1>3, <1>4, FinalizeStamps
<1>6. \A k \in Keys : IF k \in m.prov THEN m.routeGen < disk'.tomb[k]
                                     ELSE disk'.tomb[k] = m.tomb[k]
  BY <1>2, <1>3, <1>4, FinalizeFacts
<1>7. m.routeGen = disk.routeGen
      /\ \A k \in Keys : m.tomb[k] = IF k \in m.prov THEN 0 ELSE disk.tomb[k]
  BY DEF Edited
<1> QED
  BY <1>4, <1>5, <1>6, <1>7 DEF Stamped

(* A store that matched the file as it was matches it as it is written.    *)
LEMMA StampedMatches ==
  ASSUME NEW s \in Store, NEW d \in View, NEW e \in View, NEW n \in Nat, NEW m,
         Grown(d, e), Stamped(d, e, n, m), Matches(s, d, n)
  PROVE  Matches(s, e, m)
<1> SUFFICES ASSUME NEW k \in Keys, s[k] # None
             PROVE  /\ s[k].gen <= e.routeGen
                    /\ s[k].saw <= m
                    /\ s[k].saw < e.log[k] <=> s[k].gen < e.tomb[k]
  BY DEF Matches
<1>1. /\ s[k].gen \in Nat /\ s[k].saw \in Nat
      /\ d.routeGen \in Nat /\ e.routeGen \in Nat
      /\ d.log[k] \in Nat /\ e.log[k] \in Nat
      /\ d.tomb[k] \in Nat /\ e.tomb[k] \in Nat
  BY DEF Store, Entry, View
<1>2. /\ s[k].gen <= d.routeGen
      /\ s[k].saw <= n
      /\ s[k].saw < d.log[k] <=> s[k].gen < d.tomb[k]
  BY DEF Matches
<1>3. /\ m \in {n, n + 1}
      /\ \/ e.tomb[k] = d.tomb[k] /\ e.log[k] = d.log[k]
         \/ d.routeGen < e.tomb[k] /\ e.log[k] = n + 1 /\ m = n + 1
  BY DEF Stamped
<1>4. d.routeGen <= e.routeGen
  BY DEF Grown
<1> QED
  BY <1>1, <1>2, <1>3, <1>4

(* The sidecar after a step whose new content, like the old one, matches   *)
(* the file as the step leaves it.                                         *)
LEMMA SidecarMatches ==
  ASSUME ClaimInv, NEW e, NEW restricting \in BOOLEAN,
         \/ \E ok \in BOOLEAN : WriteSidecar(e, restricting, ok)
         \/ NoSidecarWrite,
         Matches(keys, disk', serial'), Matches(e, disk', serial'),
         OrderedFS => Matches(keysPlatter, dirPlatter, serial'),
         \A k \in Keys : disk'.log[k] <= serial' /\ dirPlatter.log[k] <= serial'
  PROVE  FilesMatch'
<1>1. Matches(keys, disk, serial)'
  BY DEF WriteSidecar, NoSidecarWrite, Matches
<1>2. OrderedFS => Matches(keysPlatter, dirPlatter, serial)'
  BY DEF WriteSidecar, NoSidecarWrite, Matches
<1>3. dirPlatter' \in {dirPlatter, disk'}
  BY DEF WriteSidecar, NoSidecarWrite
<1> QED
  BY <1>1, <1>2, <1>3 DEF FilesMatch

(* A history that grows leaves what is written alone.                      *)
LEMMA LaterMatches ==
  ASSUME NEW s \in Store, NEW d, NEW n \in Nat, NEW m, m \in {n, n + 1},
         Matches(s, d, n)
  PROVE  Matches(s, d, m)
<1>1. \A k \in Keys : s[k] # None => s[k].saw \in Nat
  BY DEF Store, Entry
<1> QED
  BY <1>1 DEF Matches

(* A step of the directory's writers: it leaves the file alone, or grows   *)
(* and stamps it.                                                          *)
Written ==
  /\ Grown(disk, disk')
  /\ Stamped(disk, disk', serial, serial')

LEMMA UntouchedWritten ==
  ASSUME IInv, UNCHANGED <<disk, serial>>
  PROVE  Written
<1>1. disk \in View /\ Sound(disk)
  BY DEF IInv, TypeOK, GenerationInv
<1>2. disk.routeGen \in Nat
  BY <1>1 DEF View
<1> QED
  BY <1>1, <1>2 DEF Written, Grown, Stamped

(* What holds of every store and view after such a step.                   *)
LEMMA WrittenFacts ==
  ASSUME IInv, ClaimInv, Written
  PROVE  /\ Matches(keys, disk', serial')
         /\ Matches(store, disk', serial')
         /\ OrderedFS => Matches(keysPlatter, dirPlatter, serial')
         /\ \A k \in Keys : /\ disk'.log[k] <= serial'
                            /\ dirPlatter.log[k] <= serial'
                            /\ dir.log[k] <= serial'
         /\ dir.routeGen <= disk'.routeGen
         /\ phase # "down" => \A k \in Keys :
              dir.log[k] < disk'.log[k] <=> dir.routeGen < disk'.tomb[k]
<1>1. /\ disk \in View /\ disk' \in View /\ dir \in View /\ dirPlatter \in View
      /\ keys \in Store /\ store \in Store /\ keysPlatter \in Store /\ serial \in Nat
      /\ Grown(disk, disk') /\ Stamped(disk, disk', serial, serial')
  BY DEF IInv, TypeOK, Written, Grown
<1>2. serial' \in {serial, serial + 1}
  BY <1>1 DEF Stamped
<1>3. Matches(keys, disk', serial') /\ Matches(store, disk', serial')
  BY <1>1, StampedMatches DEF ClaimInv, FilesMatch, DaemonMatches
<1>4. OrderedFS => Matches(keysPlatter, dirPlatter, serial')
  BY <1>1, <1>2, LaterMatches DEF ClaimInv, FilesMatch
<1>5. /\ dir.routeGen \in Nat /\ disk.routeGen \in Nat /\ disk'.routeGen \in Nat
      /\ dir.log \in [Keys -> Nat] /\ disk.log \in [Keys -> Nat]
      /\ disk'.log \in [Keys -> Nat] /\ dirPlatter.log \in [Keys -> Nat]
      /\ disk.tomb \in [Keys -> Nat] /\ disk'.tomb \in [Keys -> Nat]
  BY <1>1 DEF View
<1>6. dir.routeGen <= disk.routeGen /\ disk.routeGen <= disk'.routeGen
  BY <1>1 DEF Grown, ClaimInv, DaemonMatches
<1>7. ASSUME NEW k \in Keys
      PROVE  /\ disk'.log[k] <= serial' /\ dirPlatter.log[k] <= serial'
             /\ dir.log[k] <= serial'
             /\ phase # "down" =>
                  (dir.log[k] < disk'.log[k] <=> dir.routeGen < disk'.tomb[k])
  <2>1. /\ disk.log[k] <= serial /\ dirPlatter.log[k] <= serial /\ dir.log[k] <= serial
        /\ phase # "down" =>
             (dir.log[k] < disk.log[k] <=> dir.routeGen < disk.tomb[k])
    BY DEF ClaimInv, FilesMatch, DaemonMatches
  <2>2. \/ disk'.tomb[k] = disk.tomb[k] /\ disk'.log[k] = disk.log[k]
        \/ /\ disk.routeGen < disk'.tomb[k] /\ disk'.log[k] = serial + 1
           /\ serial' = serial + 1
    BY <1>1 DEF Stamped
  <2> QED
    BY <1>1, <1>2, <1>5, <1>6, <2>1, <2>2
<1> QED
  BY <1>3, <1>4, <1>5, <1>6, <1>7

(* Every command of a CLI process.                                         *)
LEMMA CliWritten ==
  ASSUME IInv, Cli
  PROVE  Written /\ UNCHANGED <<dirPlatter, keys, keysPlatter, daemonVars>>
<1> DEFINE Goal == Written /\ UNCHANGED <<dirPlatter, keys, keysPlatter, daemonVars>>
<1>1. ASSUME NEW c \in Clis, cli[c] # None,
             NEW mine, Edited(cli[c], mine), CliPersist(c, mine)
      PROVE  Goal
  <2>1. disk \in View /\ Sound(disk) /\ cli[c] \in View /\ Behind(cli[c], disk)
    BY <1>1 DEF IInv, TypeOK, GenerationInv
  <2> DEFINE m == ReconcilePersist(disk, cli[c], mine)
  <2>2. Edited(disk, m)
    BY <1>1, <2>1, ReconcileEdits
  <2>3. m.log = disk.log
    BY DEF ReconcilePersist
  <2>4. WriteDirectory(m)
    BY <1>1 DEF CliPersist
  <2> HIDE DEF m
  <2>5. Written
    BY <2>2, <2>3, <2>4, WriteGrows, WriteStamps DEF Written
  <2> QED
    BY <1>1, <2>5 DEF CliPersist
<1>2. PICK c \in Clis :
        \/ CliLoad(c)
        \/ CliExit(c)
        \/ \E p \in Peers : CliForget(c, p)
        \/ \E p \in Peers, k \in Keys : CliRotate(c, p, k) \/ CliAdd(c, p, k)
  BY DEF Cli
<1>3. CASE CliLoad(c) \/ CliExit(c)
  BY <1>3, UntouchedWritten DEF CliLoad, CliExit, fileVars
<1>4. cli[c] # None => cli[c] \in View /\ cli[c].prov = {}
  BY DEF IInv, TypeOK, GenerationInv, Behind
<1>5. ASSUME NEW p \in Peers, CliForget(c, p)
      PROVE  Goal
  BY <1>1, <1>4, <1>5, ForgetEdits DEF CliForget
<1>6. ASSUME NEW p \in Peers, NEW k \in Keys, CliRotate(c, p, k)
      PROVE  Goal
  BY <1>1, <1>4, <1>6, RotateEdits DEF CliRotate
<1>7. ASSUME NEW p \in Peers, NEW k \in Keys, CliAdd(c, p, k)
      PROVE  Goal
  BY <1>1, <1>4, <1>7, AdmitEdits DEF CliAdd
<1> QED
  BY <1>2, <1>3, <1>5, <1>6, <1>7

LEMMA CliClaims ==
  ASSUME IInv, ClaimInv, Cli
  PROVE  ClaimInv'
<1>1. Written /\ UNCHANGED <<dirPlatter, keys, keysPlatter, phase, dir, store>>
  BY CliWritten DEF daemonVars
<1>2. StartupMatches'
  BY <1>1 DEF ClaimInv, StartupMatches, Unseen
<1>3. FilesMatch' /\ DaemonMatches'
  BY <1>1, WrittenFacts DEF FilesMatch, DaemonMatches, Matches
<1> QED
  BY <1>2, <1>3 DEF ClaimInv

(* A step of the daemon that leaves directory.json and its view alone.     *)
LEMMA SidecarClaims ==
  ASSUME IInv, ClaimInv, UNCHANGED <<disk, dir, serial>>, NEW e,
         NEW restricting \in BOOLEAN,
         \/ \E ok \in BOOLEAN : WriteSidecar(e, restricting, ok)
         \/ NoSidecarWrite,
         Matches(e, disk, serial), Matches(store', disk, serial),
         phase # "down", StartupMatches'
  PROVE  ClaimInv'
<1>1. Matches(keys, disk', serial') /\ Matches(e, disk', serial')
  BY DEF ClaimInv, FilesMatch
<1>2. OrderedFS => Matches(keysPlatter, dirPlatter, serial')
  BY DEF ClaimInv, FilesMatch
<1>3. \A k \in Keys : disk'.log[k] <= serial' /\ dirPlatter.log[k] <= serial'
  BY DEF ClaimInv, FilesMatch
<1>4. FilesMatch'
  BY <1>1, <1>2, <1>3, SidecarMatches
<1>5. DaemonMatches'
  BY DEF ClaimInv, DaemonMatches, Matches
<1> QED
  BY <1>4, <1>5 DEF ClaimInv

(* What the daemon claims while it serves matches the file: its view is    *)
(* below a tombstone exactly if it has not seen that retirement.           *)
LEMMA ClaimMatches ==
  ASSUME IInv, ClaimInv, phase = "serving", NEW k \in Keys,
         NEW st \in {"pending", "approved", "conflict"}
  PROVE  LET e == Claim(st, k) IN
         /\ e.gen <= disk.routeGen
         /\ e.saw <= serial
         /\ e.saw < disk.log[k] <=> e.gen < disk.tomb[k]
BY DEF ClaimInv, DaemonMatches, Claim

LEMMA SetEntryClaims ==
  ASSUME IInv, ClaimInv, NEW k \in Keys, NEW restricting \in BOOLEAN, NEW e,
         \/ e = None
         \/ \E st \in {"pending", "approved", "conflict"} : e = Claim(st, k),
         SetEntry(k, e, restricting)
  PROVE  ClaimInv'
<1>1. /\ UNCHANGED <<disk, cli, phase, dir, serial>>
      /\ phase = "serving" /\ store' = [store EXCEPT ![k] = e]
      /\ \E ok \in BOOLEAN : WriteSidecar(store', restricting, ok)
  BY DEF SetEntry
<1>2. Matches(store', disk, serial)
  BY <1>1, ClaimMatches DEF ClaimInv, DaemonMatches, Matches, IInv, TypeOK, Store
<1>3. StartupMatches'
  BY <1>1 DEF StartupMatches
<1> QED
  BY <1>1, <1>2, <1>3, SidecarClaims

LEMMA DiscoveryClaims ==
  ASSUME IInv, ClaimInv, Discovery
  PROVE  ClaimInv'
<1>1. ASSUME NEW k \in Keys, ObserveNew(k)
      PROVE  ClaimInv'
  BY <1>1, SetEntryClaims DEF ObserveNew
<1>2. ASSUME NEW k \in Keys, ObserveConflict(k)
      PROVE  ClaimInv'
  BY <1>2, SetEntryClaims DEF ObserveConflict
<1>3. ASSUME NEW k \in Keys, NEW victim \in Keys, ObserveEvicting(k, victim)
      PROVE  ClaimInv'
  <2>1. /\ UNCHANGED <<disk, cli, phase, dir, serial>>
        /\ phase = "serving"
        /\ store' = [store EXCEPT ![victim] = None, ![k] = Claim("pending", k)]
        /\ \E ok \in BOOLEAN : WriteSidecar(store', FALSE, ok)
    BY <1>3 DEF ObserveEvicting
  <2>2. Matches(store', disk, serial)
    <3>1. \A j \in Keys : store'[j] \in {None, store[j]} \/ j = k
      BY <2>1 DEF IInv, TypeOK, Store
    <3>2. store'[k] = Claim("pending", k)
      BY <2>1 DEF IInv, TypeOK, Store
    <3> QED
      BY <2>1, <3>1, <3>2, ClaimMatches DEF ClaimInv, DaemonMatches, Matches
  <2>3. StartupMatches'
    BY <2>1 DEF StartupMatches
  <2> QED
    BY <2>1, <2>2, <2>3, SidecarClaims
<1>4. ASSUME NEW k \in Keys, Approve(k)
      PROVE  ClaimInv'
  BY <1>4, SetEntryClaims DEF Approve
<1>5. ASSUME NEW k \in Keys, Discard(k)
      PROVE  ClaimInv'
  BY <1>5, SetEntryClaims DEF Discard
<1> QED
  BY <1>1, <1>2, <1>3, <1>4, <1>5 DEF Discovery

LEMMA WithoutMatches ==
  ASSUME NEW s, NEW gone, NEW d, NEW n, Matches(s, d, n)
  PROVE  Matches(Without(s, gone), d, n)
BY DEF Without, Matches

(* Startup: the loaded view is the file's, so its comparison drops exactly *)
(* the claims that had not seen a retirement.                              *)
LEMMA BootLoadClaims ==
  ASSUME IInv, ClaimInv, BootLoad
  PROVE  ClaimInv'
<1>1. /\ disk \in View /\ Sound(disk)
      /\ Edited(disk, Load(disk)) /\ Load(disk).prov = {}
      /\ \A k \in Keys : Load(disk).tomb[k] = disk.tomb[k]
  BY LoadSound DEF IInv, TypeOK, GenerationInv
<1>2. Load(disk).log = disk.log
  BY <1>1 DEF Load, View
<1>3. /\ UNCHANGED <<disk, dirPlatter, keys, keysPlatter, serial>>
      /\ dir' = Load(disk) /\ store' = keys /\ phase' = "loaded"
  BY DEF BootLoad, fileVars
<1>4. /\ disk.routeGen \in Nat /\ disk.tomb \in [Keys -> Nat] /\ disk.log \in [Keys -> Nat]
      /\ \A k \in Keys : disk.tomb[k] <= disk.routeGen
  BY <1>1 DEF Sound, View
<1>5. dir'.routeGen = disk.routeGen /\ dir'.log = disk.log /\ dir'.prov = {}
      /\ \A k \in Keys : dir'.tomb[k] = disk.tomb[k]
  BY <1>1, <1>2, <1>3 DEF Edited
<1>6. FilesMatch'
  BY <1>3 DEF ClaimInv, FilesMatch, Matches
<1>7. DaemonMatches'
  BY <1>3, <1>4, <1>5 DEF ClaimInv, FilesMatch, DaemonMatches, Matches
<1>8. StartupMatches'
  BY <1>3, <1>5 DEF ClaimInv, FilesMatch, StartupMatches, Matches
<1> QED
  BY <1>6, <1>7, <1>8 DEF ClaimInv

LEMMA BootApplyClaims ==
  ASSUME IInv, ClaimInv, BootApply
  PROVE  ClaimInv'
<1>1. /\ UNCHANGED <<disk, cli, dir, serial>>
      /\ phase = "loaded"
      /\ store' = Without(store, Retired(store, dir))
      /\ phase' = IF Retired(store, dir) # {} THEN "dropped" ELSE "kept"
      /\ \/ \E ok \in BOOLEAN : WriteSidecar(store', FALSE, ok)
         \/ NoSidecarWrite
      /\ Retired(store, dir) = {} => NoSidecarWrite
  BY DEF BootApply
<1>2. Matches(store', disk, serial)
  BY <1>1, WithoutMatches DEF ClaimInv, DaemonMatches
<1>3. ASSUME NEW k \in Keys
      PROVE  ~Unseen(store'[k], k, dir)
  BY <1>1 DEF ClaimInv, StartupMatches, Without, Retired, Outranked, Unseen
<1>4. Retired(store, dir) = {} => store' = store
  BY <1>1 DEF Without, IInv, TypeOK, Store
<1>5. StartupMatches'
  BY <1>1, <1>3, <1>4 DEF ClaimInv, StartupMatches, NoSidecarWrite, Unseen
<1> QED
  BY <1>1, <1>2, <1>5, SidecarClaims

LEMMA BootPersistClaims ==
  ASSUME IInv, ClaimInv, BootPersist
  PROVE  ClaimInv'
<1>1. /\ UNCHANGED <<disk, cli, dir, store, serial>>
      /\ phase \in {"dropped", "kept"} /\ phase' \in {"durable", "serving"}
      /\ \/ \E ok \in BOOLEAN : WriteSidecar(store, TRUE, ok)
         \/ NoSidecarWrite
  BY DEF BootPersist
<1>2. phase' = "durable" => keys' = store
  BY DEF BootPersist, MustPersist, WriteSidecar, NoSidecarWrite, ClaimInv,
    StartupMatches
<1>3. StartupMatches'
  BY <1>1, <1>2 DEF ClaimInv, StartupMatches, Unseen
<1>4. Matches(store, disk, serial) /\ Matches(store', disk, serial)
  BY <1>1 DEF ClaimInv, DaemonMatches
<1> QED
  BY <1>1, <1>3, <1>4, SidecarClaims

(* Consumption takes tombstones from the file only where nothing is left,  *)
(* on disk or in memory, that they would have dropped.                     *)
LEMMA BootConsumeClaims ==
  ASSUME IInv, ClaimInv, BootConsume
  PROVE  ClaimInv'
<1>1. /\ disk \in View /\ dir \in View /\ keys \in Store /\ store \in Store
      /\ dir.routeGen <= disk.routeGen /\ serial \in Nat
  BY DEF IInv, TypeOK, ClaimInv, DaemonMatches
<1>2. /\ disk.routeGen \in Nat /\ disk.tomb \in [Keys -> Nat] /\ disk.log \in [Keys -> Nat]
      /\ dir.routeGen \in Nat /\ dir.log \in [Keys -> Nat]
  BY <1>1 DEF View
<1>3. /\ phase = "durable" /\ phase' = "serving"
      /\ UNCHANGED <<dirPlatter, keys, keysPlatter, store, serial>>
  BY DEF BootConsume
<1>4. /\ disk'.routeGen = disk.routeGen /\ disk'.log = disk.log
      /\ dir'.routeGen = dir.routeGen /\ dir'.log = dir.log
  BY <1>1 DEF BootConsume, ConsumeOn, MarkTombstonesApplied, View
<1>5. ASSUME NEW k \in Keys
      PROVE  \/ disk'.tomb[k] = disk.tomb[k]
             \/ disk'.tomb[k] = 0 /\ disk.tomb[k] <= dir.routeGen
  <2> DEFINE tomb == [j \in Keys |->
                        IF j \in Pending(dir) /\ disk.tomb[j] <= dir.routeGen
                        THEN 0 ELSE disk.tomb[j]]
  <2>1. \/ disk' = disk
        \/ disk'.tomb = tomb
    BY <1>1 DEF BootConsume, ConsumeOn, View
  <2> QED
    BY <2>1
<1>6. ASSUME NEW k \in Keys, disk.tomb[k] <= dir.routeGen
      PROVE  disk.log[k] <= dir.log[k]
  BY <1>2, <1>3, <1>6 DEF ClaimInv, DaemonMatches
<1>7. ASSUME NEW k \in Keys, store[k] # None
      PROVE  /\ store[k].saw \in Nat /\ store[k].gen \in Nat
             /\ dir.log[k] <= store[k].saw
  <2>1. store[k].saw \in Nat /\ store[k].gen \in Nat
    BY <1>1, <1>7 DEF Store, Entry
  <2>2. ~Unseen(store[k], k, dir)
    BY <1>3 DEF ClaimInv, StartupMatches
  <2> QED
    BY <1>2, <1>7, <2>1, <2>2 DEF Unseen
<1>8. Matches(store, disk, serial)' /\ keys' = store'
  <2>1. keys' = store'
    BY <1>3 DEF ClaimInv, StartupMatches
  <2> SUFFICES ASSUME NEW k \in Keys, store[k] # None
               PROVE  /\ store[k].gen <= disk'.routeGen
                      /\ store[k].saw <= serial
                      /\ store[k].saw < disk'.log[k] <=> store[k].gen < disk'.tomb[k]
    BY <1>3, <2>1 DEF Matches
  <2>2. /\ store[k].gen <= disk.routeGen
        /\ store[k].saw <= serial
        /\ store[k].saw < disk.log[k] <=> store[k].gen < disk.tomb[k]
    BY DEF ClaimInv, DaemonMatches, Matches
  <2>3. CASE disk'.tomb[k] = disk.tomb[k]
    BY <1>4, <2>2, <2>3
  <2>4. CASE disk'.tomb[k] = 0 /\ disk.tomb[k] <= dir.routeGen
    <3>1. disk.log[k] <= dir.log[k] /\ dir.log[k] <= store[k].saw
      BY <1>6, <1>7, <2>4
    <3>2. store[k].saw \in Nat /\ store[k].gen \in Nat
      BY <1>7
    <3> QED
      BY <1>2, <1>4, <2>2, <2>4, <3>1, <3>2
  <2> QED
    BY <1>5, <2>3, <2>4
<1>9. FilesMatch'
  <2>1. Matches(keys, disk, serial)'
    BY <1>8 DEF Matches
  <2>2. OrderedFS => Matches(keysPlatter, dirPlatter, serial)'
    BY <1>3 DEF ClaimInv, FilesMatch, Matches
  <2> QED
    BY <1>3, <1>4, <2>1, <2>2 DEF ClaimInv, FilesMatch
<1>10. DaemonMatches'
  <2>1. ASSUME NEW k \in Keys
        PROVE  dir'.log[k] < disk'.log[k] <=> dir'.routeGen < disk'.tomb[k]
    <3>1. dir.log[k] < disk.log[k] <=> dir.routeGen < disk.tomb[k]
      BY <1>3 DEF ClaimInv, DaemonMatches
    <3>2. \/ disk'.tomb[k] = disk.tomb[k]
          \/ disk'.tomb[k] = 0 /\ disk.tomb[k] <= dir.routeGen
      BY <1>5
    <3>3. disk.tomb[k] \in Nat
      BY <1>2
    <3> QED
      BY <1>2, <1>4, <3>1, <3>2, <3>3
  <2> QED
    BY <1>3, <1>4, <1>8, <2>1 DEF ClaimInv, DaemonMatches
<1>11. StartupMatches'
  BY <1>3 DEF StartupMatches
<1> QED
  BY <1>9, <1>10, <1>11 DEF ClaimInv

LEMMA BootConsumeFailsClaims ==
  ASSUME IInv, ClaimInv, BootConsumeFails
  PROVE  ClaimInv'
<1>1. /\ UNCHANGED <<disk, dirPlatter, keys, keysPlatter, dir, store, serial>>
      /\ phase = "durable" /\ phase' = "serving"
  BY DEF BootConsumeFails, fileVars
<1> QED
  BY <1>1 DEF ClaimInv, FilesMatch, DaemonMatches, StartupMatches, Matches

LEMMA RetryPersistClaims ==
  ASSUME IInv, ClaimInv, RetryPersist
  PROVE  ClaimInv'
<1>1. /\ UNCHANGED <<disk, dir, phase, store, serial>> /\ phase = "serving"
      /\ \E ok \in BOOLEAN : WriteSidecar(store, TRUE, ok)
  BY DEF RetryPersist
<1>2. StartupMatches'
  BY <1>1 DEF StartupMatches
<1>3. Matches(store, disk, serial) /\ Matches(store', disk, serial)
  BY <1>1 DEF ClaimInv, DaemonMatches
<1> QED
  BY <1>1, <1>2, <1>3, SidecarClaims

(* Adopting the file as this step leaves it.                               *)
LEMMA AdoptClaims ==
  ASSUME IInv, ClaimInv, phase = "serving", Written, Adopt(disk')
  PROVE  ClaimInv'
<1>1. /\ disk' \in View /\ Sound(disk') /\ dir \in View /\ store \in Store
  BY DEF Written, Grown, IInv, TypeOK
<1>2. /\ disk'.routeGen \in Nat /\ dir.routeGen \in Nat
      /\ disk'.tomb \in [Keys -> Nat] /\ disk'.log \in [Keys -> Nat]
      /\ \A k \in Keys : disk'.tomb[k] <= disk'.routeGen
  BY <1>1 DEF View, Sound
<1>3. /\ Matches(keys, disk', serial')
      /\ Matches(store, disk', serial')
      /\ OrderedFS => Matches(keysPlatter, dirPlatter, serial')
      /\ \A k \in Keys : disk'.log[k] <= serial' /\ dirPlatter.log[k] <= serial'
      /\ dir.routeGen <= disk'.routeGen
  BY WrittenFacts
<1>4. /\ dir' = Adopted(dir, disk') /\ phase' = "serving"
      /\ \E gone : /\ store' = Without(store, gone)
                   /\ \/ \E ok \in BOOLEAN : WriteSidecar(store', TRUE, ok)
                      \/ NoSidecarWrite
  BY DEF Adopt
<1>5. Matches(store', disk', serial')
  BY <1>3, <1>4, WithoutMatches
<1>6. FilesMatch'
  BY <1>3, <1>4, <1>5, SidecarMatches
<1>7. dir'.log = disk'.log /\ dir'.routeGen = disk'.routeGen
  <2>1. \A x \in {dir.routeGen, disk'.routeGen} : x <= disk'.routeGen
    BY <1>2, <1>3
  <2>2. MaxOf({dir.routeGen, disk'.routeGen} \cup Gens(disk'.tomb)) = disk'.routeGen
    BY <1>2, <2>1, MaxGens
  <2> QED
    BY <1>4, <2>2 DEF Adopted
<1>8. DaemonMatches'
  <2>1. Matches(store, disk, serial)'
    BY <1>5 DEF Matches
  <2> QED
    BY <1>2, <1>3, <1>7, <2>1 DEF DaemonMatches
<1>9. StartupMatches'
  BY <1>4 DEF StartupMatches
<1> QED
  BY <1>6, <1>8, <1>9 DEF ClaimInv

LEMMA DirectoryChangeClaims ==
  ASSUME IInv, ClaimInv, DirectoryChange
  PROVE  ClaimInv'
<1>1. /\ disk \in View /\ Sound(disk) /\ Load(disk) \in View
      /\ Edited(disk, Load(disk)) /\ Load(disk).prov = {}
      /\ \A k \in Keys : Load(disk).tomb[k] = disk.tomb[k]
  BY LoadSound DEF IInv, TypeOK, GenerationInv
<1>2. Load(disk).admitted = disk.admitted /\ Load(disk).log = disk.log
  BY <1>1 DEF Load, View
<1>3. ASSUME NEW m, Edited(Load(disk), m), m.log = disk.log, ApplyChange(m)
      PROVE  ClaimInv'
  <2>1. Edited(disk, m)
    BY <1>1, <1>3 DEF Edited
  <2>2. Written
    BY <1>3, <2>1, WriteGrows, WriteStamps DEF Written, ApplyChange
  <2> QED
    BY <1>3, <2>2, AdoptClaims DEF ApplyChange
<1>4. ASSUME NEW p \in Peers, DaemonForget(p)
      PROVE  ClaimInv'
  <2> DEFINE m == Forget(Load(disk), p)
  <2>1. Edited(Load(disk), m)
    BY <1>1, <1>2, <1>4, ForgetEdits DEF DaemonForget, Holds
  <2>2. m.log = disk.log
    BY <1>1, <1>2 DEF Forget, Tombstone, View
  <2> QED
    BY <1>3, <1>4, <2>1, <2>2 DEF DaemonForget
<1>5. ASSUME NEW p \in Peers, NEW k \in Keys, DaemonAdd(p, k)
      PROVE  ClaimInv'
  <2> DEFINE m == Admit(Load(disk), p, k)
  <2>1. Edited(Load(disk), m)
    BY <1>1, AdmitEdits
  <2>2. m.log = disk.log
    BY <1>1, <1>2 DEF Admit, View
  <2> QED
    BY <1>3, <1>5, <2>1, <2>2 DEF DaemonAdd
<1>6. Edited(Load(disk), Load(disk))
  BY <1>1 DEF Edited
<1>7. CASE DaemonTouch
  BY <1>2, <1>3, <1>6, <1>7 DEF DaemonTouch
<1>8. CASE Reload
  BY <1>8, UntouchedWritten, AdoptClaims DEF Reload
<1> QED
  BY <1>4, <1>5, <1>7, <1>8 DEF DirectoryChange

(* A restart reads two files that match; after a power loss that takes an  *)
(* ordered file system.                                                    *)
LEMMA DownClaims ==
  ASSUME FilesMatch', DaemonDown, IInv'
  PROVE  ClaimInv'
<1>1. /\ phase' = "down" /\ dir' = NoView /\ store' = EmptyStore
      /\ disk'.routeGen \in Nat /\ serial' \in Nat
  BY DEF DaemonDown, IInv, TypeOK, View
<1>2. NoView.routeGen = 0 /\ \A k \in Keys : NoView.log[k] = 0
  BY DEF NoView, EmptyView
<1>3. DaemonMatches' /\ StartupMatches'
  BY <1>1, <1>2 DEF DaemonMatches, StartupMatches, Matches, EmptyStore
<1> QED
  BY <1>3 DEF ClaimInv

LEMMA CrashClaims ==
  ASSUME OrderedFS \/ ~PowerLosses, IInv, ClaimInv, IInv',
         DaemonStops \/ Writeback \/ PowerLoss
  PROVE  ClaimInv'
<1>1. CASE DaemonStops
  <2>1. FilesMatch'
    BY <1>1 DEF DaemonStops, fileVars, ClaimInv, FilesMatch, Matches
  <2> QED
    BY <1>1, <2>1, DownClaims DEF DaemonStops
<1>2. CASE Writeback
  <2>1. /\ dirPlatter' = disk /\ keysPlatter' = keys
        /\ UNCHANGED <<disk, keys, phase, dir, store, serial>>
    BY <1>2 DEF Writeback, daemonVars
  <2>2. FilesMatch'
    BY <2>1 DEF ClaimInv, FilesMatch, Matches
  <2>3. DaemonMatches' /\ StartupMatches'
    BY <2>1 DEF ClaimInv, DaemonMatches, StartupMatches, Matches, Unseen
  <2> QED
    BY <2>2, <2>3 DEF ClaimInv
<1>3. CASE PowerLoss
  <2>1. FilesMatch'
    BY <1>3 DEF PowerLoss, ClaimInv, FilesMatch, Matches
  <2> QED
    BY <1>3, <2>1, DownClaims DEF PowerLoss
<1> QED
  BY <1>1, <1>2, <1>3

LEMMA InitClaims ==
  Init => ClaimInv
<1> SUFFICES ASSUME Init PROVE ClaimInv
  OBVIOUS
<1>1. /\ keys = EmptyStore /\ keysPlatter = EmptyStore /\ store = EmptyStore
      /\ phase = "down" /\ dir = NoView /\ serial = 0 /\ dirPlatter = disk
      /\ disk.routeGen = 0 /\ \A k \in Keys : disk.log[k] = 0
  BY DEF Init, EmptyView
<1>2. NoView.routeGen = 0 /\ \A k \in Keys : NoView.log[k] = 0
  BY DEF NoView, EmptyView
<1> QED
  BY <1>1, <1>2
  DEF ClaimInv, FilesMatch, DaemonMatches, StartupMatches, Matches, EmptyStore

LEMMA StepClaims ==
  ASSUME OrderedFS \/ ~PowerLosses, IInv, ClaimInv, [Next]_vars
  PROVE  ClaimInv'
<1>1. CASE UNCHANGED vars
  BY <1>1
  DEF vars, ClaimInv, FilesMatch, DaemonMatches, StartupMatches, Matches, Unseen
<1>2. CASE Cli
  BY <1>2, CliClaims
<1>3. CASE Boot
  BY <1>3, BootLoadClaims, BootApplyClaims, BootPersistClaims, BootConsumeClaims
  DEF Boot
<1>4. CASE BootConsumeFails
  BY <1>4, BootConsumeFailsClaims
<1>5. CASE Discovery
  BY <1>5, DiscoveryClaims
<1>6. CASE RetryPersist
  BY <1>6, RetryPersistClaims
<1>7. CASE DirectoryChange
  BY <1>7, DirectoryChangeClaims
<1>8. CASE DaemonStops \/ Writeback \/ PowerLoss
  BY <1>8, StepInv, CrashClaims
<1> QED
  BY <1>1, <1>2, <1>3, <1>4, <1>5, <1>6, <1>7, <1>8 DEF Next

(* The comparison of generations decides, in both files, in the daemon's   *)
(* store and at every stage of a startup, what the history would decide.   *)
THEOREM GenerationsTellHistory ==
  ASSUME OrderedFS \/ ~PowerLosses
  PROVE  Spec => [](TypeOK /\ ClaimInv)
<1>1. Init => IInv /\ ClaimInv
  BY InitInv, InitClaims
<1>2. IInv /\ ClaimInv /\ [Next]_vars => (IInv /\ ClaimInv)'
  BY StepInv, StepClaims
<1>3. IInv => TypeOK
  BY DEF IInv
<1> QED
  BY <1>1, <1>2, <1>3, PTL DEF Spec

(* "No crash can lose BOTH a tombstone and the forget it drove": while the *)
(* sidecar a restart would read holds a claim made before its key's last   *)
(* retirement, that tombstone is in the file the restart would read.       *)
THEOREM NoCrashLosesBoth ==
  ASSUME OrderedFS \/ ~PowerLosses
  PROVE  Spec => []NeitherLost
<1>1. TypeOK /\ ClaimInv => NeitherLost
  BY DEF TypeOK, ClaimInv, FilesMatch, Matches, NeitherLost, Unseen, Store, Entry
<1> QED
  BY <1>1, GenerationsTellHistory, PTL

(* A pending tombstone is strictly above every claim on disk made without  *)
(* having seen it (routedKeyStore.applyTombstones, and the stamps that     *)
(* observe and approve take from the daemon's counter).                    *)
THEOREM PendingOutranks ==
  ASSUME OrderedFS \/ ~PowerLosses
  PROVE  Spec => []PendingOutranksUnseen
<1>1. TypeOK /\ ClaimInv => PendingOutranksUnseen
  BY DEF ClaimInv, FilesMatch, Matches, PendingOutranksUnseen, Unseen
<1> QED
  BY <1>1, GenerationsTellHistory, PTL

(* What a startup serves holds no claim made before a retirement that the  *)
(* startup loaded, whether or not its writes landed.                       *)
THEOREM StartupDropsRetired ==
  ASSUME OrderedFS \/ ~PowerLosses
  PROVE  Spec => StartupServesNoRetired
<1>1. ASSUME TypeOK, ClaimInv, [Next]_vars
      PROVE  [phase # "serving" /\ phase' = "serving" =>
                \A k \in Keys : ~Unseen(store'[k], k, dir')]_vars
  <2> SUFFICES ASSUME Next, phase # "serving", phase' = "serving", NEW k \in Keys
               PROVE  ~Unseen(store'[k], k, dir')
    BY <1>1
  <2>1. BootPersist \/ BootConsume \/ BootConsumeFails
    BY DEF Next, Cli, CliLoad, CliExit, CliForget, CliRotate, CliAdd, CliPersist,
      Boot, BootLoad, BootApply, Discovery, ObserveNew, ObserveEvicting,
      ObserveConflict, Approve, Discard, SetEntry, RetryPersist, DirectoryChange,
      DaemonForget, DaemonAdd, DaemonTouch, Reload, ApplyChange, Adopt, DaemonStops,
      Writeback, PowerLoss, DaemonDown, daemonVars
  <2>2. store' = store /\ phase \in {"dropped", "kept", "durable"}
    BY <2>1 DEF BootPersist, BootConsume, BootConsumeFails
  <2>3. dir'.log = dir.log
    BY <1>1, <2>1 DEF BootPersist, BootConsume, BootConsumeFails, MarkTombstonesApplied,
      TypeOK, View
  <2> QED
    BY <1>1, <2>2, <2>3 DEF ClaimInv, StartupMatches, Unseen
<1> QED
  BY <1>1, GenerationsTellHistory, PTL DEF Spec, StartupServesNoRetired

(* And a startup drops nothing else: an entry it removes was claimed       *)
(* before a retirement that it loaded.                                     *)
THEOREM StartupKeepsTheRest ==
  ASSUME OrderedFS \/ ~PowerLosses
  PROVE  Spec => StartupKeepsSeen
<1>1. ASSUME TypeOK, ClaimInv, [Next]_vars
      PROVE  [phase = "loaded" /\ phase' \in {"dropped", "kept"} =>
                \A k \in Keys : store[k] # None /\ store'[k] = None
                                   => Unseen(store[k], k, dir)]_vars
  <2> SUFFICES ASSUME Next, phase = "loaded", phase' \in {"dropped", "kept"},
                      NEW k \in Keys, store[k] # None, store'[k] = None
               PROVE  Unseen(store[k], k, dir)
    BY <1>1
  <2>1. BootApply
    BY DEF Next, Cli, CliLoad, CliExit, CliForget, CliRotate, CliAdd, CliPersist,
      Boot, BootLoad, BootPersist, BootConsume, BootConsumeFails, Discovery,
      ObserveNew, ObserveEvicting, ObserveConflict, Approve, Discard, SetEntry,
      RetryPersist, DirectoryChange, DaemonForget, DaemonAdd, DaemonTouch, Reload,
      ApplyChange, Adopt, DaemonStops, Writeback, PowerLoss, DaemonDown, daemonVars
  <2>2. k \in Retired(store, dir)
    BY <2>1 DEF BootApply, Without
  <2> QED
    BY <1>1, <2>2 DEF ClaimInv, StartupMatches, Retired, Outranked, Unseen
<1> QED
  BY <1>1, GenerationsTellHistory, PTL DEF Spec, StartupKeepsSeen

-----------------------------------------------------------------------------
(* Conflicts. *)

Void(s) == {k \in Keys : s[k] # None /\ s[k].st = "conflict"}

(* Every void in memory is on disk unless the degraded report stands, and  *)
(* on the platter too unless a write has failed at some time.              *)
ConflictInv ==
  /\ ~degraded => Void(store) \subseteq Void(keys)
  /\ faults = 0 => ~degraded /\ Void(keys) \subseteq Void(keysPlatter)

(* A sidecar write keeps it, if only a restricting one may add a void.     *)
LEMMA SidecarConflict ==
  ASSUME TypeOK, ConflictInv, NEW restricting \in BOOLEAN,
         \/ \E ok \in BOOLEAN : WriteSidecar(store', restricting, ok)
         \/ NoSidecarWrite,
         \/ restricting /\ ~NoSidecarWrite
         \/ Void(store') \subseteq Void(store)
  PROVE  ConflictInv'
<1>1. CASE NoSidecarWrite
  BY <1>1 DEF NoSidecarWrite, ConflictInv, Void
<1>2. ASSUME NEW ok \in BOOLEAN, WriteSidecar(store', restricting, ok), ~NoSidecarWrite
      PROVE  ConflictInv'
  <2>1. CASE ok
    <3>1. /\ faults' = faults /\ keys' = store'
          /\ keysPlatter' = IF restricting THEN store' ELSE keysPlatter
          /\ degraded' = IF restricting THEN FALSE ELSE degraded
      BY <1>2, <2>1 DEF WriteSidecar
    <3> QED
      BY <1>2, <3>1 DEF ConflictInv, Void
  <2>2. CASE ~ok
    <3>1. /\ faults' = faults + 1 /\ keys' = keys /\ keysPlatter' = keysPlatter
          /\ degraded' = IF restricting THEN TRUE ELSE degraded
      BY <1>2, <2>2 DEF WriteSidecar
    <3>2. faults' # 0
      BY <3>1 DEF TypeOK
    <3> QED
      BY <1>2, <3>1, <3>2 DEF ConflictInv, Void
  <2> QED
    BY <2>1, <2>2
<1> QED
  BY <1>1, <1>2

LEMMA WithoutVoid ==
  ASSUME NEW s, NEW gone
  PROVE  Void(Without(s, gone)) \subseteq Void(s)
BY DEF Void, Without

LEMMA BootConflict ==
  ASSUME TypeOK, ConflictInv, Boot \/ BootConsumeFails
  PROVE  ConflictInv'
<1>1. CASE BootLoad
  BY <1>1 DEF BootLoad, fileVars, ConflictInv, Void
<1>2. CASE BootApply
  <2>1. /\ store' = Without(store, Retired(store, dir))
        /\ \/ \E ok \in BOOLEAN : WriteSidecar(store', FALSE, ok)
           \/ NoSidecarWrite
    BY <1>2 DEF BootApply
  <2> QED
    BY <2>1, WithoutVoid, SidecarConflict
<1>3. CASE BootPersist
  <2>1. /\ store' = store
        /\ \/ \E ok \in BOOLEAN : WriteSidecar(store', TRUE, ok)
           \/ NoSidecarWrite
    BY <1>3 DEF BootPersist
  <2> QED
    BY <2>1, SidecarConflict
<1>4. CASE BootConsume
  BY <1>4 DEF BootConsume, ConflictInv, Void
<1>5. CASE BootConsumeFails
  <2>1. faults' # 0
    BY <1>5 DEF BootConsumeFails, TypeOK
  <2> QED
    BY <1>5, <2>1 DEF BootConsumeFails, fileVars, ConflictInv, Void
<1> QED
  BY <1>1, <1>2, <1>3, <1>4, <1>5 DEF Boot

(* Discovery adds a void with a restricting write, and by no other.        *)
LEMMA DiscoveryConflict ==
  ASSUME TypeOK, ConflictInv, Discovery \/ RetryPersist
  PROVE  ConflictInv'
<1>1. ASSUME NEW k \in Keys, NEW st \in {"pending", "approved"},
             SetEntry(k, Claim(st, k), FALSE)
      PROVE  ConflictInv'
  <2>1. /\ store' = [store EXCEPT ![k] = Claim(st, k)]
        /\ \E ok \in BOOLEAN : WriteSidecar(store', FALSE, ok)
    BY <1>1 DEF SetEntry
  <2>2. Void(store') \subseteq Void(store)
    BY <2>1 DEF Void, Claim, TypeOK, Store
  <2> QED
    BY <2>1, <2>2, SidecarConflict
<1>2. ASSUME NEW k \in Keys, NEW victim \in Keys, ObserveEvicting(k, victim)
      PROVE  ConflictInv'
  <2>1. /\ store' = [store EXCEPT ![victim] = None, ![k] = Claim("pending", k)]
        /\ \E ok \in BOOLEAN : WriteSidecar(store', FALSE, ok)
    BY <1>2 DEF ObserveEvicting
  <2>2. Void(store') \subseteq Void(store)
    BY <2>1 DEF Void, Claim, TypeOK, Store
  <2> QED
    BY <2>1, <2>2, SidecarConflict
<1>3. ASSUME NEW k \in Keys, NEW e, SetEntry(k, e, TRUE)
      PROVE  ConflictInv'
  <2>1. \E ok \in BOOLEAN : WriteSidecar(store', TRUE, ok)
    BY <1>3 DEF SetEntry
  <2>2. CASE NoSidecarWrite
    <3>1. PICK ok \in BOOLEAN : WriteSidecar(store', TRUE, ok)
      BY <2>1
    <3>2. ok
      BY <2>2, <3>1 DEF NoSidecarWrite, WriteSidecar, TypeOK
    <3>3. keys' = store' /\ keysPlatter' = store' /\ keys = keys' /\ ~degraded'
      BY <2>2, <3>1, <3>2 DEF NoSidecarWrite, WriteSidecar
    <3> QED
      BY <3>3 DEF ConflictInv, Void
  <2> QED
    BY <2>1, <2>2, SidecarConflict
<1>4. CASE RetryPersist
  <2>1. store' = store /\ \E ok \in BOOLEAN : WriteSidecar(store', TRUE, ok)
    BY <1>4 DEF RetryPersist
  <2> QED
    BY <2>1, SidecarConflict
<1> QED
  BY <1>1, <1>2, <1>3, <1>4
  DEF Discovery, ObserveNew, ObserveConflict, Approve, Discard

LEMMA OthersConflict ==
  ASSUME TypeOK, ConflictInv,
         Cli \/ DirectoryChange \/ DaemonStops \/ Writeback \/ PowerLoss
  PROVE  ConflictInv'
<1>1. CASE Cli
  <2>1. UNCHANGED <<keys, keysPlatter, store, degraded, faults>>
    BY <1>1 DEF Cli, CliLoad, CliExit, CliForget, CliRotate, CliAdd, CliPersist,
      fileVars, daemonVars
  <2> QED
    BY <2>1 DEF ConflictInv, Void
<1>2. CASE DirectoryChange
  <2>1. \E next : Adopt(next)
    BY <1>2 DEF DirectoryChange, DaemonForget, DaemonAdd, DaemonTouch, ApplyChange,
      Reload
  <2>2. \E gone : /\ store' = Without(store, gone)
                  /\ \/ \E ok \in BOOLEAN : WriteSidecar(store', TRUE, ok)
                     \/ NoSidecarWrite
    BY <2>1 DEF Adopt
  <2> QED
    BY <2>2, WithoutVoid, SidecarConflict
<1>3. Void(EmptyStore) = {}
  BY DEF Void, EmptyStore
<1>4. CASE DaemonStops
  <2>1. UNCHANGED <<keys, keysPlatter, faults>> /\ store' = EmptyStore /\ ~degraded'
    BY <1>4 DEF DaemonStops, DaemonDown, fileVars
  <2> QED
    BY <1>3, <2>1 DEF ConflictInv, Void
<1>5. CASE Writeback
  <2>1. keysPlatter' \in {keysPlatter, keys} /\ UNCHANGED <<keys, store, degraded, faults>>
    BY <1>5 DEF Writeback, daemonVars
  <2> QED
    BY <2>1 DEF ConflictInv, Void
<1>6. CASE PowerLoss
  <2>1. /\ keys' = keysPlatter /\ keysPlatter' = keysPlatter /\ faults' = faults
        /\ store' = EmptyStore /\ ~degraded'
    BY <1>6 DEF PowerLoss, DaemonDown
  <2> QED
    BY <1>3, <2>1 DEF ConflictInv, Void
<1> QED
  BY <1>1, <1>2, <1>4, <1>5, <1>6

(* A conflict the daemon holds is not shed by a restart: without a         *)
(* degraded report it is on disk, and on the platter too unless an earlier *)
(* write failed (observe's restricting persist and the retry).             *)
THEOREM ConflictsSurvive == Spec => []ConflictSurvives
<1>1. Init => ConflictInv
  BY DEF Init, ConflictInv, Void, EmptyStore
<1>2. TypeOK /\ ConflictInv /\ [Next]_vars => ConflictInv'
  <2>1. CASE UNCHANGED vars
    BY <2>1 DEF vars, ConflictInv, Void
  <2> QED
    BY <2>1, BootConflict, DiscoveryConflict, OthersConflict DEF Next
<1>3. ConflictInv => ConflictSurvives
  BY DEF ConflictInv, ConflictSurvives, Void
<1> QED
  BY <1>1, <1>2, <1>3, TypeCorrect, PTL DEF Spec

(* The degraded report clears only on a durable write of the whole store:  *)
(* persist's restricting branch, whoever calls it.                         *)
THEOREM RecoveryIsDurable == Spec => RecoveredMeansDurable
<1>1. ASSUME [Next]_vars
      PROVE  [phase = "serving" /\ phase' = "serving" /\ degraded /\ ~degraded' =>
                keysPlatter' = store']_vars
  <2> SUFFICES ASSUME Next, phase = "serving", phase' = "serving", degraded, ~degraded'
               PROVE  keysPlatter' = store'
    BY <1>1
  <2>1. ASSUME NEW restricting, NEW ok,
               WriteSidecar(store', restricting, ok)
        PROVE  keysPlatter' = store'
    BY <2>1 DEF WriteSidecar
  <2>2. CASE Discovery
    BY <2>1, <2>2 DEF Discovery, ObserveNew, ObserveEvicting, ObserveConflict, Approve,
      Discard, SetEntry
  <2>3. CASE RetryPersist
    BY <2>1, <2>3 DEF RetryPersist
  <2>4. CASE DirectoryChange
    <3>1. \E next : Adopt(next)
      BY <2>4 DEF DirectoryChange, DaemonForget, DaemonAdd, DaemonTouch, ApplyChange,
        Reload
    <3> QED
      BY <2>1, <3>1 DEF Adopt, NoSidecarWrite
  <2>5. CASE Cli \/ Boot \/ BootConsumeFails \/ DaemonStops \/ Writeback \/ PowerLoss
    BY <2>5 DEF Cli, CliLoad, CliExit, CliForget, CliRotate, CliAdd, CliPersist, Boot,
      BootLoad, BootApply, BootPersist, BootConsume, BootConsumeFails, DaemonStops,
      Writeback, PowerLoss, DaemonDown, daemonVars
  <2> QED
    BY <2>2, <2>3, <2>4, <2>5 DEF Next
<1> QED
  BY <1>1, PTL DEF Spec, RecoveredMeansDurable

=============================================================================
