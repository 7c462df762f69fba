-------------------------- MODULE ReplayGuardProofs --------------------------
(***************************************************************************)
(* For any origins, manifests, ceilings, validity and skew: at most one    *)
(* delivery of an envelope per process under any clock; and, while the     *)
(* clock is not set back and the sidecar can be written, at most one ever. *)
(***************************************************************************)
EXTENDS ReplayGuard, FiniteSetTheorems, TLAPS

-----------------------------------------------------------------------------
(* Counting. *)

Acc(e, c) ==
  /\ \A o \in Origins : c[o] = Cardinality(Of(o, Held(e)))
  /\ Fits(Held(e))

(* Sets of keys are finite, and so are an origin's.                        *)
LEMMA KeysFinite ==
  ASSUME NEW K \in SUBSET Keys, NEW o \in Origins
  PROVE  /\ IsFiniteSet(K) /\ Cardinality(K) \in Nat
         /\ Of(o, K) \subseteq K
         /\ IsFiniteSet(Of(o, K)) /\ Cardinality(Of(o, K)) \in Nat
<1>1. IsFiniteSet(Keys) /\ Of(o, K) \in SUBSET K
  BY ConstantsAssumption DEF Of
<1> QED
  BY <1>1, FS_Subset, FS_CardinalityType

(* What fits still fits with less in it.                                   *)
LEMMA FitsLess ==
  ASSUME NEW K \in SUBSET Keys, NEW L \in SUBSET K, Fits(K)
  PROVE  Fits(L)
<1>1. Cardinality(L) <= MaxEntries
  <2>1. IsFiniteSet(K) /\ Cardinality(K) \in Nat
    BY ConstantsAssumption, FS_Subset, FS_CardinalityType
  <2>2. Cardinality(L) <= Cardinality(K) /\ Cardinality(L) \in Nat
    BY <2>1, FS_Subset, FS_CardinalityType
  <2> QED
    BY <2>1, <2>2, ConstantsAssumption DEF Fits
<1>2. ASSUME NEW o \in Origins PROVE Cardinality(Of(o, L)) <= MaxPerOrigin
  <2>1. /\ IsFiniteSet(Of(o, K)) /\ Cardinality(Of(o, K)) \in Nat
        /\ Of(o, L) \in SUBSET Of(o, K)
    BY KeysFinite DEF Of
  <2>2. /\ Cardinality(Of(o, L)) <= Cardinality(Of(o, K))
        /\ Cardinality(Of(o, L)) \in Nat
    BY <2>1, FS_Subset, FS_CardinalityType
  <2> QED
    BY <2>1, <2>2, ConstantsAssumption DEF Fits
<1> QED
  BY <1>1, <1>2 DEF Fits

(* sweep() keeps the counts equal to the entries it leaves.                *)
LEMMA SweptAccounted ==
  ASSUME TypeOK, Accounted, NEW t \in Nat
  PROVE  /\ Swept(t) \in Reservations
         /\ SweptCounts(t) \in [Origins -> Nat]
         /\ Acc(Swept(t), SweptCounts(t))
         /\ Held(Swept(t)) = Held(exp) \ Ended(t)
<1> USE DEF TypeOK
<1>1. Held(Swept(t)) = Held(exp) \ Ended(t)
  BY DEF Held, Swept, Ended
<1>2. Swept(t) \in Reservations
  BY DEF Swept, Reservations
<1>3. Held(exp) \in SUBSET Keys /\ Ended(t) \in SUBSET Held(exp)
  BY DEF Held, Ended
<1>4. ASSUME NEW o \in Origins
      PROVE  /\ SweptCounts(t)[o] = Cardinality(Of(o, Held(Swept(t))))
             /\ SweptCounts(t)[o] \in Nat
  <2> DEFINE H == Of(o, Held(exp))
             E == Of(o, Ended(t))
  <2>1. IsFiniteSet(H) /\ Cardinality(H) \in Nat
    BY <1>3, KeysFinite
  <2>2. E \in SUBSET H /\ Of(o, Held(Swept(t))) = H \ E
    BY <1>1, <1>3 DEF Of
  <2>3. IsFiniteSet(E) /\ Cardinality(E) \in Nat /\ Cardinality(E) <= Cardinality(H)
    BY <2>1, <2>2, FS_Subset, FS_CardinalityType
  <2>4. H \cap E = E
    BY <2>2
  <2>5. Cardinality(H \ E) = Cardinality(H) - Cardinality(E)
    BY <2>1, <2>4, FS_Difference
  <2>6. perOrigin[o] = Cardinality(H)
    BY DEF Accounted
  <2>7. SweptCounts(t)[o] = IF perOrigin[o] <= Cardinality(E) THEN 0
                            ELSE perOrigin[o] - Cardinality(E)
    BY DEF SweptCounts
  <2> HIDE DEF H, E
  <2> QED
    BY <2>1, <2>2, <2>3, <2>5, <2>6, <2>7
<1>5. SweptCounts(t) \in [Origins -> Nat]
  <2>1. SweptCounts(t) = [o \in Origins |-> SweptCounts(t)[o]]
    BY DEF SweptCounts
  <2> QED
    BY <1>4, <2>1
<1>6. Fits(Held(Swept(t)))
  BY <1>1, <1>3, FitsLess DEF Accounted
<1> QED
  BY <1>1, <1>2, <1>4, <1>5, <1>6 DEF Acc

(* So does the collection before a decision.                               *)
LEMMA CollectedAccounted ==
  ASSUME TypeOK, Accounted, NEW m \in Manifests, NEW t \in Nat
  PROVE  /\ Collected(m, t) \in Reservations
         /\ CollectedCounts(m, t) \in [Origins -> Nat]
         /\ Acc(Collected(m, t), CollectedCounts(m, t))
         /\ Held(Collected(m, t)) \subseteq Held(exp)
         /\ Held(exp) \ Held(Collected(m, t)) \subseteq Ended(t)
         /\ \A k \in Held(Collected(m, t)) : Collected(m, t)[k] = exp[k]
<1>1. CASE Collects(m, t)
  <2>1. \A k \in Held(Swept(t)) : Swept(t)[k] = exp[k]
    BY DEF Swept, Held
  <2> QED
    BY <1>1, <2>1, SweptAccounted DEF Collected, CollectedCounts
<1>2. CASE ~Collects(m, t)
  BY <1>2 DEF Collected, CollectedCounts, Acc, Accounted, TypeOK
<1> QED
  BY <1>1, <1>2

(* A new reservation where there is room keeps the ceilings.               *)
LEMMA ReservedAccounted ==
  ASSUME TypeOK, Accounted, NEW m \in Manifests, NEW t \in Nat, HasRoom(m, t),
         NEW e, e = [Collected(m, t) EXCEPT ![m.key] = Ends(m)],
         NEW c, c = IF exp[m.key] # None THEN perOrigin
                    ELSE [CollectedCounts(m, t) EXCEPT ![m.key[1]] = @ + 1]
  PROVE  /\ e \in Reservations
         /\ c \in [Origins -> Nat]
         /\ Acc(e, c)
         /\ Held(e) = Held(Collected(m, t)) \cup {m.key}
<1> DEFINE C == Collected(m, t)
           N == CollectedCounts(m, t)
<1>1. /\ m.key \in Keys /\ m.key[1] \in Origins /\ Ends(m) \in Nat
      /\ Ends(m) # None /\ None \notin Nat
  BY ConstantsAssumption DEF Keys, Ends
<1>2. /\ C \in Reservations /\ N \in [Origins -> Nat] /\ Acc(C, N)
  BY CollectedAccounted
<1>3. e \in Reservations
  BY <1>1, <1>2 DEF Reservations
<1>4. Held(e) = Held(C) \cup {m.key}
  BY <1>1, <1>2 DEF Held, Reservations
<1>5. CASE exp[m.key] # None
  <2>1. ~Collects(m, t) /\ C = exp /\ N = perOrigin
    BY <1>5 DEF Collects, Collected, CollectedCounts
  <2>2. Held(e) = Held(exp) /\ c = perOrigin
    BY <1>1, <1>4, <1>5, <2>1 DEF Held
  <2> QED
    BY <1>3, <1>4, <2>2 DEF Acc, Accounted, TypeOK
<1>6. CASE exp[m.key] = None
  <2>1. ~Full(C, N, m.key[1])
    BY <1>6 DEF HasRoom
  <2>2. C[m.key] = None
    BY <1>1, <1>6 DEF Collected, Swept
  <2>3. m.key \notin Held(C) /\ Held(C) \in SUBSET Keys
    BY <2>2 DEF Held
  <2>4. c = [N EXCEPT ![m.key[1]] = @ + 1] /\ c \in [Origins -> Nat]
    BY <1>1, <1>2, <1>6
  <2>5. Cardinality(Held(e)) <= MaxEntries
    <3>1. /\ IsFiniteSet(Held(C)) /\ Cardinality(Held(C)) \in Nat
          /\ Cardinality(Held(C)) < MaxEntries
      BY <1>1, <2>1, <2>3, KeysFinite, ConstantsAssumption DEF Full
    <3>2. Cardinality(Held(e)) = Cardinality(Held(C)) + 1
      BY <1>4, <2>3, <3>1, FS_AddElement
    <3> HIDE DEF C
    <3> QED
      BY <3>1, <3>2, ConstantsAssumption
  <2>6. ASSUME NEW o \in Origins
        PROVE  /\ c[o] = Cardinality(Of(o, Held(e)))
               /\ Cardinality(Of(o, Held(e))) <= MaxPerOrigin
    <3>1. /\ IsFiniteSet(Of(o, Held(C))) /\ Cardinality(Of(o, Held(C))) \in Nat
          /\ N[o] = Cardinality(Of(o, Held(C)))
          /\ N[o] <= MaxPerOrigin
      BY <1>2, <2>3, KeysFinite DEF Acc, Fits
    <3>2. CASE o = m.key[1]
      <4>1. /\ Of(o, Held(e)) = Of(o, Held(C)) \cup {m.key}
            /\ m.key \notin Of(o, Held(C))
        BY <1>1, <1>4, <2>3, <3>2 DEF Of
      <4>2. Cardinality(Of(o, Held(e))) = N[o] + 1
        BY <3>1, <4>1, FS_AddElement
      <4>3. c[o] = N[o] + 1
        BY <1>2, <2>4, <3>2
      <4>4. N[o] < MaxPerOrigin
        BY <2>1, <3>1, <3>2, ConstantsAssumption DEF Full
      <4> QED
        BY <3>1, <4>2, <4>3, <4>4, ConstantsAssumption
    <3>3. CASE o # m.key[1]
      <4>1. Of(o, Held(e)) = Of(o, Held(C))
        BY <1>1, <1>4, <3>3 DEF Of
      <4>2. c[o] = N[o]
        BY <1>1, <1>2, <2>4, <3>3
      <4> QED
        BY <3>1, <4>1, <4>2
    <3> QED
      BY <3>2, <3>3
  <2> QED
    BY <1>3, <1>4, <2>4, <2>5, <2>6 DEF Acc, Fits
<1> QED
  BY <1>5, <1>6

-----------------------------------------------------------------------------
(* Types and counts, which need each other: a count is a natural number    *)
(* because it is a cardinality.                                            *)

(* The initial cache is empty and accounted for.                           *)
LEMMA InitAccounted == Init => TypeOK /\ Accounted
<1> SUFFICES ASSUME Init PROVE TypeOK /\ Accounted
  OBVIOUS
<1>1. TypeOK
  BY DEF Init, TypeOK, NoReservation, Reservations
<1>2. Held(exp) = {} /\ \A o \in Origins : Of(o, Held(exp)) = {}
  BY DEF Init, Held, Of, NoReservation
<1>3. /\ 0 <= MaxEntries /\ 0 <= MaxPerOrigin
      /\ \A o \in Origins : perOrigin[o] = 0
  BY ConstantsAssumption DEF Init
<1>4. Cardinality({}) = 0
  BY FS_EmptySet
<1>5. Accounted
  BY <1>2, <1>3, <1>4 DEF Accounted, Fits
<1> QED
  BY <1>1, <1>5

(* The time a decision is taken at.                                        *)
LEMMA NowIs ==
  ASSUME TypeOK
  PROVE  Now \in Nat /\ clock <= Now /\ highWater <= Now
  BY DEF TypeOK, Now

(* A start takes over entries that fit, and counts them.                   *)
LEMMA StartAccounted ==
  ASSUME TypeOK, NEW R \in Rehydratable(clock),
         exp' = Rehydrated(R),
         perOrigin' = [o \in Origins |-> Cardinality(Of(o, R))]
  PROVE  /\ exp' \in Reservations
         /\ perOrigin' \in [Origins -> Nat]
         /\ Accounted'
<1>1. /\ R \in SUBSET Keys /\ Fits(R)
      /\ \A k \in R : Believable(k, clock)
  BY DEF Rehydratable
<1>2. Held(exp') = R
  BY <1>1 DEF Held, Rehydrated, Believable
<1>3. exp' \in Reservations
  BY <1>1 DEF Rehydrated, Reservations, TypeOK
<1>4. perOrigin' \in [Origins -> Nat]
  BY <1>1, KeysFinite
<1> QED
  BY <1>1, <1>2, <1>3, <1>4 DEF Accounted

(* The sidecar is a snapshot of a cache.                                   *)
LEMMA PersistType ==
  ASSUME TypeOK, NEW e \in Reservations, Persist(e)
  PROVE  sidecar' \in Reservations
  BY DEF TypeOK, Persist, Reservations

(* Every step preserves types and counts.                                  *)
LEMMA StepAccounted ==
  TypeOK /\ Accounted /\ [Next]_vars => TypeOK' /\ Accounted'
<1> SUFFICES ASSUME TypeOK, Accounted, [Next]_vars PROVE TypeOK' /\ Accounted'
  OBVIOUS
<1>a. Now \in Nat
  BY NowIs
<1>b. Accounted <=> Acc(exp, perOrigin)
  BY DEF Accounted, Acc
<1>c. Accounted' <=> Acc(exp', perOrigin')
  BY DEF Accounted, Acc
<1>d. faithful' \in BOOLEAN
  BY DEF TypeOK, Next, Check, BadBody, Admit, Refuse, Persist, Deliver, Inspect,
         Start, Stop, Tick, SetBack, Edit, vars
<1> USE DEF TypeOK
<1>1. ASSUME NEW m \in Manifests, Check(m) PROVE TypeOK' /\ Accounted'
  <2>1. opening' \in [stage : Stages, m : Manifests] \cup {None}
    BY <1>1 DEF Check, Refuse, Stages
  <2>2. CASE UNCHANGED cacheVars
    BY <1>a, <1>1, <2>1, <2>2 DEF Check, Refuse, cacheVars, Accounted
  <2>3. CASE exp' = Collected(m, Now) /\ perOrigin' = CollectedCounts(m, Now)
    BY <1>a, <1>c, <1>1, <2>1, <2>3, CollectedAccounted DEF Check, Refuse
  <2> QED
    BY <1>1, <2>2, <2>3 DEF Check
<1>2. CASE BadBody
  BY <1>2 DEF BadBody, cacheVars, Accounted
<1>3. CASE Admit
  <2>1. opening.m \in Manifests /\ opening \in [stage : Stages, m : Manifests]
    BY <1>3 DEF Admit
  <2> DEFINE m == opening.m
             o == m.key[1]
  <2>2. opening' \in [stage : Stages, m : Manifests] \cup {None}
    BY <1>3, <2>1 DEF Admit, Refuse, Stages
  <2>3. /\ highWater' = Now
        /\ UNCHANGED <<clock, up, inRun, delivered>>
    BY <1>3 DEF Admit
  <2>4. CASE UNCHANGED cacheVars /\ sidecar' = sidecar
    BY <1>a, <1>d, <2>2, <2>3, <2>4 DEF cacheVars, Accounted
  <2>5. CASE /\ exp' = Collected(m, Now)
             /\ perOrigin' = CollectedCounts(m, Now)
             /\ sidecar' = sidecar
    BY <1>a, <1>c, <1>d, <2>1, <2>2, <2>3, <2>5, CollectedAccounted
  <2>6. CASE /\ HasRoom(m, Now)
             /\ exp' = [Collected(m, Now) EXCEPT ![m.key] = Ends(m)]
             /\ perOrigin' = IF exp[m.key] # None THEN perOrigin
                             ELSE [CollectedCounts(m, Now) EXCEPT ![o] = @ + 1]
             /\ Persist(exp')
    <3>1. exp' \in Reservations /\ perOrigin' \in [Origins -> Nat] /\ Accounted'
      BY <1>a, <1>c, <2>1, <2>6, ReservedAccounted
    <3>2. sidecar' \in Reservations
      BY <2>6, <3>1, PersistType
    <3> QED
      BY <1>a, <1>d, <2>2, <2>3, <3>1, <3>2
  <2> QED
    BY <1>3, <2>4, <2>5, <2>6 DEF Admit, Refuse
<1>4. CASE Deliver
  BY <1>4 DEF Deliver, cacheVars, Accounted
<1>5. CASE Inspect
  BY <1>a, <1>c, <1>5, SweptAccounted DEF Inspect
<1>6. CASE Start
  <2>1. PICK R \in Rehydratable(clock) :
          /\ exp' = Rehydrated(R)
          /\ perOrigin' = [o \in Origins |-> Cardinality(Of(o, R))]
    BY <1>6 DEF Start
  <2> QED
    BY <1>6, <2>1, StartAccounted DEF Start
<1>7. CASE Stop
  <2>1. Held(exp') = {} /\ \A o \in Origins : Of(o, Held(exp')) = {}
    BY <1>7 DEF Stop, Held, Of, NoReservation
  <2>2. Acc(exp', perOrigin')
    <3>1. 0 <= MaxEntries /\ 0 <= MaxPerOrigin
      BY ConstantsAssumption
    <3>2. Cardinality({}) = 0
      BY FS_EmptySet
    <3>3. \A o \in Origins : perOrigin'[o] = 0
      BY <1>7 DEF Stop
    <3> QED
      BY <2>1, <3>1, <3>2, <3>3 DEF Acc, Fits
  <2> QED
    BY <1>c, <1>7, <2>2 DEF Stop, NoReservation, Reservations
<1>8. CASE Tick \/ SetBack
  BY <1>8, <1>d DEF Tick, SetBack, cacheVars, Accounted
<1>9. CASE Edit
  <2>1. sidecar' \in Reservations
    BY <1>9, ConstantsAssumption DEF Edit, Reservations
  <2> QED
    BY <1>9, <2>1 DEF Edit, cacheVars, Accounted
<1>10. CASE UNCHANGED vars
  BY <1>10 DEF vars, Accounted
<1> QED
  BY <1>1, <1>2, <1>3, <1>4, <1>5, <1>6, <1>7, <1>8, <1>9, <1>10 DEF Next

-----------------------------------------------------------------------------
(* One process. *)

(* A manifest cannot be admitted again by this process: its reservation is *)
(* held, or the time it was admissible at is past.                         *)
Covered(m) ==
  \/ Ends(m) < highWater
  \/ exp[m.key] # None /\ Ends(m) <= exp[m.key]

RunCovered ==
  \A m \in Manifests : m \in inRun \/ Delivering(m) => Covered(m)

DownIdle == ~up => opening = None /\ inRun = {}

(* What has been delivered is covered, and what is covered is a duplicate  *)
(* or too late; the two other parts make the counts cardinalities.         *)
RunInv ==
  /\ TypeOK /\ Accounted /\ ReservationsEnd
  /\ DownIdle /\ RunCovered /\ AtMostOncePerRun

(* A reservation is made for a window that has opened, up to the skew, and *)
(* is no longer than allowed; the time seen only grows.                    *)
LEMMA StepEnds ==
  TypeOK /\ Accounted /\ ReservationsEnd /\ [Next]_vars => ReservationsEnd'
<1> SUFFICES ASSUME TypeOK, Accounted, ReservationsEnd, [Next]_vars,
                    NEW k \in Keys, exp'[k] # None
             PROVE  exp'[k] <= highWater' + MaxValidity + 2 * Skew
  BY DEF ReservationsEnd, Held
<1> USE DEF TypeOK
<1>1. MaxValidity \in Nat /\ Skew \in Nat
  BY ConstantsAssumption
<1>2. exp[k] # None => /\ exp[k] \in Nat
                       /\ exp[k] <= highWater + MaxValidity + 2 * Skew
  BY DEF ReservationsEnd, Held, Reservations
<1>3. Now \in Nat /\ highWater <= Now
  BY NowIs
<1>4. CASE exp'[k] = exp[k] /\ (highWater' = highWater \/ highWater' = Now)
  BY <1>1, <1>2, <1>3, <1>4
<1>5. ASSUME NEW n \in Manifests
      PROVE  Collected(n, Now)[k] \in {None, exp[k]}
  BY DEF Collected, Swept
<1>6. ASSUME NEW n \in Manifests, Check(n)
      PROVE  exp'[k] = exp[k] /\ highWater' = Now
  BY <1>5, <1>6 DEF Check, cacheVars
<1>7. CASE Admit
  <2>1. opening.m \in Manifests /\ highWater' = Now
    BY <1>7 DEF Admit
  <2> DEFINE n == opening.m
  <2>2. CASE exp' = exp \/ exp' = Collected(n, Now)
    BY <1>4, <1>5, <2>1, <2>2
  <2>3. CASE /\ exp' = [Collected(n, Now) EXCEPT ![n.key] = Ends(n)]
             /\ InWindow(n, Now)
    <3>1. Collected(n, Now) \in Reservations
      BY <1>3, <2>1, CollectedAccounted
    <3>2. CASE k = n.key
      <4>1. exp'[k] = n.exp + Skew
        BY <2>3, <3>1, <3>2 DEF Ends, Reservations
      <4>2. n.exp \in Nat /\ n.iss \in Nat
        BY <2>1, ConstantsAssumption
      <4> QED
        BY <1>1, <1>3, <2>1, <2>3, <4>1, <4>2 DEF InWindow
    <3>3. CASE k # n.key
      <4>1. exp'[k] = Collected(n, Now)[k]
        BY <2>3, <3>1, <3>3 DEF Reservations
      <4> QED
        BY <1>4, <1>5, <2>1, <4>1
    <3> QED
      BY <3>2, <3>3
  <2> QED
    BY <1>7, <2>2, <2>3 DEF Admit, cacheVars
<1>8. CASE Inspect
  BY <1>4, <1>8 DEF Inspect, Swept
<1>9. CASE Start
  BY <1>9 DEF Start, Rehydratable, Rehydrated, Believable
<1>10. CASE Stop
  BY <1>10 DEF Stop, NoReservation
<1>11. CASE BadBody \/ Deliver \/ Tick \/ SetBack \/ Edit \/ UNCHANGED vars
  BY <1>4, <1>11 DEF BadBody, Deliver, Tick, SetBack, Edit, vars, cacheVars
<1> QED
  BY <1>4, <1>6, <1>7, <1>8, <1>9, <1>10, <1>11 DEF Next

(* What is covered is refused.                                             *)
LEMMA CoveredRefused ==
  ASSUME TypeOK, NEW m \in Manifests, Covered(m)
  PROVE  ~InWindow(m, Now) \/ Duplicate(m, Now)
<1>1. m.key \in Keys /\ m.exp \in Nat /\ Ends(m) = m.exp + Skew /\ Skew \in Nat
  BY ConstantsAssumption DEF Ends
<1>2. CASE Ends(m) < highWater
  BY <1>1, <1>2, NowIs DEF InWindow, TypeOK
<1>3. CASE exp[m.key] # None /\ Ends(m) <= exp[m.key]
  <2>1. exp[m.key] \in Nat
    BY <1>1, <1>3 DEF TypeOK, Reservations
  <2> QED
    BY <1>1, <1>3, <2>1, NowIs DEF InWindow, Duplicate
<1> QED
  BY <1>2, <1>3 DEF Covered

(* What a process has covered stays covered while it runs: a sweep drops   *)
(* only what has ended, a key is reserved again only when it has ended.    *)
LEMMA CoveredStays ==
  ASSUME TypeOK, Accounted, [Next]_vars, up, up', NEW m \in Manifests, Covered(m)
  PROVE  Covered(m)'
<1> USE DEF TypeOK
<1>1. m.key \in Keys /\ Ends(m) \in Nat /\ Ends(m)' = Ends(m)
  BY ConstantsAssumption DEF Ends
<1>2. exp[m.key] # None => exp[m.key] \in Nat
  BY <1>1 DEF Reservations
<1>3. Now \in Nat /\ highWater <= Now
  BY NowIs
<1>4. CASE exp' = exp /\ highWater' \in Nat /\ highWater <= highWater'
  BY <1>1, <1>4 DEF Covered
<1>5. ASSUME NEW e, e = exp \/ e = Swept(Now), highWater' = Now,
             exp'[m.key] = e[m.key]
      PROVE  Covered(m)'
  <2>1. e[m.key] = exp[m.key] \/ (exp[m.key] \in Nat /\ exp[m.key] < Now)
    BY <1>1, <1>2, <1>5 DEF Swept, Ended, Held
  <2> QED
    BY <1>1, <1>2, <1>3, <1>5, <2>1 DEF Covered
<1>6. ASSUME NEW n \in Manifests
      PROVE  Collected(n, Now) = exp \/ Collected(n, Now) = Swept(Now)
  BY DEF Collected
<1>7. ASSUME NEW n \in Manifests, Check(n) PROVE Covered(m)'
  BY <1>1, <1>5, <1>6, <1>7 DEF Check, cacheVars
<1>8. CASE Admit
  <2>1. opening.m \in Manifests
    BY <1>8 DEF Admit
  <2> DEFINE n == opening.m
  <2>2. highWater' = Now
    BY <1>8 DEF Admit
  <2>3. CASE exp' = exp \/ exp' = Collected(n, Now)
    BY <1>1, <1>5, <1>6, <2>1, <2>2, <2>3
  <2>4. CASE /\ exp' = [Collected(n, Now) EXCEPT ![n.key] = Ends(n)]
             /\ ~Duplicate(n, Now)
             /\ InWindow(n, Now)
    <3>1. CASE n.key = m.key
      <4>1. Covered(m)
        OBVIOUS
      <4>2. exp[m.key] # None => exp[m.key] < Now
        BY <1>1, <1>2, <1>3, <2>4, <3>1 DEF Duplicate
      <4> QED
        BY <1>1, <1>2, <1>3, <2>2, <4>1, <4>2 DEF Covered
    <3>2. CASE n.key # m.key
      <4>1. exp'[m.key] = Collected(n, Now)[m.key]
        BY <1>1, <2>1, <2>4, <3>2, CollectedAccounted, <1>3 DEF Reservations
      <4> QED
        BY <1>5, <1>6, <2>1, <2>2, <4>1
    <3> QED
      BY <3>1, <3>2
  <2> QED
    BY <1>8, <2>3, <2>4 DEF Admit, cacheVars
<1>9. CASE Inspect
  BY <1>1, <1>5, <1>9 DEF Inspect
<1>10. CASE BadBody \/ Deliver \/ Tick \/ SetBack \/ UNCHANGED vars
  BY <1>4, <1>10 DEF BadBody, Deliver, Tick, SetBack, vars, cacheVars
<1> QED
  BY <1>7, <1>8, <1>9, <1>10 DEF Next, Start, Stop, Edit

(* What is being delivered after a step was before, or has just been       *)
(* admitted: it is reserved to its end and was not covered before.         *)
LEMMA DeliveringNext ==
  ASSUME TypeOK, Accounted, [Next]_vars, NEW m \in Manifests, Delivering(m)'
  PROVE  /\ up => up'
         /\ \/ Delivering(m) /\ inRun' \subseteq inRun /\ delivered' = delivered
            \/ /\ Admit
               /\ inRun' = inRun /\ delivered' = delivered
               /\ opening # None
               /\ exp'[m.key] = Ends(m)
               /\ ~Covered(m)
               /\ Persist(exp')
<1> USE DEF TypeOK
<1>1. m.key \in Keys /\ Ends(m) \in Nat
  BY ConstantsAssumption DEF Ends
<1>2. opening' # None /\ opening' = [stage |-> "admitted", m |-> m]
  BY DEF Delivering
<1>3. ASSUME NEW n \in Manifests, Check(n) PROVE FALSE
  BY <1>2, <1>3 DEF Check, Refuse
<1>4. CASE Admit
  <2>1. opening.m = m /\ exp' = [Collected(m, Now) EXCEPT ![m.key] = Ends(m)]
    BY <1>2, <1>4 DEF Admit, Refuse
  <2>2. InWindow(m, Now) /\ ~Duplicate(m, Now) /\ Persist(exp')
    BY <1>2, <1>4, <2>1 DEF Admit, Refuse
  <2>3. exp'[m.key] = Ends(m)
    BY <1>1, <2>1, NowIs, CollectedAccounted DEF Reservations
  <2> QED
    BY <1>4, <2>2, <2>3, CoveredRefused DEF Admit
<1>5. CASE BadBody \/ Deliver \/ Stop
  BY <1>2, <1>5 DEF BadBody, Deliver, Stop
<1>6. CASE Start
  BY <1>2, <1>6 DEF Start, Delivering
<1>7. CASE Inspect \/ Tick \/ SetBack \/ Edit \/ UNCHANGED vars
  BY <1>2, <1>7 DEF Inspect, Tick, SetBack, Edit, vars, Delivering
<1> QED
  BY <1>3, <1>4, <1>5, <1>6, <1>7 DEF Next

(* Every step preserves the invariant of one process.                      *)
LEMMA StepRun == RunInv /\ [Next]_vars => RunInv'
<1> SUFFICES ASSUME RunInv, [Next]_vars PROVE RunInv'
  OBVIOUS
<1> USE DEF RunInv
<1>1. TypeOK' /\ Accounted' /\ ReservationsEnd'
  BY StepAccounted, StepEnds
<1>2. DownIdle'
  BY DEF DownIdle, Next, Check, BadBody, Admit, Deliver, Inspect, Start, Stop,
         Tick, SetBack, Edit, vars
<1>3. ASSUME NEW m \in Manifests, m \in inRun' \/ Delivering(m)'
      PROVE  Covered(m)'
  <2>1. m.key \in Keys /\ Ends(m) \in Nat /\ Ends(m)' = Ends(m)
    BY ConstantsAssumption DEF Ends
  <2>2. up /\ up'
    BY <1>3 DEF DownIdle, Delivering, Next, Check, BadBody, Admit, Deliver,
                Inspect, Start, Stop, Tick, SetBack, Edit, vars, TypeOK
  <2>3. CASE m \in inRun \/ Delivering(m)
    BY <2>2, <2>3, CoveredStays DEF RunCovered
  <2>4. CASE m \notin inRun /\ ~Delivering(m)
    <3>1. CASE Delivering(m)'
      <4>1. exp'[m.key] = Ends(m)
        BY <2>4, <3>1, DeliveringNext
      <4> QED
        BY <2>1, <4>1, ConstantsAssumption DEF Covered
    <3>2. CASE m \in inRun'
      BY <2>4, <3>2 DEF Next, Check, BadBody, Admit, Deliver, Delivering,
                        Inspect, Start, Stop, Tick, SetBack, Edit, vars, TypeOK,
                        Stages
    <3> QED
      BY <1>3, <3>1, <3>2
  <2> QED
    BY <2>3, <2>4
<1>4. ASSUME NEW m \in Manifests, Delivering(m)' PROVE m \notin inRun'
  BY <1>4, DeliveringNext DEF AtMostOncePerRun, RunCovered
<1> QED
  BY <1>1, <1>2, <1>3, <1>4 DEF RunCovered, AtMostOncePerRun

LEMMA RunInvariance == Spec => []RunInv
<1>1. Init => RunInv
  BY InitAccounted
  DEF Init, RunInv, DownIdle, RunCovered, AtMostOncePerRun, Delivering,
      ReservationsEnd, Held, NoReservation
<1> QED
  BY <1>1, StepRun, PTL DEF Spec

(* The guard's variables keep their types.                                 *)
THEOREM TypeCorrect == Spec => []TypeOK
<1>1. RunInv => TypeOK
  BY DEF RunInv
<1> QED
  BY <1>1, RunInvariance, PTL

(* The counts are right and the ceilings hold, under any clock, restart,   *)
(* failed write and edit of the sidecar.                                   *)
THEOREM CeilingsHold == Spec => []Accounted
<1>1. RunInv => Accounted
  BY DEF RunInv
<1> QED
  BY <1>1, RunInvariance, PTL

(* No reservation outlives what a message could have asked for.            *)
THEOREM NothingIsReservedForever == Spec => []ReservationsEnd
<1>1. RunInv => ReservationsEnd
  BY DEF RunInv
<1> QED
  BY <1>1, RunInvariance, PTL

(* A message is refused for want of room only because of live              *)
(* reservations: assess() sweeps before it refuses, and counts right.      *)
THEOREM LiveOnesRefuse == Spec => []RefusedForLiveOnes
<1>1. ASSUME RunInv PROVE RefusedForLiveOnes
  <2> DEFINE live == Held(exp) \ Ended(Now)
  <2> SUFFICES ASSUME NEW m \in Manifests, exp[m.key] = None, ~HasRoom(m, Now)
               PROVE  \/ Cardinality(live) >= MaxEntries
                      \/ Cardinality(Of(m.key[1], live)) >= MaxPerOrigin
    BY DEF RefusedForLiveOnes
  <2>1. TypeOK /\ Accounted /\ Now \in Nat
    BY <1>1, NowIs DEF RunInv
  <2>2. m.key[1] \in Origins
    BY ConstantsAssumption DEF Keys
  <2>3. Full(Swept(Now), SweptCounts(Now), m.key[1])
    BY DEF HasRoom, Collected, CollectedCounts, Collects
  <2>4. Held(Swept(Now)) = live
        /\ SweptCounts(Now)[m.key[1]] = Cardinality(Of(m.key[1], live))
    BY <2>1, <2>2, SweptAccounted DEF Acc
  <2> QED
    BY <2>3, <2>4 DEF Full
<1> QED
  BY <1>1, RunInvariance, PTL

(* A process never delivers an envelope twice, whatever its clock does.    *)
THEOREM OncePerRun == Spec => []AtMostOncePerRun
<1>1. RunInv => AtMostOncePerRun
  BY DEF RunInv
<1> QED
  BY <1>1, RunInvariance, PTL

-----------------------------------------------------------------------------
(* Across restarts, as long as the clock was not set back and the sidecar  *)
(* could be written.                                                       *)

(* The sidecar would make the next process refuse m.                       *)
Written(m) ==
  \/ Ends(m) < clock
  \/ sidecar[m.key] # None /\ Ends(m) <= sidecar[m.key]

(* Nothing in the sidecar is beyond what a start believes.                 *)
SidecarSound ==
  /\ Fits(Held(sidecar))
  /\ \A k \in Held(sidecar) : sidecar[k] <= clock + MaxValidity + 2 * Skew

EverCovered ==
  \A m \in Manifests :
    m \in delivered \/ Delivering(m) => Written(m) /\ (up => Covered(m))

(* What has ever been delivered is covered in memory and on disk, and a    *)
(* start believes all of the disk.                                         *)
EverSound ==
  /\ highWater <= clock
  /\ SidecarSound
  /\ EverCovered
  /\ AtMostOnceEver

EverInv ==
  /\ TypeOK /\ Accounted /\ ReservationsEnd /\ DownIdle
  /\ faithful => EverSound

(* A start takes over every reservation of a sound sidecar that has not    *)
(* ended.                                                                  *)
LEMMA StartTakesAll ==
  ASSUME TypeOK, SidecarSound, Start, NEW k \in Keys,
         sidecar[k] # None, clock <= sidecar[k]
  PROVE  exp'[k] = sidecar[k]
<1> DEFINE B == {j \in Keys : Believable(j, clock)}
<1>1. PICK R \in Rehydratable(clock) : exp' = Rehydrated(R)
  BY DEF Start
<1>2. k \in B
  BY DEF SidecarSound, Held, Believable
<1>3. B \in SUBSET Held(sidecar) /\ Held(sidecar) \in SUBSET Keys
  BY DEF Held, Believable
<1>4. R \in SUBSET B /\ \A j \in B \ R : ~Fits(R \cup {j})
  BY <1>1 DEF Rehydratable
<1>5. k \in R
  <2>1. SUFFICES ASSUME k \notin R PROVE FALSE
    OBVIOUS
  <2>2. R \cup {k} \in SUBSET Held(sidecar)
    BY <1>2, <1>3, <1>4
  <2>3. Fits(R \cup {k})
    BY <1>3, <2>2, FitsLess DEF SidecarSound
  <2> QED
    BY <1>2, <1>4, <2>1, <2>3
<1> QED
  BY <1>1, <1>5 DEF Rehydrated

(* A snapshot of the cache covers what the cache covers, and is sound.     *)
LEMMA PersistCovers ==
  ASSUME TypeOK', faithful', Accounted', ReservationsEnd', Persist(exp'),
         highWater' = clock'
  PROVE  /\ SidecarSound'
         /\ \A m \in Manifests : Covered(m)' => Written(m)'
<1>1. sidecar' = [k \in Keys |-> IF exp'[k] # None /\ exp'[k] >= highWater'
                                 THEN exp'[k] ELSE None]
  BY DEF Persist
<1>2. Held(sidecar') \in SUBSET Held(exp') /\ Held(exp') \in SUBSET Keys
  BY <1>1 DEF Held
<1>3. Fits(Held(sidecar'))
  BY <1>2, FitsLess DEF Accounted
<1>4. ASSUME NEW k \in Held(sidecar')
      PROVE  sidecar'[k] <= clock' + MaxValidity + 2 * Skew
  BY <1>1, <1>2 DEF Held, ReservationsEnd
<1>5. ASSUME NEW m \in Manifests, Covered(m)' PROVE Written(m)'
  <2>1. m.key \in Keys /\ Ends(m) \in Nat /\ Ends(m)' = Ends(m)
    BY ConstantsAssumption DEF Ends
  <2>2. exp'[m.key] # None => exp'[m.key] \in Nat
    BY <2>1 DEF TypeOK, Reservations
  <2>3. clock' \in Nat
    BY DEF TypeOK
  <2> QED
    BY <1>1, <1>5, <2>1, <2>2, <2>3 DEF Covered, Written
<1> QED
  BY <1>3, <1>4, <1>5 DEF SidecarSound

(* Every step preserves the invariant across restarts.                     *)
LEMMA StepEver == EverInv /\ [Next]_vars => EverInv'
<1> SUFFICES ASSUME EverInv, [Next]_vars PROVE EverInv'
  OBVIOUS
<1>1. TypeOK' /\ Accounted' /\ ReservationsEnd'
  BY StepAccounted, StepEnds DEF EverInv
<1>2. DownIdle'
  BY DEF EverInv, DownIdle, Next, Check, BadBody, Admit, Deliver, Inspect,
         Start, Stop, Tick, SetBack, Edit, vars
<1> SUFFICES ASSUME faithful' PROVE EverSound'
  BY <1>1, <1>2 DEF EverInv
<1>0. faithful /\ ~SetBack /\ ~Edit
  BY DEF Next, Check, BadBody, Admit, Refuse, Persist, Deliver, Inspect, Start,
         Stop, Tick, SetBack, Edit, vars
<1> USE <1>0 DEF EverInv, EverSound
<1>3. clock <= clock' /\ highWater' <= clock' /\ Now = clock
  BY DEF Next, Check, BadBody, Admit, Deliver, Inspect, Start, Stop, Tick,
         SetBack, Edit, vars, Now, TypeOK
<1>4. \/ sidecar' = sidecar
      \/ Admit /\ Persist(exp') /\ highWater' = clock'
  BY <1>3 DEF Next, Check, BadBody, Admit, Refuse, Deliver, Inspect, Start,
              Stop, Tick, SetBack, Edit, vars
<1>5. SidecarSound'
  <2>1. CASE sidecar' = sidecar
    <3>1. ASSUME NEW k \in Held(sidecar)
          PROVE  sidecar[k] <= clock' + MaxValidity + 2 * Skew
      <4>1. sidecar[k] \in Nat /\ sidecar[k] <= clock + MaxValidity + 2 * Skew
        BY DEF SidecarSound, Held, TypeOK, Reservations
      <4> QED
        BY <1>1, <1>3, <4>1, ConstantsAssumption DEF TypeOK
    <3> QED
      BY <2>1, <3>1 DEF SidecarSound
  <2>2. CASE Admit /\ Persist(exp') /\ highWater' = clock'
    BY <1>1, <2>2, PersistCovers
  <2> QED
    BY <1>4, <2>1, <2>2
<1>6. ASSUME NEW m \in Manifests, m \in delivered \/ Delivering(m)
      PROVE  Written(m)' /\ (up' => Covered(m)')
  <2>1. m.key \in Keys /\ Ends(m) \in Nat /\ Ends(m)' = Ends(m)
    BY ConstantsAssumption DEF Ends
  <2>2. Written(m) /\ (up => Covered(m))
    BY <1>6 DEF EverCovered
  <2>3. up /\ up' => Covered(m)'
    BY <2>2, CoveredStays
  <2>4. ASSUME ~up, up' PROVE Covered(m)'
    <3>1. Start
      BY <2>4 DEF Next, Check, BadBody, Admit, Deliver, Inspect, Stop, Tick,
                  SetBack, Edit, vars, DownIdle
    <3>2. highWater' = clock /\ clock \in Nat
      BY <3>1 DEF Start, TypeOK
    <3>3. CASE Ends(m) < clock
      BY <2>1, <3>2, <3>3 DEF Covered
    <3>4. CASE sidecar[m.key] # None /\ Ends(m) <= sidecar[m.key]
      <4>1. sidecar[m.key] \in Nat
        BY <2>1, <3>4 DEF TypeOK, Reservations
      <4>2. CASE clock <= sidecar[m.key]
        <5>1. exp'[m.key] = sidecar[m.key]
          BY <2>1, <3>1, <3>4, <4>2, StartTakesAll
        <5> QED
          BY <2>1, <3>4, <5>1 DEF Covered
      <4>3. CASE ~(clock <= sidecar[m.key])
        BY <2>1, <3>2, <3>4, <4>1, <4>3 DEF Covered
      <4> QED
        BY <4>2, <4>3
    <3> QED
      BY <2>2, <3>3, <3>4 DEF Written
  <2>5. Written(m)'
    <3>1. CASE sidecar' = sidecar
      BY <1>1, <1>3, <2>1, <2>2, <3>1 DEF Written, TypeOK
    <3>2. CASE Admit /\ Persist(exp') /\ highWater' = clock'
      <4>1. up /\ up'
        BY <3>2 DEF Admit, DownIdle, TypeOK
      <4> QED
        BY <1>1, <2>3, <3>2, <4>1, PersistCovers
    <3> QED
      BY <1>4, <3>1, <3>2
  <2> QED
    BY <1>1, <2>3, <2>4, <2>5 DEF TypeOK
<1>7. ASSUME NEW m \in Manifests, Admit, Persist(exp'), exp'[m.key] = Ends(m)
      PROVE  Written(m)' /\ Covered(m)'
  <2>1. m.key \in Keys /\ Ends(m) \in Nat /\ Ends(m)' = Ends(m)
    BY ConstantsAssumption DEF Ends
  <2>2. Covered(m)'
    BY <1>7, <2>1, ConstantsAssumption DEF Covered
  <2>3. highWater' = clock'
    BY <1>3, <1>7 DEF Admit
  <2> QED
    BY <1>1, <1>7, <2>2, <2>3, PersistCovers
<1>8. EverCovered'
  <2> SUFFICES ASSUME NEW m \in Manifests, m \in delivered' \/ Delivering(m)'
               PROVE  Written(m)' /\ (up' => Covered(m)')
    BY DEF EverCovered
  <2>1. CASE Delivering(m)'
    BY <1>6, <1>7, <2>1, DeliveringNext
  <2>2. CASE m \in delivered'
    <3>1. m \in delivered \/ Delivering(m)
      BY <2>2 DEF Next, Check, BadBody, Admit, Deliver, Delivering, Inspect,
                  Start, Stop, Tick, SetBack, Edit, vars, TypeOK, Stages
    <3> QED
      BY <1>6, <3>1
  <2> QED
    BY <2>1, <2>2
<1>9. AtMostOnceEver'
  <2> SUFFICES ASSUME NEW m \in Manifests, Delivering(m)'
               PROVE  m \notin delivered'
    BY DEF AtMostOnceEver
  <2>1. CASE Delivering(m) /\ delivered' = delivered
    BY <2>1 DEF AtMostOnceEver
  <2>2. CASE delivered' = delivered /\ opening # None /\ ~Covered(m)
    BY <2>2 DEF DownIdle, EverCovered, TypeOK
  <2> QED
    BY <2>1, <2>2, DeliveringNext
<1> QED
  BY <1>1, <1>2, <1>3, <1>5, <1>8, <1>9

LEMMA EverInvariance == Spec => []EverInv
<1>1. Init => EverInv
  <2> SUFFICES ASSUME Init PROVE EverInv
    OBVIOUS
  <2>1. Held(sidecar) = {} /\ Held(exp) = {}
    BY DEF Init, Held, NoReservation
  <2>2. TypeOK /\ Accounted
    BY InitAccounted
  <2>3. SidecarSound
    BY <2>1, <2>2 DEF SidecarSound, Accounted
  <2> QED
    BY <2>1, <2>2, <2>3 DEF EverInv, EverSound, Init, DownIdle, ReservationsEnd,
       EverCovered, AtMostOnceEver, Delivering
<1>2. EverInv /\ [Next]_vars => EverInv'
  BY StepEver
<1> QED
  BY <1>1, <1>2, PTL DEF Spec

(* As long as the clock was not set back and the sidecar could be written, *)
(* no envelope is delivered twice, by one process or by many.              *)
THEOREM OnceAcrossRestarts == Spec => []AtMostOnce
<1>1. EverInv => AtMostOnceEver
  BY DEF EverInv, EverSound, AtMostOnceEver
<1> QED
  BY <1>1, EverInvariance, OncePerRun, PTL DEF AtMostOnce

(* And no start leaves out a reservation that has not ended.               *)
THEOREM RestartsKeepReservations == Spec => StartKeepsReservations
<1>1. EverInv => [Start /\ faithful => \A k \in Keys :
                   sidecar[k] # None /\ clock <= sidecar[k]
                     => exp'[k] = sidecar[k]]_vars
  BY StartTakesAll DEF EverInv, EverSound
<1> QED
  BY <1>1, EverInvariance, PTL DEF StartKeepsReservations

=============================================================================
