----------------------------- MODULE ChildrenProofs ----------------------------
(***************************************************************************)
(* What holds of the processes a node starts for others, for any number of *)
(* peers, services and launches, and any ceilings.                         *)
(*                                                                         *)
(* Of services (ServicePlugin): the ceilings themselves, and that no       *)
(* process whose shell runs is outside the table.                          *)
(*                                                                         *)
(* Of launches (Composer): no T3 is left that neither can be stopped nor   *)
(* has been told to end, and no temporary home that could be removed.      *)
(***************************************************************************)
EXTENDS ServicePlugin, Composer, FiniteSetTheorems, TLAPS

-----------------------------------------------------------------------------
(* Services. *)

-----------------------------------------------------------------------------
(* A step changes one slot, or replaces the table by the reaped one, with  *)
(* at most one reservation in it.                                          *)

(* What happens to a service leaves a slot a slot.                         *)
LEMMA SlotTypes ==
  ASSUME NEW s \in Slot
  PROVE  /\ Killed(s) \in Slot
         /\ Dropped(s) \in Slot
         /\ Refused(s) \in Slot
         /\ Spawned(s) \in Slot
<1>1. Killed(s) \in Slot
  <2> DEFINE k == IF s.shell = "up" THEN "ended" ELSE s.shell
  <2>1. k \in {"none", "up", "ended", "gone"}
    BY DEF Slot
  <2>2. Killed(s) = IF s.shell = "none" THEN s ELSE [s EXCEPT !.group = FALSE, !.shell = k]
    BY DEF Killed
  <2> HIDE DEF k
  <2>3. [s EXCEPT !.group = FALSE, !.shell = k] \in Slot
    BY <2>1 DEF Slot
  <2> QED
    BY <2>2, <2>3
<1>2. Dropped(s) \in Slot
  BY DEF Slot, Dropped
<1>3. Refused(s) \in Slot
  BY DEF Slot, Dropped, Refused
<1>4. Spawned(s) \in Slot
  BY DEF Slot, Spawned
<1> QED
  BY <1>1, <1>2, <1>3, <1>4

(* So is a reservation, and an id with nothing under it.                   *)
LEMMA ReservedType ==
  ASSUME NEW p \in Peers, NEW r \in {"allocating", "announcing"}
  PROVE  Reserved(p, r) \in Slot
BY DEF Slot, Reserved

LEMMA BlankType == Blank \in Slot
<1>1. (CHOOSE p \in Peers : TRUE) \in Peers
  BY ServiceAssumption
<1> QED BY <1>1 DEF Blank, Slot

(* The reaped table is a table.                                            *)
LEMMA ReapedType ==
  ASSUME slots \in [Slots -> Slot]
  PROVE  Reaped \in [Slots -> Slot]
BY SlotTypes DEF Reaped

(* Every step keeps the types.                                             *)
LEMMA StepType == TypeOK /\ [Next]_vars => TypeOK'
<1> SUFFICES ASSUME TypeOK, [Next]_vars PROVE TypeOK'
  OBVIOUS
<1> USE DEF TypeOK
<1>0. slots \in [Slots -> Slot] /\ Reaped \in [Slots -> Slot]
  BY ReapedType
<1>1. ASSUME NEW p \in Peers, StartRefused(p) PROVE TypeOK'
  BY <1>0, <1>1 DEF StartRefused
<1>2. ASSUME NEW p \in Peers, NEW i \in Slots, StartClaim(p, i) PROVE TypeOK'
  BY <1>0, <1>2, ReservedType DEF StartClaim
<1>3. ASSUME NEW p \in Peers, NEW i \in Slots, StartReport(p, i) PROVE TypeOK'
  <2>1. Reserved(p, "announcing") \in Slot
    BY ReservedType
  <2>2. Spawned(Reserved(p, "announcing")) \in Slot
        /\ Blank \in Slot
    BY <2>1, SlotTypes, BlankType
  <2> QED BY <1>0, <1>3, <2>2 DEF StartReport
<1>4. ASSUME NEW i \in Slots, NEW s \in Slot, Put(i, s) PROVE TypeOK'
  BY <1>0, <1>4, BlankType DEF Put
<1>5. ASSUME NEW p \in Peers, NEW i \in Slots, Stop(p, i) \/ Status(p, i)
      PROVE TypeOK'
  <2>1. Dropped(Killed(slots[i])) \in Slot
    BY <1>0, SlotTypes
  <2>2. [slots[i] EXCEPT !.age = "fresh"] \in Slot
    BY <1>0 DEF Slot
  <2> QED BY <1>4, <1>5, <2>1, <2>2 DEF Stop, Status
<1>6. ASSUME NEW i \in Slots, Allocated(i) PROVE TypeOK'
  <2>1. [Spawned(slots[i]) EXCEPT !.wired = TRUE, !.req = "started"] \in Slot
    BY <1>0 DEF Slot, Spawned
  <2> QED BY <1>0, <1>4, <1>6, <2>1, SlotTypes DEF Allocated
<1>7. ASSUME NEW i \in Slots, NoPort(i) \/ Silent(i) PROVE TypeOK'
  <2>1. Refused(slots[i]) \in Slot /\ Refused(Killed(slots[i])) \in Slot
    BY <1>0, SlotTypes
  <2> QED BY <1>4, <1>7, <2>1 DEF NoPort, Silent
<1>8. ASSUME NEW i \in Slots, Announced(i) PROVE TypeOK'
  <2>1. [slots[i] EXCEPT !.wired = TRUE, !.req = "started"] \in Slot
    BY <1>0 DEF Slot
  <2> QED BY <1>4, <1>8, <2>1 DEF Announced
<1>9. ASSUME NEW i \in Slots, ProcessesEnd(i) \/ ShellEnds(i) PROVE TypeOK'
  <2>1. Killed(slots[i]) \in Slot /\ [slots[i] EXCEPT !.shell = "ended"] \in Slot
    BY <1>0, SlotTypes DEF Slot
  <2> QED BY <1>4, <1>9, <2>1 DEF ProcessesEnd, ShellEnds
<1>10. ASSUME NEW i \in Slots, ExitEvent(i) PROVE TypeOK'
  <2> DEFINE s == [slots[i] EXCEPT !.shell = "gone"]
  <2>1. s \in Slot
    BY <1>0 DEF Slot
  <2>2. Refused(Killed(s)) \in Slot /\ Dropped(s) \in Slot
    BY <2>1, SlotTypes
  <2> QED BY <1>4, <1>10, <2>1, <2>2 DEF ExitEvent
<1>11. ASSUME NEW i \in Slots, Idle(i) \/ Old(i) PROVE TypeOK'
  <2>1. [slots[i] EXCEPT !.age = "idle"] \in Slot
        /\ [slots[i] EXCEPT !.age = "old"] \in Slot
    BY <1>0 DEF Slot
  <2> QED BY <1>4, <1>11, <2>1 DEF Idle, Old
<1>12. ASSUME Sweep PROVE TypeOK'
  BY <1>0, <1>12 DEF Sweep
<1>13. ASSUME Discard PROVE TypeOK'
  <2>1. \A i \in Slots : Dropped(Killed(slots[i])) \in Slot
    BY <1>0, SlotTypes
  <2> QED BY <1>0, <1>13, <2>1 DEF Discard
<1>14. ASSUME UNCHANGED vars PROVE TypeOK'
  BY <1>14 DEF vars
<1> QED
  BY <1>1, <1>2, <1>3, <1>5, <1>6, <1>7, <1>8, <1>9, <1>10, <1>11, <1>12,
     <1>13, <1>14 DEF Next

LEMMA InitType == Init => TypeOK
  BY BlankType DEF Init, TypeOK

(* The table and every service in it keep their types.                     *)
THEOREM TypeCorrect == Spec => []TypeOK
  BY InitType, StepType, PTL DEF Spec

-----------------------------------------------------------------------------
(* The ceilings. *)

Within(t) ==
  /\ Cardinality(Running(t)) <= MaxServices
  /\ \A p \in Peers : Cardinality(Mine(t, p)) <= MaxPerPeer

(* The tables counted are finite.                                          *)
LEMMA TablesFinite ==
  ASSUME NEW t, NEW p
  PROVE  /\ IsFiniteSet(Running(t)) /\ Cardinality(Running(t)) \in Nat
         /\ IsFiniteSet(Mine(t, p)) /\ Cardinality(Mine(t, p)) \in Nat
<1>1. Running(t) \subseteq Slots /\ Mine(t, p) \subseteq Slots
  BY DEF Running, Mine
<1> QED BY <1>1, ServiceAssumption, FS_Subset, FS_CardinalityType

(* A table that holds no more than another is within the ceilings with it.   *)
LEMMA FewerWithin ==
  ASSUME NEW t, NEW u, Within(t),
         \A i \in Slots : u[i].held => t[i].held /\ u[i].peer = t[i].peer
  PROVE  Within(u)
<1>1. Running(u) \subseteq Running(t)
  BY DEF Running
<1>2. ASSUME NEW p \in Peers PROVE Mine(u, p) \subseteq Mine(t, p)
  BY DEF Mine, Running
<1>3. Cardinality(Running(u)) <= Cardinality(Running(t))
  BY <1>1, TablesFinite, FS_Subset
<1>4. ASSUME NEW p \in Peers
      PROVE  Cardinality(Mine(u, p)) <= Cardinality(Mine(t, p))
  BY <1>2, TablesFinite, FS_Subset
<1>5. Cardinality(Running(u)) \in Nat /\ Cardinality(Running(t)) \in Nat
  BY TablesFinite
<1>6. ASSUME NEW p \in Peers PROVE Cardinality(Mine(u, p)) <= MaxPerPeer
  <2>1. Cardinality(Mine(u, p)) \in Nat /\ Cardinality(Mine(t, p)) \in Nat
    BY TablesFinite
  <2> QED BY <1>4, <2>1, ServiceAssumption DEF Within
<1> QED BY <1>3, <1>5, <1>6, ServiceAssumption DEF Within

(* A reservation in a table that is not full keeps it within the ceilings.   *)
LEMMA ReservationWithin ==
  ASSUME NEW t \in [Slots -> Slot], NEW u \in [Slots -> Slot], NEW p \in Peers,
         NEW i \in Slots, Within(t), ~Full(t, p), ~t[i].held,
         \A j \in Slots \ {i} : u[j] = t[j],
         u[i].peer = p
  PROVE  Within(u)
<1>1. Running(u) \subseteq Running(t) \cup {i}
  BY DEF Running
<1>2. Mine(u, p) \subseteq Mine(t, p) \cup {i}
  BY DEF Mine, Running
<1>3. ASSUME NEW q \in Peers, q # p PROVE Mine(u, q) \subseteq Mine(t, q)
  BY <1>3 DEF Mine, Running
<1>4. i \notin Running(t) /\ i \notin Mine(t, p)
  BY DEF Running, Mine
<1>5. /\ Cardinality(Running(t) \cup {i}) = Cardinality(Running(t)) + 1
      /\ IsFiniteSet(Running(t) \cup {i})
  BY <1>4, TablesFinite, FS_AddElement
<1>6. /\ Cardinality(Mine(t, p) \cup {i}) = Cardinality(Mine(t, p)) + 1
      /\ IsFiniteSet(Mine(t, p) \cup {i})
  BY <1>4, TablesFinite, FS_AddElement
<1>7. Cardinality(Running(u)) <= Cardinality(Running(t)) + 1
  BY <1>1, <1>5, FS_Subset
<1>8. Cardinality(Mine(u, p)) <= Cardinality(Mine(t, p)) + 1
  BY <1>2, <1>6, FS_Subset
<1>9. Cardinality(Running(t)) < MaxServices /\ Cardinality(Mine(t, p)) < MaxPerPeer
  BY TablesFinite, ServiceAssumption DEF Full
<1>10. /\ Cardinality(Running(u)) \in Nat /\ Cardinality(Running(t)) \in Nat
       /\ Cardinality(Mine(u, p)) \in Nat /\ Cardinality(Mine(t, p)) \in Nat
  BY TablesFinite
<1>11. Cardinality(Running(u)) <= MaxServices /\ Cardinality(Mine(u, p)) <= MaxPerPeer
  BY <1>7, <1>8, <1>9, <1>10, ServiceAssumption
<1>12. ASSUME NEW q \in Peers, q # p PROVE Cardinality(Mine(u, q)) <= MaxPerPeer
  <2>1. Cardinality(Mine(u, q)) <= Cardinality(Mine(t, q))
    BY <1>3, <1>12, TablesFinite, FS_Subset
  <2>2. Cardinality(Mine(u, q)) \in Nat /\ Cardinality(Mine(t, q)) \in Nat
    BY TablesFinite
  <2> QED BY <2>1, <2>2, ServiceAssumption DEF Within
<1> QED BY <1>11, <1>12 DEF Within

-----------------------------------------------------------------------------
(* What a slot is like as long as it is not stranded: a start that waits   *)
(* for its port has spawned nothing and is never reaped, so its place is   *)
(* still reserved when it resumes, unless the plugin was discarded.        *)
Sound(s, gone) ==
  /\ s.req = "none" => ~s.held
  /\ s.req = "allocating" =>
       /\ s.shell = "none"
       /\ ~s.group
       /\ ~s.reports
       /\ s.age = "fresh"
       /\ s.held \/ gone
  /\ s.group /\ s.shell = "up" /\ (gone => s.reports) => s.held

AllSound == \A i \in Slots : Sound(slots[i], discarded)

IInv == TypeOK /\ CapsHold /\ AllSound

(* The end of a service leaves a sound slot, whenever it comes.            *)
LEMMA EndsSound ==
  ASSUME NEW s \in Slot, NEW d \in BOOLEAN, NEW e \in BOOLEAN, Sound(s, d),
         d => e
  PROVE  /\ s.req # "allocating" \/ e => Sound(Dropped(Killed(s)), e)
         /\ Sound(Refused(Killed(s)), e)
         /\ Sound(s, e)
  BY DEF Slot, Sound, Killed, Dropped, Refused

LEMMA BlankSound == \A d \in BOOLEAN : Sound(Blank, d) /\ ~Blank.held
  BY DEF Sound, Blank

(* Reaping keeps slots sound, and holds no more than before.               *)
LEMMA ReapedSound ==
  ASSUME IInv
  PROVE  /\ \A i \in Slots : Sound(Reaped[i], discarded)
         /\ Within(Reaped)
         /\ \A i \in Slots : slots[i].req = "none" => ~Reaped[i].held
<1>1. ASSUME NEW i \in Slots
      PROVE  /\ Sound(Reaped[i], discarded)
             /\ Reaped[i].held =>
                  slots[i].held /\ Reaped[i].peer = slots[i].peer
             /\ slots[i].req = "none" => ~Reaped[i].held
  <2>1. slots[i] \in Slot /\ Sound(slots[i], discarded) /\ discarded \in BOOLEAN
    BY DEF IInv, TypeOK, AllSound
  <2>2. CASE Lapsed(slots[i])
    <3>1. Reaped[i] = Dropped(Killed(slots[i]))
      BY <2>2 DEF Reaped
    <3>2. slots[i].req # "allocating"
      BY <2>1, <2>2 DEF Lapsed, Sound
    <3>3. ~Dropped(Killed(slots[i])).held
      BY <2>1 DEF Dropped, Killed, Slot
    <3> QED BY <2>1, <3>1, <3>2, <3>3, EndsSound
  <2>3. CASE ~Lapsed(slots[i])
    BY <2>1, <2>3 DEF Reaped, Sound
  <2> QED BY <2>2, <2>3
<1>2. Within(slots)
  BY DEF IInv, CapsHold, Within
<1>3. Within(Reaped)
  BY <1>1, <1>2, FewerWithin
<1> QED BY <1>1, <1>3

(* Where one slot changes, soundly and without being taken anew.           *)
LEMMA PutKeeps ==
  ASSUME IInv, NEW i \in Slots, NEW s \in Slot, Put(i, s), Sound(s, discarded),
         s.held => slots[i].held /\ s.peer = slots[i].peer
  PROVE  CapsHold' /\ AllSound'
<1> DEFINE u == IF Over(s) THEN Blank ELSE s
<1>1. /\ slots' = [slots EXCEPT ![i] = u]
      /\ discarded' = discarded
      /\ slots \in [Slots -> Slot] /\ discarded \in BOOLEAN
  BY DEF Put, IInv, TypeOK
<1>2. Sound(u, discarded) /\ (u.held => slots[i].held /\ u.peer = slots[i].peer)
  BY <1>1, BlankSound
<1> HIDE DEF u
<1>3. AllSound'
  BY <1>1, <1>2 DEF AllSound, IInv
<1>4. Within(slots')
  <2>1. \A j \in Slots : slots'[j].held =>
          slots[j].held /\ slots'[j].peer = slots[j].peer
    BY <1>1, <1>2
  <2>2. Within(slots)
    BY DEF IInv, CapsHold, Within
  <2> QED BY <2>1, <2>2, FewerWithin
<1> QED
  BY <1>3, <1>4 DEF CapsHold, Within, Running, Mine

(* A step that stores the reaped table, with one reservation at most.      *)
LEMMA StoreKeeps ==
  ASSUME IInv, TypeOK', UNCHANGED discarded, NEW p \in Peers, NEW i \in Slots,
         NEW u \in Slot, Sound(u, discarded), u.held => u.peer = p,
         ~Full(Reaped, p), slots[i].req = "none",
         slots' = [Reaped EXCEPT ![i] = u]
  PROVE  CapsHold' /\ AllSound'
<1>1. /\ Reaped \in [Slots -> Slot] /\ slots' \in [Slots -> Slot]
      /\ Within(Reaped) /\ ~Reaped[i].held
      /\ \A j \in Slots : Sound(Reaped[j], discarded)
  BY ReapedType, ReapedSound DEF IInv, TypeOK
<1>2. slots'[i] = u /\ \A j \in Slots \ {i} : slots'[j] = Reaped[j]
  BY <1>1
<1>3. AllSound'
  BY <1>1, <1>2 DEF AllSound
<1>4. Within(slots')
  <2>1. CASE u.held
    BY <1>1, <1>2, <2>1, ReservationWithin
  <2>2. CASE ~u.held
    BY <1>1, <1>2, <2>2, FewerWithin
  <2> QED BY <2>1, <2>2
<1> QED BY <1>3, <1>4 DEF CapsHold, Within, Running, Mine

(* Every step keeps the ceilings and leaves every slot sound.              *)
LEMMA StepInv == IInv /\ [Next]_vars => IInv'
<1> SUFFICES ASSUME IInv, [Next]_vars PROVE CapsHold' /\ AllSound'
  BY StepType DEF IInv
<1>0. /\ slots \in [Slots -> Slot] /\ discarded \in BOOLEAN
      /\ \A i \in Slots : slots[i] \in Slot /\ Sound(slots[i], discarded)
      /\ TypeOK'
  BY StepType DEF IInv, TypeOK, AllSound
<1>1. ASSUME slots' = Reaped, UNCHANGED discarded PROVE CapsHold' /\ AllSound'
  BY <1>1, ReapedSound
  DEF CapsHold, AllSound, Within, Running, Mine
<1>2. ASSUME NEW p \in Peers, NEW i \in Slots, StartClaim(p, i)
      PROVE  CapsHold' /\ AllSound'
  <2>1. /\ Reserved(p, "allocating") \in Slot
        /\ Sound(Reserved(p, "allocating"), discarded)
        /\ Reserved(p, "allocating").peer = p
    BY ReservedType DEF Reserved, Sound
  <2> QED BY <1>0, <1>2, <2>1, StoreKeeps DEF StartClaim
<1>3. ASSUME NEW p \in Peers, NEW i \in Slots, StartReport(p, i)
      PROVE  CapsHold' /\ AllSound'
  <2> DEFINE r == Spawned(Reserved(p, "announcing"))
  <2>1. /\ r \in Slot /\ Sound(r, discarded) /\ r.peer = p
        /\ Blank \in Slot /\ Sound(Blank, discarded) /\ ~Blank.held
    <3>1. r \in Slot /\ Blank \in Slot
      BY ReservedType, SlotTypes, BlankType
    <3>2. Sound(r, discarded) /\ r.peer = p
      BY DEF Reserved, Spawned, Sound
    <3> QED BY <1>0, <3>1, <3>2, BlankSound
  <2>2. PICK u \in {r, Blank} : slots' = [Reaped EXCEPT ![i] = u]
    BY <1>3 DEF StartReport
  <2> HIDE DEF r
  <2>3. u \in Slot /\ Sound(u, discarded) /\ (u.held => u.peer = p)
    BY <2>1, <2>2
  <2> QED BY <1>0, <1>3, <2>2, <2>3, StoreKeeps DEF StartReport
<1>4. ASSUME NEW i \in Slots, Allocated(i) PROVE CapsHold' /\ AllSound'
  <2> DEFINE u == [Spawned(slots[i]) EXCEPT !.wired = TRUE, !.req = "started"]
  <2>1. /\ u \in Slot /\ Sound(u, discarded)
        /\ u.held => slots[i].held /\ u.peer = slots[i].peer
    BY <1>0, <1>4 DEF Allocated, Slot, Spawned, Sound
  <2>2. /\ Refused(slots[i]) \in Slot /\ Sound(Refused(slots[i]), discarded)
        /\ ~Refused(slots[i]).held
    BY <1>0, <1>4 DEF Allocated, Slot, Refused, Dropped, Sound
  <2> HIDE DEF u
  <2>3. Put(i, u) \/ Put(i, Refused(slots[i]))
    BY <1>4 DEF Allocated, u
  <2> QED BY <2>1, <2>2, <2>3, PutKeeps
<1>5. ASSUME NEW i \in Slots, NoPort(i) PROVE CapsHold' /\ AllSound'
  <2>1. /\ Refused(slots[i]) \in Slot /\ Sound(Refused(slots[i]), discarded)
        /\ ~Refused(slots[i]).held
    BY <1>0, <1>5 DEF NoPort, Slot, Refused, Dropped, Sound
  <2> QED BY <1>5, <2>1, PutKeeps DEF NoPort
<1>6. ASSUME NEW i \in Slots, Announced(i) PROVE CapsHold' /\ AllSound'
  <2> DEFINE u == [slots[i] EXCEPT !.wired = TRUE, !.req = "started"]
  <2>1. /\ u \in Slot /\ Sound(u, discarded)
        /\ u.held => slots[i].held /\ u.peer = slots[i].peer
    BY <1>0, <1>6 DEF Announced, Slot, Sound
  <2> QED BY <1>6, <2>1, PutKeeps DEF Announced
<1>7. ASSUME NEW i \in Slots, Silent(i) PROVE CapsHold' /\ AllSound'
  <2> DEFINE u == Refused(Killed(slots[i]))
  <2>1. u \in Slot /\ Sound(u, discarded) /\ ~u.held
    <3>1. u \in Slot /\ Sound(u, discarded)
      BY <1>0, SlotTypes, EndsSound
    <3>2. ~u.held
      BY <1>0 DEF Refused, Dropped, Killed, Slot
    <3> QED BY <3>1, <3>2
  <2> QED BY <1>7, <2>1, PutKeeps DEF Silent
<1>8. ASSUME NEW p \in Peers, NEW i \in Slots, Stop(p, i) \/ Status(p, i)
      PROVE  CapsHold' /\ AllSound'
  <2> DEFINE u == Dropped(Killed(slots[i]))
             v == [slots[i] EXCEPT !.age = "fresh"]
  <2>1. u \in Slot /\ Sound(u, discarded) /\ ~u.held
    <3>1. u \in Slot /\ Sound(u, discarded)
      BY <1>0, <1>8, SlotTypes, EndsSound DEF Stop, Status, Owns
    <3>2. ~u.held
      BY <1>0 DEF Dropped, Killed, Slot
    <3> QED BY <3>1, <3>2
  <2>2. /\ v \in Slot /\ Sound(v, discarded)
        /\ v.held => slots[i].held /\ v.peer = slots[i].peer
    BY <1>0 DEF Slot, Sound
  <2>3. Put(i, u) \/ Put(i, v)
    BY <1>8 DEF Stop, Status
  <2> HIDE DEF u, v
  <2> QED BY <2>1, <2>2, <2>3, PutKeeps
<1>9. ASSUME NEW i \in Slots, ProcessesEnd(i) \/ ShellEnds(i)
      PROVE  CapsHold' /\ AllSound'
  <2> DEFINE v == [slots[i] EXCEPT !.shell = "ended"]
  <2>1. /\ v \in Slot
        /\ ShellEnds(i) => Sound(v, discarded)
        /\ v.held => slots[i].held /\ v.peer = slots[i].peer
    BY <1>0 DEF Slot, Sound, ShellEnds
  <2>2. /\ Killed(slots[i]) \in Slot
        /\ ProcessesEnd(i) => Sound(Killed(slots[i]), discarded)
        /\ Killed(slots[i]).held => slots[i].held
        /\ Killed(slots[i]).peer = slots[i].peer
    BY <1>0 DEF Slot, Sound, ProcessesEnd, Killed
  <2>3. \/ ShellEnds(i) /\ Put(i, v)
        \/ ProcessesEnd(i) /\ Put(i, Killed(slots[i]))
    BY <1>9 DEF ProcessesEnd, ShellEnds
  <2> HIDE DEF v
  <2> QED BY <2>1, <2>2, <2>3, PutKeeps
<1>10. ASSUME NEW i \in Slots, ExitEvent(i) PROVE CapsHold' /\ AllSound'
  <2> DEFINE s == [slots[i] EXCEPT !.shell = "gone"]
             u == IF s.req = "announcing" THEN Refused(Killed(s))
                  ELSE IF s.wired THEN Dropped(s) ELSE s
  <2>1. /\ s \in Slot /\ Sound(s, discarded) /\ s.shell = "gone"
        /\ s.held => slots[i].held
        /\ s.peer = slots[i].peer
        /\ s.req # "allocating"
    BY <1>0, <1>10 DEF ExitEvent, Slot, Sound
  <2>2. Put(i, u)
    BY <1>10 DEF ExitEvent
  <2> HIDE DEF s
  <2>3. /\ u \in Slot
        /\ u.held => slots[i].held /\ u.peer = slots[i].peer
    <3>1. u \in Slot
      BY <2>1, SlotTypes
    <3> QED BY <2>1, <3>1 DEF Refused, Dropped, Killed, Slot
  <2>4. Sound(u, discarded)
    <3>1. Sound(Refused(Killed(s)), discarded)
      BY <1>0, <2>1, EndsSound
    <3>2. Sound(Dropped(s), discarded)
      BY <2>1 DEF Sound, Dropped, Slot
    <3> QED BY <2>1, <3>1, <3>2
  <2> QED BY <2>2, <2>3, <2>4, PutKeeps
<1>11. ASSUME NEW i \in Slots, Idle(i) \/ Old(i) PROVE CapsHold' /\ AllSound'
  <2> DEFINE u == [slots[i] EXCEPT !.age = "idle"]
             v == [slots[i] EXCEPT !.age = "old"]
  <2>1. /\ u \in Slot /\ Sound(u, discarded)
        /\ v \in Slot /\ Sound(v, discarded)
        /\ u.peer = slots[i].peer /\ v.peer = slots[i].peer
        /\ slots[i].held
    BY <1>0, <1>11 DEF Idle, Old, Slot, Sound
  <2>2. Put(i, u) \/ Put(i, v)
    BY <1>11 DEF Idle, Old
  <2> HIDE DEF u, v
  <2> QED BY <2>1, <2>2, PutKeeps
<1>12. ASSUME Discard PROVE CapsHold' /\ AllSound'
  <2>1. /\ discarded' = TRUE
        /\ slots' = [i \in Slots |-> IF slots[i].held
                                     THEN Dropped(Killed(slots[i]))
                                     ELSE slots[i]]
    BY <1>12 DEF Discard
  <2>2. ASSUME NEW i \in Slots PROVE Sound(slots'[i], TRUE) /\ ~slots'[i].held
    <3>1. Sound(Dropped(Killed(slots[i])), TRUE) /\ Sound(slots[i], TRUE)
      BY <1>0, EndsSound
    <3>2. ~Dropped(Killed(slots[i])).held
      BY <1>0 DEF Dropped, Killed, Slot
    <3> QED BY <1>0, <2>1, <3>1, <3>2
  <2>3. Within(slots) => Within(slots')
    BY <2>2, FewerWithin
  <2> QED BY <2>1, <2>2, <2>3
      DEF IInv, AllSound, CapsHold, Within, Running, Mine
<1>13. ASSUME UNCHANGED vars PROVE CapsHold' /\ AllSound'
  BY <1>13 DEF vars, IInv, CapsHold, AllSound, Running, Mine
<1> QED
  BY <1>1, <1>2, <1>3, <1>4, <1>5, <1>6, <1>7, <1>8, <1>9, <1>10, <1>11,
     <1>12, <1>13 DEF Next, StartRefused, Sweep

LEMMA Invariance == Spec => []IInv
<1>1. Init => IInv
  <2> SUFFICES ASSUME Init PROVE CapsHold /\ AllSound
    BY InitType DEF IInv
  <2>1. \A i \in Slots : Sound(slots[i], discarded) /\ ~slots[i].held
    BY BlankSound DEF Init
  <2>2. Running(slots) = {} /\ \A p \in Peers : Mine(slots, p) = {}
    BY <2>1 DEF Running, Mine
  <2>3. Cardinality({}) = 0 /\ 0 <= MaxServices /\ 0 <= MaxPerPeer
    BY FS_EmptySet, ServiceAssumption
  <2> QED BY <2>1, <2>2, <2>3 DEF CapsHold, AllSound
<1> QED BY <1>1, StepInv, PTL DEF Spec

(* However many starts wait for a port at once, neither the machine's      *)
(* ceiling nor a peer's is passed.                                         *)
THEOREM CapsAlwaysHold == Spec => []CapsHold
<1>1. IInv => CapsHold
  BY DEF IInv
<1> QED BY <1>1, Invariance, PTL

(* A service whose shell runs is in the table, or was started by a plugin  *)
(* that had been discarded while it waited for its port.                   *)
THEOREM NothingIsEverStranded == Spec => []NothingIsStranded
<1>1. IInv => NothingIsStranded
  BY DEF IInv, AllSound, Sound, NothingIsStranded, Watched
<1> QED BY <1>1, Invariance, PTL

-----------------------------------------------------------------------------
(* Launches. *)

-----------------------------------------------------------------------------
(* The inductive invariant, of one launch.                                 *)

Starting == {"remote", "seat", "mint", "forward", "t3"}

(* Who is still starting is not listed and cannot be stopped; who is over  *)
(* is not listed.                                                          *)
StartsUnlisted(r) ==
  /\ r.phase \in Starting \cup {"none", "failed"} =>
       ~r.listed /\ r.stop = "no" /\ ~r.gate
  /\ r.phase = "ungated" => ~r.listed /\ ~r.gate
  /\ r.phase \in {"gate", "up"} => (r.listed <=> r.stop = "no")

(* What a launch may hold where; its home apart.                           *)
HoldsWhere(r) ==
  /\ r.t3 => r.listed \/ r.phase = "t3" \/ r.signalled
  /\ r.forward => r.away \/ (r.control /\ (r.listed \/ r.phase = "t3"))
  /\ r.gate => r.phase = "up" /\ (r.listed \/ r.raced)

HomeWhere(r) ==
  r.home => \/ r.listed
            \/ r.phase \in {"remote", "seat", "t3"}
            \/ r.stop = "remote"
            \/ r.spoiled

(* Only what runs on another node holds anything there, and only launches  *)
(* do.                                                                     *)
KindOf(r) ==
  /\ r.service => r.away
  /\ r.phase \in {"remote", "seat"} => r.away
  /\ r.away \/ r.gated => ~r.control
  /\ r.phase = "gate" => r.gated
  /\ r.stop = "remote" => r.away
  /\ r.phase \in {"mint", "forward"} => r.control /\ ~r.home /\ ~r.t3 /\ ~r.forward
  /\ r.phase = "none" => /\ ~r.away /\ ~r.gated /\ ~r.control
                         /\ ~r.home /\ ~r.t3 /\ ~r.service /\ ~r.forward

(* Once the daemon closes, what is not late is not starting and not listed. *)
ClosedIsOver(r, d) ==
  d # "up" /\ ~r.late => ~r.listed /\ r.phase \notin Starting

HomelessInv(r, d) ==
  StartsUnlisted(r) /\ HoldsWhere(r) /\ KindOf(r) /\ ClosedIsOver(r, d)

LaunchInv(r, d) == HomelessInv(r, d) /\ HomeWhere(r)

HeldInv == LaunchTypes /\ \A l \in Launches : LaunchInv(launches[l], daemon)

-----------------------------------------------------------------------------
(* One launch changes, the others do not.                                  *)
LEMMA PutHeld ==
  ASSUME HeldInv, NEW l \in Launches, NEW r \in Launch, SetLaunch(l, r),
         LaunchInv(r, daemon)
  PROVE  HeldInv'
BY DEF HeldInv, LaunchTypes, SetLaunch

LEMMA PutLaunchHeld ==
  ASSUME HeldInv, NEW l \in Launches, NEW outcomes, PutLaunch(l, outcomes),
         \A r \in outcomes : r \in Launch /\ LaunchInv(r, daemon)
  PROVE  HeldInv'
<1>1. PICK r \in outcomes : SetLaunch(l, r)
  BY DEF PutLaunch
<1> QED BY <1>1, PutHeld

(* A home that is removed, or could not be, is accounted for.              *)
LEMMA RemovedHeld ==
  ASSUME NEW r \in Launch, NEW d, HomelessInv(r, d), NEW q \in Removed(r)
  PROVE  q \in Launch /\ LaunchInv(q, d)
<1> USE DEF LaunchInv, HomelessInv, StartsUnlisted, HoldsWhere, HomeWhere, KindOf,
            ClosedIsOver, Starting
<1>1. CASE q = [r EXCEPT !.home = FALSE]
  BY <1>1 DEF Launch
<1>2. CASE q = [r EXCEPT !.spoiled = TRUE]
  BY <1>2 DEF Launch
<1> QED BY <1>1, <1>2 DEF Removed

(* One that has begun and is not listed yet.                               *)
Begun(r, d) ==
  /\ r \in Launch
  /\ ~r.listed /\ r.stop = "no" /\ ~r.gate
  /\ r.t3 => r.signalled
  /\ r.forward => r.away \/ r.control
  /\ r.service => r.away
  /\ r.away \/ r.gated => ~r.control
  /\ d # "up" => r.late

LEMMA ThrownHeld ==
  ASSUME NEW d, NEW r, Begun(r, d)
  PROVE  Thrown(r) \in Launch /\ HomelessInv(Thrown(r), d)
<1> DEFINE q == Thrown(r)
<1>1. /\ q = [r EXCEPT !.phase = "failed", !.forward = r.forward /\ ~r.control]
      /\ r \in Launch
  BY DEF Thrown, Begun
<1>2. q \in Launch
  BY <1>1 DEF Launch, Phases
<1>3. /\ q.phase = "failed" /\ ~q.listed /\ q.stop = "no" /\ ~q.gate
      /\ q.t3 => q.signalled
      /\ q.forward => q.away
      /\ q.service => q.away
      /\ q.away \/ q.gated => ~q.control
  BY <1>1 DEF Launch, Begun
<1> HIDE DEF q
<1>4. HomelessInv(q, d)
  BY <1>3 DEF HomelessInv, StartsUnlisted, HoldsWhere, KindOf, ClosedIsOver, Starting
<1> QED BY <1>2, <1>4 DEF q

LEMMA FailedHeld ==
  ASSUME NEW d, NEW r, Begun(r, d), NEW q \in Failed(r)
  PROVE  q \in Launch /\ LaunchInv(q, d)
BY ThrownHeld, RemovedHeld DEF Failed

LEMMA UnwrittenHeld ==
  ASSUME NEW d, NEW r, Begun(r, d), NEW q \in Unwritten(r)
  PROVE  q \in Launch /\ LaunchInv(q, d)
<1>1. Thrown(r) \in Launch /\ HomelessInv(Thrown(r), d)
  BY ThrownHeld
<1>2. q = [Thrown(r) EXCEPT !.spoiled = TRUE]
  BY DEF Unwritten
<1> QED
  BY <1>1, <1>2 DEF Launch, LaunchInv, HomelessInv, StartsUnlisted, HoldsWhere, HomeWhere,
                    KindOf, ClosedIsOver, Starting

LEMMA SpawnedHeld ==
  ASSUME NEW d, NEW r, Begun(r, d), NEW q \in T3Spawned(r)
  PROVE  q \in Launch /\ LaunchInv(q, d)
<1>1. CASE q = [r EXCEPT !.t3 = TRUE, !.phase = "t3"]
  <2>1. q \in Launch
    BY <1>1 DEF Begun, Launch, Phases
  <2>2. /\ q.phase = "t3" /\ ~q.listed /\ q.stop = "no" /\ ~q.gate
        /\ q.forward => q.away \/ q.control
        /\ q.service => q.away
        /\ q.away \/ q.gated => ~q.control
        /\ d # "up" => q.late
    BY <1>1 DEF Begun, Launch
  <2> QED
    BY <2>1, <2>2 DEF LaunchInv, HomelessInv, StartsUnlisted, HoldsWhere, HomeWhere, KindOf,
                      ClosedIsOver, Starting
<1> QED BY <1>1, UnwrittenHeld DEF T3Spawned

(* A stop leaves what it may leave, whenever it comes.                     *)
LEMMA StoppedHeld ==
  ASSUME NEW r \in Launch, r.listed, NEW d \in {"up", "closing"}, LaunchInv(r, "up"),
         NEW q \in Stopped(r)
  PROVE  q \in Launch /\ LaunchInv(q, d)
<1> DEFINE killed == T3Killed(r)
           closed == [killed EXCEPT !.listed = FALSE, !.gate = FALSE, !.forward = FALSE]
           done == [closed EXCEPT !.stop = "done"]
           remote == [closed EXCEPT !.stop = "remote"]
<1>1. killed \in Launch /\ killed = [r EXCEPT !.signalled = r.signalled \/ r.t3]
  BY DEF T3Killed, Launch
<1>2. r.phase \in {"gate", "up"}
  BY DEF LaunchInv, HomelessInv, StartsUnlisted, Starting, Launch, Phases
<1>3. /\ closed \in Launch /\ closed.phase = r.phase
      /\ ~closed.listed /\ ~closed.gate /\ ~closed.forward
      /\ closed.t3 => closed.signalled
      /\ closed.service => closed.away
      /\ closed.away \/ closed.gated => ~closed.control
      /\ closed.phase = "gate" => closed.gated
      /\ closed.away = r.away
  <2> HIDE DEF killed, done, remote
  <2>0. killed \in Launch
    BY <1>1
  <2>1. closed \in Launch
    BY <2>0, ZenonT(60) DEF Launch
  <2> QED BY <1>1, <2>1 DEF Launch, LaunchInv, HomelessInv, KindOf
<1>4. q \in Removed(done) \/ (r.away /\ q = remote)
  BY DEF Stopped
<1> HIDE DEF closed
<1>5. done \in Launch /\ HomelessInv(done, d)
  <2>1. done \in Launch
    BY <1>3 DEF Launch
  <2> QED
    BY <1>2, <1>3, <2>1 DEF Launch, HomelessInv, StartsUnlisted, HoldsWhere, KindOf,
                            ClosedIsOver, Starting
<1>6. r.away => remote \in Launch /\ LaunchInv(remote, d)
  <2>1. remote \in Launch
    BY <1>3 DEF Launch
  <2> QED
    BY <1>2, <1>3, <2>1 DEF Launch, LaunchInv, HomelessInv, StartsUnlisted, HoldsWhere,
                            HomeWhere, KindOf, ClosedIsOver, Starting
<1> HIDE DEF done, remote
<1> QED BY <1>4, <1>5, <1>6, RemovedHeld

LEMMA ComposerInitHeld == ComposerInit => HeldInv
<1> SUFFICES ASSUME ComposerInit PROVE HeldInv
  OBVIOUS
<1>1. LaunchTypes
  BY DEF ComposerInit, LaunchTypes, Launch, Phases
<1>2. ASSUME NEW l \in Launches PROVE LaunchInv(launches[l], daemon)
  BY DEF ComposerInit, LaunchInv, HomelessInv, StartsUnlisted, HoldsWhere, HomeWhere,
         KindOf, ClosedIsOver, Starting
<1> QED BY <1>1, <1>2 DEF HeldInv

LEMMA ComposerStepHeld == HeldInv /\ [ComposerNext]_composerVars => HeldInv'
<1> SUFFICES ASSUME HeldInv, [ComposerNext]_composerVars PROVE HeldInv'
  OBVIOUS
<1>0. ASSUME NEW l \in Launches
      PROVE  launches[l] \in Launch /\ LaunchInv(launches[l], daemon)
  BY DEF HeldInv, LaunchTypes
<1> USE DEF LaunchInv, HomelessInv, StartsUnlisted, HoldsWhere, HomeWhere, KindOf,
            ClosedIsOver, Starting
<1>1. ASSUME NEW l \in Launches, NEW outcomes, PutLaunch(l, outcomes),
             \A r \in outcomes : r \in Launch /\ LaunchInv(r, daemon)
      PROVE  HeldInv'
  BY <1>1, PutLaunchHeld
<1>a. ASSUME NEW l \in Launches, launches[l].phase \in Starting \cup {"none"}
      PROVE  /\ ~launches[l].listed /\ launches[l].stop = "no" /\ ~launches[l].gate
             /\ launches[l].phase # "t3" => (launches[l].t3 => launches[l].signalled)
             /\ launches[l].forward => launches[l].away \/ launches[l].control
             /\ launches[l].service => launches[l].away
             /\ launches[l].away \/ launches[l].gated => ~launches[l].control
             /\ daemon # "up" /\ launches[l].phase # "none" => launches[l].late
  BY <1>0, <1>a
<1>2. ASSUME NEW l \in Launches, Begin(l) PROVE HeldInv'
  <2> DEFINE r(away, gated, seated) ==
               [launches[l] EXCEPT !.home = TRUE, !.away = away,
                                   !.gated = gated, !.seated = seated]
             outcomes(away, gated, seated) ==
               IF away THEN {[r(away, gated, seated) EXCEPT !.phase = "remote"]}
                              \cup Unwritten(r(away, gated, seated))
                       ELSE T3Spawned(r(away, gated, seated))
  <2>1. PICK away \in BOOLEAN, gated \in BOOLEAN, seated \in BOOLEAN :
          PutLaunch(l, outcomes(away, gated, seated))
    BY <1>2 DEF Begin
  <2> DEFINE q == r(away, gated, seated)
  <2>2. /\ q \in Launch /\ q.home /\ q.away = away
        /\ ~q.control /\ ~q.t3 /\ ~q.service /\ ~q.forward /\ ~q.gate /\ ~q.listed
        /\ q.stop = "no"
    <3>1. q \in Launch
      BY <1>0, ZenonT(60) DEF Launch
    <3>2. launches[l] \in Launch /\ launches[l].phase = "none" /\ LaunchInv(launches[l], daemon)
      BY <1>0, <1>2 DEF Begin, At
    <3> QED BY <3>1, <3>2 DEF Launch
  <2>3. daemon = "up"
    BY <1>2 DEF Begin
  <2>4. outcomes(away, gated, seated) =
          IF away THEN {[q EXCEPT !.phase = "remote"]} \cup Unwritten(q) ELSE T3Spawned(q)
    OBVIOUS
  <2> HIDE DEF r, q, outcomes
  <2>5. Begun(q, daemon)
    BY <2>2, <2>3 DEF Begun
  <2>6. away => /\ [q EXCEPT !.phase = "remote"] \in Launch
                /\ LaunchInv([q EXCEPT !.phase = "remote"], daemon)
    BY <2>2, <2>3 DEF Launch, Phases
  <2>7. \A o \in outcomes(away, gated, seated) : o \in Launch /\ LaunchInv(o, daemon)
    <3> HIDE DEF LaunchInv
    <3> QED BY <2>4, <2>5, <2>6, UnwrittenHeld, SpawnedHeld
  <2> QED BY <1>1, <2>1, <2>7
<1>3. ASSUME NEW l \in Launches, RemoteStarts(l) PROVE HeldInv'
  <2> DEFINE r == [launches[l] EXCEPT !.service = TRUE]
             seat == [r EXCEPT !.phase = "seat"]
  <2>1. r \in Launch /\ Begun(r, daemon)
    BY <1>0, <1>3, <1>a, ZenonT(60) DEF Launch, RemoteStarts, At, Begun
  <2>2. seat \in Launch /\ LaunchInv(seat, daemon)
    BY <1>0, <1>3, <1>a, ZenonT(60) DEF Launch, Phases, RemoteStarts, At
  <2>3. PutLaunch(l, IF r.seated THEN {seat} ELSE T3Spawned(r)) \/ PutLaunch(l, Failed(r))
    BY <1>3 DEF RemoteStarts
  <2> HIDE DEF r, seat, LaunchInv
  <2> QED BY <1>1, <2>1, <2>2, <2>3, SpawnedHeld, FailedHeld
<1>4. ASSUME NEW l \in Launches, RemoteRefuses(l) PROVE HeldInv'
  <2>1. Begun(launches[l], daemon)
    BY <1>0, <1>4, <1>a DEF RemoteRefuses, At, Begun
  <2> HIDE DEF LaunchInv
  <2> QED BY <1>1, <1>4, <2>1, FailedHeld DEF RemoteRefuses
<1>5. ASSUME NEW l \in Launches, SeatAnswers(l) PROVE HeldInv'
  <2>1. PICK forwarded \in BOOLEAN :
          PutLaunch(l, T3Spawned([launches[l] EXCEPT !.forward = forwarded]))
    BY <1>5 DEF SeatAnswers
  <2> DEFINE r == [launches[l] EXCEPT !.forward = forwarded]
  <2>2. Begun(r, daemon)
    BY <1>0, <1>5, <1>a, ZenonT(60) DEF Launch, SeatAnswers, At, Begun
  <2> HIDE DEF r, LaunchInv
  <2> QED BY <1>1, <2>1, <2>2, SpawnedHeld DEF r
<1>6. ASSUME NEW l \in Launches, T3Serves(l) PROVE HeldInv'
  <2> DEFINE q == [launches[l] EXCEPT !.listed = TRUE,
                     !.phase = IF launches[l].gated THEN "gate" ELSE "up"]
  <2>1. q \in Launch /\ LaunchInv(q, daemon)
    BY <1>0, <1>6, <1>a, ZenonT(60) DEF Launch, Phases, T3Serves, At
  <2>2. PutLaunch(l, {q})
    BY <1>6 DEF T3Serves
  <2> HIDE DEF q, LaunchInv
  <2> QED BY <1>1, <2>1, <2>2
<1>7. ASSUME NEW l \in Launches, T3Fails(l) PROVE HeldInv'
  <2> DEFINE r == T3Killed(launches[l])
  <2>1. Begun(r, daemon)
    BY <1>0, <1>7, <1>a, ZenonT(60) DEF Launch, T3Fails, At, Begun, T3Killed
  <2>2. PutLaunch(l, Failed(r))
    BY <1>7 DEF T3Fails
  <2> HIDE DEF r, LaunchInv
  <2> QED BY <1>1, <2>1, <2>2, FailedHeld
<1>8. ASSUME NEW l \in Launches, GateListens(l) PROVE HeldInv'
  <2> DEFINE q == [launches[l] EXCEPT !.gate = TRUE, !.phase = "up",
                                      !.raced = ~launches[l].listed]
  <2>1. q \in Launch /\ LaunchInv(q, daemon)
    BY <1>0, <1>8, ZenonT(60) DEF Launch, Phases, GateListens, At
  <2>2. PutLaunch(l, {q})
    BY <1>8 DEF GateListens
  <2> HIDE DEF q, LaunchInv
  <2> QED BY <1>1, <2>1, <2>2
<1>9. ASSUME NEW l \in Launches, GateFails(l) PROVE HeldInv'
  <2> DEFINE k == T3Killed(launches[l])
             q == [k EXCEPT !.listed = FALSE, !.phase = "ungated"]
  <2>1. launches[l] \in Launch /\ launches[l].phase = "gate" /\ LaunchInv(launches[l], daemon)
    BY <1>0, <1>9 DEF GateFails, At
  <2>2. /\ k \in Launch /\ k.phase = "gate" /\ k.gated /\ ~k.control /\ ~k.gate
        /\ k.t3 => k.signalled
        /\ k.forward => k.away
        /\ k.service => k.away
        /\ k.stop = "remote" => k.away
    BY <2>1 DEF T3Killed, Launch
  <2> HIDE DEF k
  <2>3. q \in Launch /\ HomelessInv(q, daemon)
    BY <2>2 DEF Launch, Phases
  <2>4. PutLaunch(l, Removed(q))
    BY <1>9 DEF GateFails, k
  <2> HIDE DEF q, LaunchInv, HomelessInv
  <2> QED BY <1>1, <2>3, <2>4, RemovedHeld
<1>10. ASSUME NEW l \in Launches, BeginControl(l) PROVE HeldInv'
  <2> DEFINE q == [launches[l] EXCEPT !.control = TRUE, !.phase = "mint"]
  <2>1. q \in Launch /\ LaunchInv(q, daemon)
    BY <1>0, <1>10, ZenonT(60) DEF Launch, Phases, BeginControl, At
  <2>2. PutLaunch(l, {q})
    BY <1>10 DEF BeginControl
  <2> HIDE DEF q, LaunchInv
  <2> QED BY <1>1, <2>1, <2>2
<1>11. ASSUME NEW l \in Launches, MintAnswers(l) PROVE HeldInv'
  <2> DEFINE q(phase) == [launches[l] EXCEPT !.phase = phase]
  <2>1. ASSUME NEW phase \in {"forward", "failed"}
        PROVE  q(phase) \in Launch /\ LaunchInv(q(phase), daemon)
    BY <1>0, <1>11, <1>a DEF Launch, Phases, MintAnswers, At
  <2>2. PutLaunch(l, {q(phase) : phase \in {"forward", "failed"}})
    BY <1>11 DEF MintAnswers
  <2> HIDE DEF q, LaunchInv
  <2> QED BY <1>1, <2>1, <2>2
<1>12. ASSUME NEW l \in Launches, ForwardAnswers(l) PROVE HeldInv'
  <2> DEFINE r == launches[l]
             up == [r EXCEPT !.forward = TRUE, !.listed = TRUE, !.phase = "up"]
             own == [r EXCEPT !.forward = TRUE, !.home = TRUE]
  <2>1. Begun(r, daemon)
    BY <1>0, <1>12, <1>a DEF ForwardAnswers, At, Begun
  <2>2. up \in Launch /\ LaunchInv(up, daemon)
    BY <1>0, <1>12, <1>a, ZenonT(60) DEF Launch, Phases, ForwardAnswers, At
  <2>3. Begun(own, daemon)
    BY <1>0, <1>12, <1>a, ZenonT(60) DEF Launch, Phases, ForwardAnswers, At, Begun
  <2>4. PutLaunch(l, Failed(r)) \/ PutLaunch(l, {up}) \/ PutLaunch(l, T3Spawned(own))
    BY <1>12 DEF ForwardAnswers
  <2> HIDE DEF r, up, own, LaunchInv
  <2> QED BY <1>1, <2>1, <2>2, <2>3, <2>4, FailedHeld, SpawnedHeld
<1>14. ASSUME NEW l \in Launches, StopLaunch(l) PROVE HeldInv'
  <2> HIDE DEF LaunchInv
  <2>1. daemon = "up" /\ launches[l].listed /\ PutLaunch(l, Stopped(launches[l]))
    BY <1>14 DEF StopLaunch
  <2> QED BY <1>0, <1>1, <2>1, StoppedHeld
<1>15. ASSUME NEW l \in Launches, RemoteStops(l) PROVE HeldInv'
  <2> DEFINE q(service) == [launches[l] EXCEPT !.service = service, !.stop = "done"]
  <2>1. PICK service \in BOOLEAN :
          /\ service => launches[l].service
          /\ PutLaunch(l, Removed(q(service)))
    BY <1>0, <1>15 DEF RemoteStops, Launch
  <2>2. q(service) \in Launch /\ HomelessInv(q(service), daemon)
    <3>1. /\ launches[l] \in Launch
          /\ LaunchInv(launches[l], daemon)
          /\ launches[l].stop = "remote"
      BY <1>0, <1>15 DEF RemoteStops
    <3>2. q(service) \in Launch
      BY <3>1 DEF Launch
    <3> QED BY <2>1, <3>1, <3>2 DEF Launch, Phases
  <2> HIDE DEF q, LaunchInv, HomelessInv
  <2> QED BY <1>1, <2>1, <2>2, RemovedHeld
<1>16. ASSUME NEW l \in Launches, T3Dies(l) PROVE HeldInv'
  <2> DEFINE q(strays) == [launches[l] EXCEPT !.t3 = FALSE, !.strays = strays]
  <2>1. PICK strays \in BOOLEAN : SetLaunch(l, q(strays))
    BY <1>16 DEF T3Dies
  <2>2. q(strays) \in Launch /\ LaunchInv(q(strays), daemon)
    BY <1>0, ZenonT(60) DEF Launch, Phases
  <2> HIDE DEF q, LaunchInv
  <2> QED BY <2>1, <2>2, PutHeld
<1>20. ASSUME NEW l \in Launches, StraysDie(l) PROVE HeldInv'
  <2> DEFINE q == [launches[l] EXCEPT !.strays = FALSE]
  <2>1. q \in Launch /\ LaunchInv(q, daemon)
    BY <1>0, ZenonT(60) DEF Launch, Phases
  <2>2. SetLaunch(l, q)
    BY <1>20 DEF StraysDie
  <2> HIDE DEF q, LaunchInv
  <2> QED BY <2>1, <2>2, PutHeld
<1>21. ASSUME NEW l \in Launches, Escalates(l) PROVE HeldInv'
  <2> DEFINE q == [launches[l] EXCEPT !.t3 = FALSE]
  <2>1. q \in Launch /\ LaunchInv(q, daemon)
    BY <1>0, ZenonT(60) DEF Launch, Phases
  <2>2. PutLaunch(l, {q})
    BY <1>21 DEF Escalates
  <2> HIDE DEF q, LaunchInv
  <2> QED BY <1>1, <2>1, <2>2
<1>17. CASE CloseAll
  <2>1. ASSUME NEW l \in Launches, NEW q \in Closed(launches[l])
        PROVE  q \in Launch /\ LaunchInv(q, "closing")
    <3>1. LaunchInv(launches[l], "up") /\ launches[l] \in Launch
      BY <1>0, <1>17 DEF CloseAll
    <3>2. CASE launches[l].listed
      <4> HIDE DEF LaunchInv
      <4> QED BY <2>1, <3>1, <3>2, StoppedHeld DEF Closed
    <3>3. CASE ~launches[l].listed
      <4>1. q = [launches[l] EXCEPT
                   !.late = launches[l].phase \notin {"none", "up", "failed", "ungated"}]
        BY <2>1, <3>3 DEF Closed
      <4> QED BY <3>1, <3>3, <4>1, ZenonT(60) DEF Launch, Phases
    <3> QED BY <3>2, <3>3
  <2>2. /\ launches' \in [Launches -> UNION {Closed(launches[l]) : l \in Launches}]
        /\ \A l \in Launches : launches'[l] \in Closed(launches[l])
        /\ daemon' = "closing"
    BY <1>17 DEF CloseAll
  <2>3. \A l \in Launches : launches'[l] \in Launch /\ LaunchInv(launches'[l], daemon')
    <3> HIDE DEF LaunchInv
    <3> QED BY <2>1, <2>2
  <2>4. LaunchTypes'
    BY <2>2, <2>3 DEF LaunchTypes
  <2> QED BY <2>3, <2>4 DEF HeldInv
<1>18. CASE Exit
  <2> DEFINE q(l) == [launches[l] EXCEPT !.gate = FALSE, !.forward = FALSE]
  <2>1. ASSUME NEW l \in Launches PROVE q(l) \in Launch /\ LaunchInv(q(l), "gone")
    BY <1>0, <1>18, ZenonT(60) DEF Exit, Launch, Phases
  <2>2. launches' = [l \in Launches |-> q(l)] /\ daemon' = "gone"
    BY <1>18 DEF Exit
  <2> HIDE DEF q, LaunchInv
  <2> QED BY <2>1, <2>2 DEF HeldInv, LaunchTypes
<1>19. CASE UNCHANGED composerVars
  BY <1>19 DEF composerVars, HeldInv, LaunchTypes
<1> QED
  BY <1>2, <1>3, <1>4, <1>5, <1>6, <1>7, <1>8, <1>9, <1>10, <1>11, <1>12, <1>14,
     <1>15, <1>16, <1>17, <1>18, <1>19, <1>20, <1>21
  DEF ComposerNext, Rest

(* What a launch holds is what its place in launch(), controlRemote(),     *)
(* stop() and closeAll() accounts for: its T3 is listed, waited for or has *)
(* its SIGTERM, its home is somebody's to remove or its files have failed. *)
THEOREM HoldingsAreAccounted == ComposerSpec => []HeldInv
<1> QED BY ComposerInitHeld, ComposerStepHeld, PTL DEF ComposerSpec

(* No T3 is left that neither can be stopped nor has been told to end, and *)
(* no temporary home that nobody would remove: not while the daemon runs,  *)
(* not by a launch that is over, and by the daemon's end only of launches  *)
(* that it overtakes.                                                      *)
THEOREM LocalsAreAlwaysHeld == ComposerSpec => []LocalsAreHeld
<1>1. HeldInv => LocalsAreHeld
  <2> SUFFICES ASSUME HeldInv PROVE LocalsAreHeld
    OBVIOUS
  <2>0. ASSUME NEW l \in Launches
        PROVE  launches[l] \in Launch /\ LaunchInv(launches[l], daemon)
    BY DEF HeldInv, LaunchTypes
  <2> USE DEF LaunchInv, HomelessInv, StartsUnlisted, HoldsWhere, HomeWhere, KindOf,
              ClosedIsOver, Starting
  <2>1. LocalsAreTracked
    BY <2>0 DEF LocalsAreTracked
  <2>2. EndedLocalsHoldNothing
    BY <2>0 DEF EndedLocalsHoldNothing, Launch
  <2>3. LittleOutlives
    BY <2>0 DEF LittleOutlives
  <2> QED BY <2>1, <2>2, <2>3 DEF LocalsAreHeld
<1> QED BY <1>1, HoldingsAreAccounted, PTL

=============================================================================
