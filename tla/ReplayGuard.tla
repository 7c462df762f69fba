----------------------------- MODULE ReplayGuard -----------------------------
(***************************************************************************)
(* The destination's replay guard for routed messages                      *)
(* (routeReplayGuard.js), as routedMessage.js calls it and as the daemon   *)
(* wires it to the sidecar route-replay.json.                              *)
(*                                                                         *)
(* An origin signs a manifest; relays may hand the same envelope over any  *)
(* number of times.  The guard is asked twice for each: check before the   *)
(* body is decoded, admit after.  Opening a message is synchronous, so     *)
(* nothing but time passes between the two.                                *)
(***************************************************************************)
EXTENDS Naturals, FiniteSets

CONSTANTS
  Origins,       \* authenticated origins
  Ids,           \* message ids (with the block index) an origin may use
  Manifests,     \* the manifests origins sign
  None,          \* no reservation, no message
  MaxValidity,   \* longest validity a manifest may claim
  Skew,          \* tolerated difference of clocks
  MaxEntries,    \* ceiling of live reservations
  MaxPerOrigin,  \* ceiling of live reservations of one origin
  Lines,         \* what a line of an edited sidecar may claim
  MaxTime        \* bound: the clock stops here

Keys == Origins \X Ids

ASSUME ConstantsAssumption ==
  /\ IsFiniteSet(Keys)
  /\ Manifests \subseteq [key : Keys, iss : Nat, exp : Nat]
  /\ None \notin Nat \cup Manifests
  /\ {MaxValidity, Skew, MaxTime} \subseteq Nat
  /\ {MaxEntries, MaxPerOrigin} \subseteq Nat
  /\ Lines \subseteq Nat

VARIABLES
  clock,      \* the machine's wall clock
  up,         \* the daemon runs
  highWater,  \* timeHighWater: the latest time this process has seen
  exp,        \* entries: exp[k] is the end of k's reservation, or None
  perOrigin,  \* perOrigin[o]: live reservations counted for o
  sidecar,    \* route-replay.json: the reservations last written
  opening,    \* the message being opened, and how far it is
  inRun,      \* history: manifests delivered by this process
  delivered,  \* history: manifests delivered ever
  faithful    \* history: no write failed, nobody edited the sidecar or set
              \* the clock back

cacheVars == <<exp, perOrigin>>
vars == <<clock, up, highWater, exp, perOrigin, sidecar, opening, inRun,
          delivered, faithful>>

Reservations == [Keys -> Nat \cup {None}]
NoReservation == [k \in Keys |-> None]
Stages == {"checked", "admitted"}

TypeOK ==
  /\ clock \in Nat
  /\ up \in BOOLEAN
  /\ highWater \in Nat
  /\ exp \in Reservations
  /\ perOrigin \in [Origins -> Nat]
  /\ sidecar \in Reservations
  /\ opening \in [stage : Stages, m : Manifests] \cup {None}
  /\ inRun \subseteq Manifests
  /\ delivered \subseteq Manifests
  /\ faithful \in BOOLEAN

Init ==
  /\ clock = 0
  /\ up = FALSE
  /\ highWater = 0
  /\ exp = NoReservation
  /\ perOrigin = [o \in Origins |-> 0]
  /\ sidecar = NoReservation
  /\ opening = None
  /\ inRun = {}
  /\ delivered = {}
  /\ faithful = TRUE

-----------------------------------------------------------------------------
(* Plausible bugs; the properties below tell each from the code. *)

(* Sweeping forgets the per-origin counts.                                 *)
SweptCountsKept(t) == perOrigin

(* A full cache is not swept before it refuses.                            *)
CollectNever(m, t) == FALSE

(* The latest end a live reservation can have is taken one skew too early. *)
BelievableShort(k, t) ==
  /\ sidecar[k] # None
  /\ t <= sidecar[k]
  /\ sidecar[k] <= t + MaxValidity + Skew

(* Any reservation of the snapshot that has not ended is believed.         *)
BelievableUnbounded(k, t) == sidecar[k] # None /\ t <= sidecar[k]

(* The snapshot is taken before the reservation is made.                   *)
PersistEarly(e) ==
  /\ sidecar' = [k \in Keys |->
                   IF exp[k] # None /\ exp[k] >= highWater' THEN exp[k] ELSE None]
  /\ UNCHANGED faithful

-----------------------------------------------------------------------------
(* Time and the cache. *)

(* currentTime(): never earlier than a time this process has seen.         *)
Now == IF highWater <= clock THEN clock ELSE highWater

Held(e) == {k \in Keys : e[k] # None}
Of(o, K) == {k \in K : k[1] = o}

(* sweep(): drop what has ended, and count it off.                         *)
Ended(t) == {k \in Held(exp) : exp[k] < t}
Swept(t) == [k \in Keys |-> IF k \in Ended(t) THEN None ELSE exp[k]]
SweptCounts(t) ==
  [o \in Origins |-> LET n == Cardinality(Of(o, Ended(t))) IN
                     IF perOrigin[o] <= n THEN 0 ELSE perOrigin[o] - n]

(* The instant up to which a message with this manifest is admissible.     *)
Ends(m) == m.exp + Skew

InWindow(m, t) ==
  /\ m.exp <= m.iss + MaxValidity
  /\ m.iss <= t + Skew
  /\ t <= m.exp + Skew

Duplicate(m, t) == exp[m.key] # None /\ t <= exp[m.key]

Full(e, counts, o) ==
  Cardinality(Held(e)) >= MaxEntries \/ counts[o] >= MaxPerOrigin

(* assess() sweeps only when a new key meets a ceiling.                    *)
Collects(m, t) == exp[m.key] = None /\ Full(exp, perOrigin, m.key[1])

Collected(m, t) == IF Collects(m, t) THEN Swept(t) ELSE exp
CollectedCounts(m, t) ==
  IF Collects(m, t) THEN SweptCounts(t) ELSE perOrigin

HasRoom(m, t) ==
  \/ exp[m.key] # None
  \/ ~Full(Collected(m, t), CollectedCounts(m, t), m.key[1])

(* persistNow(): what has not ended is written, or the write fails and     *)
(* the failure is swallowed.                                               *)
Persist(e) ==
  \/ /\ sidecar' = [k \in Keys |->
                      IF e[k] # None /\ e[k] >= highWater' THEN e[k] ELSE None]
     /\ UNCHANGED faithful
  \/ UNCHANGED sidecar /\ faithful' = FALSE

-----------------------------------------------------------------------------
(* Opening a message. *)

Refuse ==
  /\ opening' = None
  /\ UNCHANGED <<sidecar, faithful>>

(* check(): the whole decision, nothing reserved.                          *)
Check(m) ==
  /\ up
  /\ opening = None
  /\ highWater' = Now
  /\ \/ /\ ~InWindow(m, Now) \/ Duplicate(m, Now)
        /\ Refuse
        /\ UNCHANGED cacheVars
     \/ /\ InWindow(m, Now)
        /\ ~Duplicate(m, Now)
        /\ exp' = Collected(m, Now)
        /\ perOrigin' = CollectedCounts(m, Now)
        /\ opening' = IF HasRoom(m, Now) THEN [stage |-> "checked", m |-> m]
                                         ELSE None
        /\ UNCHANGED <<sidecar, faithful>>
  /\ UNCHANGED <<clock, up, inRun, delivered>>

(* The payload does not decode, verify or parse.                           *)
BadBody ==
  /\ opening # None
  /\ opening.stage = "checked"
  /\ opening' = None
  /\ UNCHANGED <<clock, up, highWater, cacheVars, sidecar, inRun, delivered,
                 faithful>>

(* admit(): the decision again, at the time it is now, and the reservation.*)
(* A key that is held but ended is replaced, which leaves its count alone. *)
Admit ==
  /\ opening # None
  /\ opening.stage = "checked"
  /\ highWater' = Now
  /\ LET m == opening.m
         o == m.key[1] IN
       \/ /\ ~InWindow(m, Now) \/ Duplicate(m, Now)
          /\ Refuse
          /\ UNCHANGED cacheVars
       \/ /\ InWindow(m, Now)
          /\ ~Duplicate(m, Now)
          /\ ~HasRoom(m, Now)
          /\ exp' = Collected(m, Now)
          /\ perOrigin' = CollectedCounts(m, Now)
          /\ Refuse
       \/ /\ InWindow(m, Now)
          /\ ~Duplicate(m, Now)
          /\ HasRoom(m, Now)
          /\ exp' = [Collected(m, Now) EXCEPT ![m.key] = Ends(m)]
          /\ perOrigin' = IF exp[m.key] # None THEN perOrigin
                          ELSE [CollectedCounts(m, Now) EXCEPT ![o] = @ + 1]
          /\ opening' = [stage |-> "admitted", m |-> m]
          /\ Persist(exp')
  /\ UNCHANGED <<clock, up, inRun, delivered>>

(* The consumer is called.                                                 *)
Deliver ==
  /\ opening # None
  /\ opening.stage = "admitted"
  /\ opening' = None
  /\ inRun' = inRun \cup {opening.m}
  /\ delivered' = delivered \cup {opening.m}
  /\ UNCHANGED <<clock, up, highWater, cacheVars, sidecar, faithful>>

(* size() and snapshot() sweep.                                            *)
Inspect ==
  /\ up
  /\ opening = None
  /\ highWater' = Now
  /\ exp' = Swept(Now)
  /\ perOrigin' = SweptCounts(Now)
  /\ UNCHANGED <<clock, up, sidecar, opening, inRun, delivered, faithful>>

-----------------------------------------------------------------------------
(* Start and stop. *)

(* A reservation of the snapshot is believed if it has not ended and ends  *)
(* no later than the live path could have made it.                         *)
Believable(k, t) ==
  /\ sidecar[k] # None
  /\ t <= sidecar[k]
  /\ sidecar[k] <= t + MaxValidity + 2 * Skew

Fits(K) ==
  /\ Cardinality(K) <= MaxEntries
  /\ \A o \in Origins : Cardinality(Of(o, K)) <= MaxPerOrigin

(* Taking entries in file order, while they fit, ends in a set to which    *)
(* nothing believable can be added.                                        *)
Rehydratable(t) ==
  LET B == {k \in Keys : Believable(k, t)} IN
  {R \in SUBSET B : Fits(R) /\ \A k \in B \ R : ~Fits(R \cup {k})}

Rehydrated(R) == [k \in Keys |-> IF k \in R THEN sidecar[k] ELSE None]

Start ==
  /\ ~up
  /\ up' = TRUE
  /\ highWater' = clock
  /\ \E R \in Rehydratable(clock) :
       /\ exp' = Rehydrated(R)
       /\ perOrigin' = [o \in Origins |-> Cardinality(Of(o, R))]
  /\ inRun' = {}
  /\ UNCHANGED <<clock, sidecar, opening, delivered, faithful>>

Stop ==
  /\ up
  /\ up' = FALSE
  /\ highWater' = 0
  /\ exp' = NoReservation
  /\ perOrigin' = [o \in Origins |-> 0]
  /\ opening' = None
  /\ inRun' = {}
  /\ UNCHANGED <<clock, sidecar, delivered, faithful>>

(* The environment. *)
Tick ==
  /\ clock < MaxTime
  /\ clock' = clock + 1
  /\ UNCHANGED <<up, highWater, cacheVars, sidecar, opening, inRun, delivered,
                 faithful>>

SetBack ==
  /\ clock' \in 0 .. clock
  /\ faithful' = FALSE
  /\ UNCHANGED <<up, highWater, cacheVars, sidecar, opening, inRun, delivered>>

(* An operator edits the file, or it is damaged.                           *)
Edit ==
  /\ ~up
  /\ \E k \in Keys, t \in {None} \cup Lines :
       sidecar' = [sidecar EXCEPT ![k] = t]
  /\ faithful' = FALSE
  /\ UNCHANGED <<clock, up, highWater, cacheVars, opening, inRun, delivered>>

Next ==
  \/ \E m \in Manifests : Check(m)
  \/ BadBody \/ Admit \/ Deliver \/ Inspect
  \/ Start \/ Stop
  \/ Tick \/ SetBack \/ Edit

Spec == Init /\ [][Next]_vars

-----------------------------------------------------------------------------
(* Properties. *)

Delivering(m) == opening # None /\ opening = [stage |-> "admitted", m |-> m]

(* One process never delivers the same envelope twice, whatever the wall   *)
(* clock does: what was swept after a jump forward stays refused when the  *)
(* clock is set back (routeReplayGuard.js 26-28, 81-91).                   *)
AtMostOncePerRun ==
  \A m \in Manifests : Delivering(m) => m \notin inRun

(* As long as the clock was not set back and the sidecar could be written, *)
(* no restart makes it deliver an envelope again (16-18).                  *)
AtMostOnceEver ==
  faithful => \A m \in Manifests : Delivering(m) => m \notin delivered

(* Nothing is delivered twice: in one run, and across restarts.            *)
AtMostOnce == AtMostOncePerRun /\ AtMostOnceEver

(* The per-origin counts are the entries' own, so a ceiling is neither     *)
(* passed nor met early, and both ceilings hold (94-116, 161-162, 187-212).*)
Accounted ==
  /\ \A o \in Origins : perOrigin[o] = Cardinality(Of(o, Held(exp)))
  /\ Fits(Held(exp))

(* No reservation, from the file or not, outlives what the live path could *)
(* reserve: a damaged line cannot deny a key forever (149-156).            *)
ReservationsEnd ==
  \A k \in Held(exp) : exp[k] <= highWater + MaxValidity + 2 * Skew

(* A message that is refused for want of room is refused because of live   *)
(* reservations: one that has ended never takes a place (187-200).         *)
RefusedForLiveOnes ==
  up => \A m \in Manifests :
    exp[m.key] = None /\ ~HasRoom(m, Now) =>
      LET live == Held(exp) \ Ended(Now) IN
      \/ Cardinality(live) >= MaxEntries
      \/ Cardinality(Of(m.key[1], live)) >= MaxPerOrigin

(* As long as that is so, a start believes every reservation the guard     *)
(* wrote itself and that has not ended: "a snapshot claiming more is a     *)
(* corrupt/hand-edited entry" (149-156), so nothing else is left out.      *)
StartKeepsReservations ==
  [][Start /\ faithful => \A k \in Keys :
       sidecar[k] # None /\ clock <= sidecar[k] => exp'[k] = sidecar[k]]_vars

=============================================================================
