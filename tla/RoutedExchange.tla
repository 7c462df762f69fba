---------------------------- MODULE RoutedExchange ----------------------------
(***************************************************************************)
(* Routed messages between two ends (builtin/routePlugin.js with           *)
(* routedMessage.js, routeReceipt.js, routedDiscoveryRecord.js,            *)
(* routedObservation.js, routedSealResolver.js and routedKeyStore.js):     *)
(* origins that send to one destination through relays.                    *)
(*                                                                         *)
(* The engine that finds a way is Routing; here it is a relay that holds a *)
(* copy of everything that ever crossed it.  It may deliver any copy any   *)
(* number of times, spoilt or not, and answer a send with any pieces of    *)
(* answers it has seen, or none.  What it cannot do is sign for another.   *)
(* Which envelopes are too old is the replay guard's question              *)
(* (ReplayGuard); here the guard is the set of messages ever admitted.     *)
(***************************************************************************)
EXTENDS Naturals, FiniteSets

CONSTANTS
  Origins,       \* machines that send to the destination
  Callers,       \* neighbours of the destination that hand it messages
  Ids,           \* message ids
  OriginOf,      \* the origin that mints an id
  SealKeys,      \* sealing keys the destination may come to hold
  NoKey,         \* no sealing key
  Absent,        \* a piece of an answer that is missing or not signed by
                 \* the destination
  MaxMarked,     \* maxEntries of the observation store
  MaxInFlight,   \* MAX_IN_FLIGHT_RELAYS
  MaxPerCaller,  \* MAX_IN_FLIGHT_PER_CALLER
  MaxEvents      \* bound: restarts, reloads, walks and discards

ASSUME ExchangeAssumption ==
  /\ IsFiniteSet(Ids) /\ Ids \subseteq Nat /\ Ids # {}
  /\ OriginOf \in [Ids -> Origins]
  /\ NoKey \notin SealKeys /\ {"clear", "refuse"} \cap SealKeys = {}
  /\ Absent \notin Ids
  /\ {MaxMarked, MaxInFlight, MaxPerCaller, MaxEvents} \subseteq Nat

VARIABLES
  tier0,     \* tier0[o]: what o's directory holds of the destination
  entry,     \* entry[o]: o's Tier-1 entry for it (routedKeyStore)
  sent,      \* sent[i]: the wrapper with the id i, if it was made, and
             \* whether its caller allowed it to go in the clear
  told,      \* told[i]: what the send reported to its caller
  seen,      \* history: keys o was shown since it last forgot
  blessed,   \* history: keys a person approved at o since then
  sealKey,   \* the destination's sealing key
  floor,     \* its requireSealed, as the serving plugin was built with
  opened,    \* messages its replay guard admitted
  marked,    \* origins with a requireSealFrom marker
  onDisk,    \* and in route-observations.json
  degraded,  \* a marker is not on disk and the retry is armed
  uncovered, \* history: origins whose marker was not taken, or lost
  jobs,      \* messages whose consumer has not returned
  inFlight,  \* relays in flight in the serving plugin
  byCaller,  \* byCaller[c]: of these, handed over by c
  receipts,  \* signed receipts that have crossed relays
  records,   \* signed discovery records that have
  replies,   \* messages whose sealed reply has
  events     \* bound: how much of MaxEvents is used

originVars == <<tier0, entry, sent, told, seen, blessed>>
markVars == <<marked, onDisk, degraded, uncovered>>
slotVars == <<inFlight, byCaller>>
wireVars == <<receipts, records, replies>>
destVars == <<sealKey, floor, opened, markVars, jobs, slotVars>>
vars == <<originVars, destVars, wireVars, events>>

-----------------------------------------------------------------------------
(* Types. *)

Unsent == [public |-> FALSE, to |-> NoKey]
Wrapper == [public : BOOLEAN, to : SealKeys \cup {"clear"}]

NoEntry == [state |-> "none", key |-> NoKey, floor |-> FALSE]
Entry == [state : {"none", "record-carried", "record-approved", "record-conflict"},
          key : SealKeys \cup {NoKey}, floor : BOOLEAN]

Approved(k) == [state |-> "record-approved", key |-> k, floor |-> FALSE]

Posture == [state : {"unverified", "verified", "conflict"},
            key : SealKeys \cup {NoKey}]
Unverified == [state |-> "unverified", key |-> NoKey]

Record == [key : SealKeys, floor : BOOLEAN]
Receipt == [id : Ids, outcome : {"delivered", "refused"}]
Job == [id : Ids, caller : Callers, floor : BOOLEAN, live : BOOLEAN]

Waiting == [proof |-> "none", body |-> "waiting"]
Report == [proof : {"none", "delivered", "refused"},
           body : {"none", "clear", "sealed", "withheld"}]

TypeOK ==
  /\ tier0 \in [Origins -> Posture]
  /\ entry \in [Origins -> Entry]
  /\ sent \in [Ids -> Wrapper \cup {Unsent}]
  /\ told \in [Ids -> Report \cup {Waiting}]
  /\ seen \in [Origins -> SUBSET SealKeys]
  /\ blessed \in [Origins -> SUBSET SealKeys]
  /\ sealKey \in SealKeys
  /\ floor \in BOOLEAN
  /\ opened \subseteq Ids
  /\ marked \subseteq Origins /\ onDisk \subseteq Origins
  /\ degraded \in BOOLEAN
  /\ uncovered \subseteq Origins
  /\ jobs \subseteq Job
  /\ inFlight \in Nat
  /\ byCaller \in [Callers -> Nat]
  /\ receipts \subseteq Receipt
  /\ records \subseteq Record
  /\ replies \subseteq Ids
  /\ events \in Nat

(* The machines have met before: an origin may hold a key it approved then,  *)
(* of now or not, and the destination some markers.                          *)
Init ==
  /\ tier0 = [o \in Origins |-> Unverified]
  /\ entry \in [Origins -> {NoEntry} \cup {Approved(k) : k \in SealKeys}]
  /\ sent = [i \in Ids |-> Unsent]
  /\ told = [i \in Ids |-> Waiting]
  /\ seen = [o \in Origins |-> {entry[o].key} \ {NoKey}]
  /\ blessed = seen
  /\ sealKey \in SealKeys
  /\ floor \in BOOLEAN
  /\ onDisk \in SUBSET Origins /\ Cardinality(onDisk) <= MaxMarked
  /\ marked = onDisk
  /\ opened = {} /\ uncovered = {} /\ jobs = {}
  /\ degraded = FALSE
  /\ inFlight = 0
  /\ byCaller = [c \in Callers |-> 0]
  /\ receipts = {} /\ records = {} /\ replies = {}
  /\ events = 0

Sent(i) == sent[i] # Unsent
Sealed(i) == sent[i].to \in SealKeys

-----------------------------------------------------------------------------
(* The origin sends. *)

(* resolveRoutedSeal(): what a payload for the destination is sealed to.   *)
ResolvedSeal(o, publicOk) ==
  IF publicOk THEN "clear"
  ELSE IF tier0[o].state = "verified" THEN tier0[o].key
  ELSE IF tier0[o].state = "unverified" /\ entry[o].state = "record-approved"
       THEN entry[o].key
  ELSE "refuse"

(* recordFloor(), read while Tier 0 knows nothing.                         *)
FloorAdvertised(o) == tier0[o].state = "unverified" /\ entry[o].floor

(* Public application data is demoted to confidential; a probe never is.   *)
Demoted(o, data) == data /\ FloorAdvertised(o)

(* forget() of the store, with what it had been shown.                     *)
ForgetEntry(o) ==
  /\ entry' = [entry EXCEPT ![o] = NoEntry]
  /\ seen' = [seen EXCEPT ![o] = {}]
  /\ blessed' = [blessed EXCEPT ![o] = {}]

Outstanding(o) ==
  {i \in Ids : OriginOf[i] = o /\ Sent(i) /\ told[i] = Waiting}

(* newMessageId(): the origin's ids, one after the other.                  *)
Fresh(i) == ~Sent(i) /\ \A j \in Ids : OriginOf[j] = OriginOf[i] /\ j < i => Sent(j)

(* sendUnchecked() up to its await, under the origin's own slots: the      *)
(* payload leaves sealed, or in the clear because the caller said so, or   *)
(* not at all.                                                             *)
Send(o, data, public) ==
  LET to == ResolvedSeal(o, public /\ ~Demoted(o, data)) IN
  /\ Cardinality(Outstanding(o)) < MaxInFlight
  /\ IF tier0[o].state # "unverified" THEN ForgetEntry(o)
     ELSE UNCHANGED <<entry, seen, blessed>>
  /\ IF to = "refuse" THEN UNCHANGED sent
     ELSE \E i \in Ids : /\ OriginOf[i] = o /\ Fresh(i)
                         /\ sent' = [sent EXCEPT ![i] =
                              [public |-> public, to |-> to]]
  /\ UNCHANGED <<tier0, told, destVars, wireVars, events>>

-----------------------------------------------------------------------------
(* The origin is answered. *)

(* What a record the destination signed says, of its key and its floor.     *)
Learned(r) == [state |-> "record-carried", key |-> r.key, floor |-> r.floor]

(* Plausible bug: the latest record wins, as it does for the floor. *)
ObservedLatest(e, r) ==
  IF e.state = "none" THEN Learned(r)
  ELSE [e EXCEPT !.key = r.key, !.floor = r.floor]

(* observe() of the store: a record the destination signed, of now or of   *)
(* some time before.                                                       *)
Observed(e, r) ==
  IF e.state = "none" THEN Learned(r)
  ELSE IF e.state = "record-conflict" THEN e
  ELSE IF e.key = r.key THEN [e EXCEPT !.floor = r.floor]
  ELSE [state |-> "record-conflict", key |-> NoKey, floor |-> FALSE]

(* observeDiscovery()                                                      *)
Observe(o, r) ==
  IF r = Absent THEN UNCHANGED <<entry, seen>>
  ELSE /\ entry' = [entry EXCEPT ![o] = Observed(@, r)]
       /\ seen' = [seen EXCEPT ![o] = @ \cup {r.key}]

(* verifyReceipt(): the destination signed it.                              *)
Verified(receipt) == receipt # Absent

(* Plausible bug: any receipt the destination signed for this origin will do. *)
ProofOfAny(i, receipt) ==
  IF Verified(receipt) /\ OriginOf[receipt.id] = OriginOf[i] THEN receipt.outcome ELSE "none"

(* verifyRoutedReceipt(): of this destination, for this very message.      *)
Proof(i, receipt) ==
  IF Verified(receipt) /\ receipt.id = i THEN receipt.outcome ELSE "none"

(* openRoutedResponse(): the destination sealed it, to this very message.   *)
Opens(i, reply) == reply = i

(* settleRoutedResponse(): a sealed request takes a sealed reply to it, or  *)
(* no content.                                                              *)
Body(i, refusal, reply) ==
  IF ~Sealed(i) THEN "clear"
  ELSE IF refusal THEN "none"
  ELSE IF Opens(i, reply) THEN "sealed" ELSE "withheld"

(* sendUnchecked() after its await: the pieces are the destination's, of    *)
(* any answer it ever made to anybody, in any combination.                  *)
Answer(i, refusal, record, receipt, reply) ==
  /\ Sent(i) /\ told[i] = Waiting
  /\ Observe(OriginOf[i], record)
  /\ told' = [told EXCEPT ![i] = [proof |-> Proof(i, receipt),
                                  body |-> Body(i, refusal, reply)]]
  /\ UNCHANGED <<tier0, sent, blessed, destVars, wireVars, events>>

(* The search finds no way, or its answer is lost.                          *)
NoAnswer(i) ==
  /\ Sent(i) /\ told[i] = Waiting
  /\ told' = [told EXCEPT ![i] = [proof |-> "none", body |-> "none"]]
  /\ UNCHANGED <<tier0, entry, sent, seen, blessed, destVars, wireVars, events>>

-----------------------------------------------------------------------------
(* The operators of the origins that send. *)

Senders == {OriginOf[i] : i \in Ids}

(* approveRoutedSeal()                                                      *)
Approve(o) ==
  /\ entry[o].state = "record-carried"
  /\ entry' = [entry EXCEPT ![o].state = "record-approved"]
  /\ blessed' = [blessed EXCEPT ![o] = @ \cup {entry[o].key}]
  /\ UNCHANGED <<tier0, sent, told, seen, destVars, wireVars, events>>

(* discardRoutedSeal()                                                      *)
Discard(o) ==
  /\ events < MaxEvents /\ events' = events + 1
  /\ entry[o].state # "none"
  /\ ForgetEntry(o)
  /\ UNCHANGED <<tier0, sent, told, destVars, wireVars>>

(* A walk reaches the destination, or its conflict is accepted, or it is    *)
(* forgotten: the directory's posture listener drops the Tier-1 entry.      *)
Walked(t) ==
  IF t.state = "unverified" \/ t.key = sealKey
  THEN {[state |-> "verified", key |-> sealKey]}
  ELSE {[t EXCEPT !.state = "conflict"], [state |-> "verified", key |-> sealKey]}

Walk(o) ==
  /\ events < MaxEvents /\ events' = events + 1
  /\ \E t \in Walked(tier0[o]) \cup {Unverified} : tier0' = [tier0 EXCEPT ![o] = t]
  /\ ForgetEntry(o)
  /\ UNCHANGED <<sent, told, destVars, wireVars>>

-----------------------------------------------------------------------------
(* A neighbour hands the destination a copy of a wrapper.                   *)

FreeSlot(c) == inFlight < MaxInFlight /\ byCaller[c] < MaxPerCaller

(* withRelaySlot() on the way in.                                           *)
TakeSlot(c) ==
  /\ FreeSlot(c)
  /\ inFlight' = inFlight + 1
  /\ byCaller' = [byCaller EXCEPT ![c] = @ + 1]

(* has(): its clear messages are refused.                                   *)
RequiresSeal(o) == o \in marked

(* openRoutedMessage(): why it turns a copy away, asked in this order.      *)
Floored(i) == ~Sealed(i) /\ floor
Downgrade(i) == ~Sealed(i) /\ RequiresSeal(OriginOf[i])
Duplicate(i) == i \in opened
ForOther(i) == Sealed(i) /\ sent[i].to # sealKey

Admits(i) == ~Floored(i) /\ ~Downgrade(i) /\ ~Duplicate(i) /\ ~ForOther(i)

(* Which of the refusals carry the record: a spoilt copy is found out after *)
(* the replay guard and before the seal is opened.                          *)
Teaches(i, intact) ==
  Floored(i) \/ Downgrade(i) \/ (intact /\ ~Duplicate(i) /\ ForOther(i))

(* signedDiscoveryRecord(), by a plugin with this floor.                    *)
SelfRecord(f) == [key |-> sealKey, floor |-> f]

(* signedReceipt(): what it says crosses relays from here on.               *)
Receipted(i, outcome) == receipts' = receipts \cup {[id |-> i, outcome |-> outcome]}

(* A refusal, with its receipt; the slot is taken and given back at once.   *)
Refuse(c, i, intact) ==
  /\ Sent(i)
  /\ FreeSlot(c)
  /\ intact => ~Admits(i)
  /\ Receipted(i, "refused")
  /\ records' = records \cup (IF Teaches(i, intact) THEN {SelfRecord(floor)} ELSE {})
  /\ UNCHANGED <<originVars, destVars, replies, events>>

(* persistNow() by way of the sidecar: a write that fails arms the retry.   *)
PersistNow(m) ==
  \/ onDisk' = m /\ degraded' = FALSE
  \/ degraded' = TRUE /\ UNCHANGED onDisk

(* Plausible bug: a marker that could not be written is not kept either. *)
ObserveIfWritten(o) ==
  IF o \in marked THEN UNCHANGED markVars
  ELSE IF Cardinality(marked) >= MaxMarked
  THEN /\ uncovered' = uncovered \cup {o}
       /\ UNCHANGED <<marked, onDisk, degraded>>
  ELSE \/ /\ marked' = marked \cup {o} /\ onDisk' = marked'
          /\ degraded' = FALSE /\ uncovered' = uncovered \ {o}
       \/ degraded' = TRUE /\ UNCHANGED <<marked, onDisk, uncovered>>

(* observeSealed(): the origin seals, so its clear messages are refused     *)
(* from here on.  A full store takes no new origin; a marker whose write    *)
(* fails is kept and its write tried again.                                 *)
ObserveSealed(o) ==
  IF o \in marked THEN UNCHANGED markVars
  ELSE IF Cardinality(marked) >= MaxMarked
  THEN /\ uncovered' = uncovered \cup {o}
       /\ UNCHANGED <<marked, onDisk, degraded>>
  ELSE /\ marked' = marked \cup {o}
       /\ uncovered' = uncovered \ {o}
       /\ PersistNow(marked \cup {o})

(* deliver() of the plugin up to its await.                                 *)
Accept(c, i) ==
  /\ Sent(i) /\ Admits(i)
  /\ TakeSlot(c)
  /\ opened' = opened \cup {i}
  /\ IF Sealed(i) THEN ObserveSealed(OriginOf[i]) ELSE UNCHANGED markVars
  /\ jobs' = jobs \cup {[id |-> i, caller |-> c, floor |-> floor, live |-> TRUE]}
  /\ UNCHANGED <<originVars, sealKey, floor, wireVars, events>>

(* The finally of withRelaySlot(), in the instance that took the slot.      *)
Release(j) ==
  /\ jobs' = jobs \ {j}
  /\ IF j.live THEN /\ inFlight' = inFlight - 1
                    /\ byCaller' = [byCaller EXCEPT ![j.caller] = @ - 1]
     ELSE UNCHANGED slotVars

(* sealRoutedResponse(): to a sealed message, unless it does not fit.       *)
SealReply(i) ==
  \/ Sealed(i) /\ replies' = replies \cup {i}
  \/ UNCHANGED replies

(* deliver() after its await: receipt, record and reply.                    *)
Reply(j) ==
  /\ Receipted(j.id, "delivered")
  /\ records' = records \cup {SelfRecord(j.floor)}
  /\ SealReply(j.id)
  /\ Release(j)
  /\ UNCHANGED <<originVars, sealKey, floor, opened, markVars, events>>

(* Plausible bug: the slot is given back on the way out, not in a finally. *)
FailsKeepsSlot(j) ==
  /\ jobs' = jobs \ {j}
  /\ UNCHANGED <<originVars, sealKey, floor, opened, markVars, slotVars, wireVars, events>>

(* The consumer throws: the message stays admitted and nobody is answered.  *)
ConsumerFails(j) ==
  /\ Release(j)
  /\ UNCHANGED <<originVars, sealKey, floor, opened, markVars, wireVars, events>>

Finish(j) == Reply(j) \/ ConsumerFails(j)

-----------------------------------------------------------------------------
(* The destination's own life.                                              *)

(* A reload builds a new plugin: its slots are its own, the replay guard    *)
(* and the stores are the process's.                                        *)
Reload(f) ==
  /\ events < MaxEvents /\ events' = events + 1
  /\ floor' = f
  /\ inFlight' = 0 /\ byCaller' = [c \in Callers |-> 0]
  /\ jobs' = {[j EXCEPT !.live = FALSE] : j \in jobs}
  /\ UNCHANGED <<originVars, sealKey, opened, markVars, wireVars>>

(* The store starts with what its file holds.                               *)
Rehydrated == onDisk

(* The process dies and comes back, with another sealing key perhaps.       *)
Crash(k) ==
  /\ events < MaxEvents /\ events' = events + 1
  /\ sealKey' = k
  /\ jobs' = {}
  /\ inFlight' = 0 /\ byCaller' = [c \in Callers |-> 0]
  /\ marked' = Rehydrated /\ uncovered' = uncovered \cup (marked \ onDisk)
  /\ degraded' = FALSE
  /\ UNCHANGED <<originVars, floor, opened, onDisk, wireVars>>

(* The retry of makeSidecarDurability() writes the whole snapshot.          *)
RetryPersist ==
  /\ degraded
  /\ onDisk' = marked /\ degraded' = FALSE
  /\ UNCHANGED <<originVars, sealKey, floor, opened, marked, uncovered, jobs,
                 slotVars, wireVars, events>>

-----------------------------------------------------------------------------

OriginStep ==
  \/ \E o \in Senders :
       \/ \E data, public \in BOOLEAN : Send(o, data, public)
       \/ Approve(o) \/ Discard(o) \/ Walk(o)
  \/ \E i \in Ids :
       \/ NoAnswer(i)
       \/ \E refusal \in BOOLEAN, record \in records \cup {Absent},
            receipt \in receipts \cup {Absent}, reply \in replies \cup {Absent} :
              Answer(i, refusal, record, receipt, reply)

DestinationStep ==
  \/ \E c \in Callers, i \in Ids :
       Accept(c, i) \/ \E intact \in BOOLEAN : Refuse(c, i, intact)
  \/ \E j \in jobs : Reply(j) \/ ConsumerFails(j)
  \/ \E f \in BOOLEAN : Reload(f)
  \/ \E k \in SealKeys : Crash(k)
  \/ RetryPersist

Next == OriginStep \/ DestinationStep

(* The consumer of a delivered message returns or throws: the daemon's own  *)
(* is a plain function.                                                     *)
Fairness == \A i \in Ids : WF_vars(\E j \in jobs : j.id = i /\ Finish(j))

Spec == Init /\ [][Next]_vars /\ Fairness

-----------------------------------------------------------------------------
(* Properties. *)

Promise == INSTANCE RoutedPromise WITH
  asked <- {i \in Ids : Sent(i) /\ Sealed(i)},
  public <- {i \in Ids : Sent(i) /\ ~Sealed(i)},
  accepted <- opened,
  refused <- {i \in Ids : [id |-> i, outcome |-> "refused"] \in receipts},
  answered <- replies

(* Whatever relays keep, drop, spoil, repeat or mix, a send reports once,   *)
(* what it calls proved of the destination happened to this very message,   *)
(* and nothing but the destination's sealed reply to it stands for the      *)
(* reply to a sealed request.                                               *)
PromiseKept == Promise!Spec

(* routePlugin.js marks an origin before it delivers: once a sealed message *)
(* of it was accepted no clear one is, across restarts and reloads, unless  *)
(* the store was full or the process died with the marker not yet written.  *)
FloorHolds ==
  [][\A i \in opened' \ opened :
       ~Sealed(i) => \A j \in opened :
         OriginOf[j] = OriginOf[i] /\ Sealed(j) => OriginOf[i] \in uncovered]_vars

(* A payload leaves in the clear only if its caller said public; and what   *)
(* is sealed is sealed to a key of a walk, or to one a person approved *)
(* while every record seen since the entry was last dropped names that key: *)
(* old records a relay replays can take a key away, and cannot give one.    *)
DataIsSealed ==
  [][\A i \in Ids : sent'[i] # sent[i] =>
       LET o == OriginOf[i]  k == sent'[i].to IN
       IF k = "clear" THEN sent'[i].public
       ELSE \/ tier0[o] = [state |-> "verified", key |-> k]
            \/ tier0[o] = Unverified /\ seen[o] = {k} /\ k \in blessed[o]]_vars

(* Every slot a neighbour took is given back, whether the consumer returns, *)
(* throws, or finishes after a reload replaced the plugin that counted it.  *)
SlotsComeBack == []<>(\A c \in Callers : FreeSlot(c))
=============================================================================
