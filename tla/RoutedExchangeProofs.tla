-------------------------- MODULE RoutedExchangeProofs --------------------------
(***************************************************************************)
(* What holds of RoutedExchange for any origins, neighbours, message ids,  *)
(* sealing keys and limits: payloads are sealed to keys that were verified *)
(* or approved, an origin that sealed is not downgraded, and what a send   *)
(* reports is what happened to its message.                                *)
(***************************************************************************)
EXTENDS RoutedExchange, TLAPS

(* The types the arguments below need. *)
TypeInv ==
  /\ tier0 \in [Origins -> Posture]
  /\ entry \in [Origins -> Entry]
  /\ sent \in [Ids -> Wrapper \cup {Unsent}]
  /\ DOMAIN told = Ids
  /\ seen \in [Origins -> SUBSET SealKeys]
  /\ blessed \in [Origins -> SUBSET SealKeys]
  /\ sealKey \in SealKeys
  /\ floor \in BOOLEAN
  /\ opened \subseteq Ids
  /\ jobs \subseteq Job
  /\ receipts \subseteq Receipt
  /\ records \subseteq Record
  /\ replies \subseteq Ids

(* An entry that could be approved, or was, names the only key that any    *)
(* record showed since the last forget, and an approved one that a person  *)
(* approved; Tier 0 that is not blank has a key.                           *)
OnlyKey(o) == entry[o].key \in SealKeys /\ seen[o] = {entry[o].key}

KeyInv ==
  \A o \in Origins :
    /\ tier0[o].state = "unverified" => tier0[o] = Unverified
    /\ tier0[o].state # "unverified" => tier0[o].key \in SealKeys
    /\ entry[o].state = "none" => entry[o] = NoEntry /\ seen[o] = {}
    /\ entry[o].state = "record-carried" => OnlyKey(o)
    /\ entry[o].state = "record-approved" =>
         OnlyKey(o) /\ entry[o].key \in blessed[o]

SealInv == TypeInv /\ KeyInv

-----------------------------------------------------------------------------
(* What the origin's operators return. *)

LEMMA SenderType == ASSUME NEW i \in Ids PROVE OriginOf[i] \in Origins
BY ExchangeAssumption

LEMMA SendersAreOrigins == Senders \subseteq Origins
BY SenderType DEF Senders

LEMMA ConstantTypes ==
  /\ Unverified \in Posture
  /\ NoEntry \in Entry
  /\ \A k \in SealKeys : Approved(k) \in Entry
BY DEF Unverified, Posture, NoEntry, Entry, Approved

(* A payload goes in the clear only when its caller allowed it, and else   *)
(* to the key of a walk or of an approved entry.                           *)
LEMMA ResolvedIsJustified ==
  ASSUME SealInv, NEW o \in Origins, NEW ok \in BOOLEAN,
         ResolvedSeal(o, ok) # "refuse"
  PROVE  \/ ok /\ ResolvedSeal(o, ok) = "clear"
         \/ /\ ResolvedSeal(o, ok) \in SealKeys
            /\ \/ tier0[o] = [state |-> "verified", key |-> ResolvedSeal(o, ok)]
               \/ /\ tier0[o] = Unverified
                  /\ seen[o] = {ResolvedSeal(o, ok)}
                  /\ ResolvedSeal(o, ok) \in blessed[o]
<1>1. CASE ok
  BY <1>1 DEF ResolvedSeal
<1>2. CASE ~ok /\ tier0[o].state = "verified"
  <2>1. tier0[o] \in Posture
    BY DEF SealInv, TypeInv
  <2>2. tier0[o] = [state |-> tier0[o].state, key |-> tier0[o].key]
    BY <2>1 DEF Posture
  <2>3. ResolvedSeal(o, ok) = tier0[o].key
    BY <1>2 DEF ResolvedSeal
  <2> QED BY <1>2, <2>2, <2>3 DEF SealInv, KeyInv
<1>3. CASE /\ ~ok
           /\ tier0[o].state = "unverified"
           /\ entry[o].state = "record-approved"
  <2>1. ResolvedSeal(o, ok) = entry[o].key
    BY <1>3 DEF ResolvedSeal
  <2> QED BY <1>3, <2>1 DEF SealInv, KeyInv, OnlyKey
<1> QED BY <1>1, <1>2, <1>3 DEF ResolvedSeal

(* A record leaves an entry an entry. *)
LEMMA ObservedType ==
  ASSUME NEW e \in Entry, NEW r \in Record
  PROVE  Observed(e, r) \in Entry
<1>1. r.key \in SealKeys /\ r.floor \in BOOLEAN
  BY DEF Record
<1>2. Learned(r) \in Entry
  BY <1>1 DEF Learned, Entry
<1>3. [e EXCEPT !.floor = r.floor] \in Entry
  BY <1>1 DEF Entry
<1>4. [state |-> "record-conflict", key |-> NoKey, floor |-> FALSE] \in Entry
  BY DEF Entry
<1> QED BY <1>2, <1>3, <1>4 DEF Observed

-----------------------------------------------------------------------------
(* The invariant of the origins' stores. *)

LEMMA InitSeal == Init => SealInv
<1> SUFFICES ASSUME Init PROVE SealInv
  OBVIOUS
<1>1. tier0 \in [Origins -> Posture] /\ entry \in [Origins -> Entry]
  BY ConstantTypes DEF Init
<1>2. \A o \in Origins : \/ entry[o] = NoEntry
                         \/ \E k \in SealKeys : entry[o] = Approved(k)
  BY DEF Init
<1>3. \A o \in Origins : seen[o] = {entry[o].key} \ {NoKey} /\ blessed[o] = seen[o]
  BY DEF Init
<1>4. NoKey \notin SealKeys
  BY ExchangeAssumption
<1>5. \A o \in Origins : entry[o].key \in SealKeys \cup {NoKey}
  BY <1>1 DEF Entry
<1>6. seen \in [Origins -> SUBSET SealKeys]
  BY <1>5 DEF Init
<1>7. TypeInv
  BY <1>1, <1>6 DEF Init, TypeInv
<1>8. ASSUME NEW o \in Origins, entry[o] = NoEntry
      PROVE  entry[o].state = "none" /\ seen[o] = {}
  BY <1>3, <1>8 DEF NoEntry
<1>9. ASSUME NEW o \in Origins, NEW k \in SealKeys, entry[o] = Approved(k)
      PROVE  /\ entry[o].state = "record-approved" /\ entry[o].key = k
             /\ seen[o] = {k} /\ k \in blessed[o]
  BY <1>3, <1>4, <1>9 DEF Approved
<1>10. \A o \in Origins : tier0[o] = Unverified /\ Unverified.state = "unverified"
  BY DEF Init, Unverified
<1>11. KeyInv
  BY <1>2, <1>8, <1>9, <1>10 DEF KeyInv, OnlyKey
<1> QED BY <1>7, <1>11 DEF SealInv

(* What one origin forgets concerns that origin. *)
LEMMA ForgetKeeps ==
  ASSUME SealInv, NEW o \in Origins, ForgetEntry(o)
  PROVE  /\ entry' \in [Origins -> Entry]
         /\ seen' \in [Origins -> SUBSET SealKeys]
         /\ blessed' \in [Origins -> SUBSET SealKeys]
         /\ entry'[o] = NoEntry /\ seen'[o] = {}
         /\ \A x \in Origins \ {o} :
              entry'[x] = entry[x] /\ seen'[x] = seen[x] /\ blessed'[x] = blessed[x]
BY ConstantTypes DEF ForgetEntry, SealInv, TypeInv

(* Nor does a record for one disturb another. *)
LEMMA ObserveKeeps ==
  ASSUME SealInv, NEW o \in Origins, NEW r \in Record \cup {Absent}, Observe(o, r),
         UNCHANGED <<tier0, blessed>>
  PROVE  /\ entry' \in [Origins -> Entry]
         /\ seen' \in [Origins -> SUBSET SealKeys]
         /\ KeyInv'
<1>0. /\ entry \in [Origins -> Entry] /\ entry[o] \in Entry
      /\ seen \in [Origins -> SUBSET SealKeys]
  BY DEF SealInv, TypeInv
<1>1. CASE r = Absent
  <2>1. entry' = entry /\ seen' = seen
    BY <1>1 DEF Observe
  <2> QED BY <1>0, <2>1 DEF SealInv, KeyInv, OnlyKey
<1>2. CASE r # Absent
  <2>1. r \in Record /\ r.key \in SealKeys
    BY <1>2 DEF Record
  <2>2. /\ entry' = [entry EXCEPT ![o] = Observed(entry[o], r)]
        /\ seen' = [seen EXCEPT ![o] = @ \cup {r.key}]
    BY <1>2 DEF Observe
  <2>3. entry' \in [Origins -> Entry] /\ seen' \in [Origins -> SUBSET SealKeys]
    BY <1>0, <2>1, <2>2, ObservedType
  <2>4. entry'[o] = Observed(entry[o], r) /\ seen'[o] = seen[o] \cup {r.key}
    BY <1>0, <2>2
  <2>5. CASE entry[o].state = "none"
    <3>1. entry'[o] = Learned(r) /\ seen'[o] = {r.key}
      BY <2>4, <2>5 DEF Observed, SealInv, KeyInv
    <3>2. entry'[o].state = "record-carried" /\ entry'[o].key = r.key
      BY <3>1 DEF Learned
    <3> QED BY <1>0, <2>1, <2>2, <2>3, <3>1, <3>2 DEF SealInv, KeyInv, OnlyKey
  <2>6. CASE entry[o].state = "record-conflict"
    <3>1. entry'[o].state = "record-conflict"
      BY <2>4, <2>6 DEF Observed
    <3> QED BY <1>0, <2>2, <2>3, <3>1 DEF SealInv, KeyInv, OnlyKey
  <2>7. CASE /\ entry[o].state \in {"record-carried", "record-approved"}
             /\ entry[o].key = r.key
    <3>1. entry'[o] = [entry[o] EXCEPT !.floor = r.floor]
      BY <2>4, <2>7 DEF Observed
    <3>2. entry'[o].state = entry[o].state /\ entry'[o].key = entry[o].key
      BY <1>0, <3>1 DEF Entry
    <3>3. seen[o] = {r.key}
      BY <2>7 DEF SealInv, KeyInv, OnlyKey
    <3>4. seen'[o] = seen[o]
      BY <2>4, <3>3
    <3> QED BY <1>0, <2>2, <2>3, <2>7, <3>2, <3>4 DEF SealInv, KeyInv, OnlyKey
  <2>8. CASE /\ entry[o].state \in {"record-carried", "record-approved"}
             /\ entry[o].key # r.key
    <3>1. entry'[o].state = "record-conflict"
      BY <2>4, <2>8 DEF Observed
    <3> QED BY <1>0, <2>2, <2>3, <3>1 DEF SealInv, KeyInv, OnlyKey
  <2>9. entry[o].state \in {"none", "record-carried", "record-approved", "record-conflict"}
    BY <1>0 DEF Entry
  <2> QED BY <2>3, <2>5, <2>6, <2>7, <2>8, <2>9
<1> QED BY <1>1, <1>2
(* A wrapper is made under an id of its origin's that was not used, and is *)
(* sealed to a key that the origin's stores justify.                       *)
Makes(o, public, i, to) ==
  /\ OriginOf[i] = o /\ sent[i] = Unsent
  /\ sent' = [sent EXCEPT ![i] = [public |-> public, to |-> to]]
  /\ to = "clear" => public
  /\ to # "clear" =>
       \/ tier0[o] = [state |-> "verified", key |-> to]
       \/ tier0[o] = Unverified /\ seen[o] = {to} /\ to \in blessed[o]

LEMMA SendMakes ==
  ASSUME SealInv, NEW o \in Origins, NEW data \in BOOLEAN, NEW public \in BOOLEAN,
         Send(o, data, public)
  PROVE  \/ sent' = sent
         \/ \E i \in Ids, to \in SealKeys \cup {"clear"} : Makes(o, public, i, to)
<1> DEFINE ok == public /\ ~Demoted(o, data)
           to == ResolvedSeal(o, ok)
<1>1. CASE to = "refuse"
  BY <1>1 DEF Send
<1>2. CASE to # "refuse"
  <2>1. PICK i \in Ids : /\ OriginOf[i] = o /\ sent[i] = Unsent
                         /\ sent' = [sent EXCEPT ![i] = [public |-> public, to |-> to]]
    BY <1>2 DEF Send, Fresh, Sent
  <2>2. ok \in BOOLEAN
    BY DEF Demoted
  <2>3. \/ ok /\ to = "clear"
        \/ /\ to \in SealKeys
           /\ \/ tier0[o] = [state |-> "verified", key |-> to]
              \/ tier0[o] = Unverified /\ seen[o] = {to} /\ to \in blessed[o]
    BY <1>2, <2>2, ResolvedIsJustified
  <2>4. "clear" \notin SealKeys
    BY ExchangeAssumption
  <2> HIDE DEF to
  <2>5. to \in SealKeys \cup {"clear"} /\ (to = "clear" => public)
    BY <2>3, <2>4
  <2>6. to # "clear" =>
          \/ tier0[o] = [state |-> "verified", key |-> to]
          \/ tier0[o] = Unverified /\ seen[o] = {to} /\ to \in blessed[o]
    BY <2>3
  <2> QED BY <2>1, <2>5, <2>6 DEF Makes
<1> QED BY <1>1, <1>2
(* What the origins hold is changed by the origins alone. *)
LEMMA OriginVarsKeep ==
  ASSUME SealInv, UNCHANGED <<tier0, entry, seen, blessed>>
  PROVE  KeyInv'
BY DEF SealInv, KeyInv, OnlyKey

(* Every step keeps the types.                                             *)
LEMMA StepTypes == SealInv /\ [Next]_vars => TypeInv'
<1> SUFFICES ASSUME SealInv, [Next]_vars PROVE TypeInv'
  OBVIOUS
<1> USE DEF SealInv
<1>1. ASSUME NEW o \in Senders, NEW data \in BOOLEAN, NEW public \in BOOLEAN,
             Send(o, data, public)
      PROVE  TypeInv'
  <2>1. o \in Origins
    BY SendersAreOrigins
  <2>2. sent' \in [Ids -> Wrapper \cup {Unsent}]
    <3>1. CASE sent' = sent
      BY <3>1 DEF TypeInv
    <3>2. ASSUME NEW i \in Ids, NEW to \in SealKeys \cup {"clear"},
                 Makes(o, public, i, to)
          PROVE  sent' \in [Ids -> Wrapper \cup {Unsent}]
      <4>1. [public |-> public, to |-> to] \in Wrapper
        BY DEF Wrapper
      <4> QED BY <3>2, <4>1 DEF Makes, TypeInv
    <3> QED BY <1>1, <2>1, <3>1, <3>2, SendMakes
  <2>3. /\ entry' \in [Origins -> Entry]
        /\ seen' \in [Origins -> SUBSET SealKeys]
        /\ blessed' \in [Origins -> SUBSET SealKeys]
    BY <1>1, <2>1, ForgetKeeps DEF Send, TypeInv
  <2> QED BY <1>1, <2>2, <2>3 DEF Send, TypeInv, destVars, wireVars, markVars
<1>2. ASSUME NEW o \in Senders, Approve(o) PROVE TypeInv'
  <2>1. o \in Origins /\ entry[o] \in Entry
    BY SendersAreOrigins DEF TypeInv
  <2>2. [entry[o] EXCEPT !.state = "record-approved"] \in Entry
    BY <2>1 DEF Entry
  <2>3. entry[o].key \in SealKeys
    BY <1>2, <2>1 DEF Approve, KeyInv, OnlyKey
  <2>4. entry' \in [Origins -> Entry] /\ blessed' \in [Origins -> SUBSET SealKeys]
    BY <1>2, <2>1, <2>2, <2>3 DEF Approve, TypeInv
  <2> QED BY <1>2, <2>4 DEF Approve, TypeInv, destVars, wireVars, markVars
<1>3. ASSUME NEW o \in Senders, Discard(o) PROVE TypeInv'
  <2>1. o \in Origins /\ ForgetEntry(o)
    BY <1>3, SendersAreOrigins DEF Discard
  <2> QED BY <1>3, <2>1, ForgetKeeps DEF Discard, TypeInv, destVars, wireVars, markVars
<1>4. ASSUME NEW o \in Senders, Walk(o) PROVE TypeInv'
  <2>1. o \in Origins /\ ForgetEntry(o)
    BY <1>4, SendersAreOrigins DEF Walk
  <2>2. PICK t \in Walked(tier0[o]) \cup {Unverified} : tier0' = [tier0 EXCEPT ![o] = t]
    BY <1>4 DEF Walk
  <2>3. tier0[o] \in Posture /\ sealKey \in SealKeys
    BY <2>1 DEF TypeInv
  <2>4. t \in Posture
    BY <2>2, <2>3, ConstantTypes DEF Walked, Posture
  <2>5. tier0' \in [Origins -> Posture]
    BY <2>2, <2>4 DEF TypeInv
  <2> QED BY <1>4, <2>1, <2>5, ForgetKeeps DEF Walk, TypeInv, destVars, wireVars, markVars
<1>5. ASSUME NEW i \in Ids, NoAnswer(i) PROVE TypeInv'
  BY <1>5 DEF NoAnswer, TypeInv, destVars, wireVars, markVars
<1>6. ASSUME NEW i \in Ids, NEW refusal, NEW record \in records \cup {Absent},
             NEW receipt, NEW reply, Answer(i, refusal, record, receipt, reply)
      PROVE  TypeInv'
  <2>1. OriginOf[i] \in Origins /\ record \in Record \cup {Absent}
    BY SenderType DEF TypeInv
  <2>2. Observe(OriginOf[i], record) /\ UNCHANGED <<tier0, blessed>>
    BY <1>6 DEF Answer
  <2>3. entry' \in [Origins -> Entry] /\ seen' \in [Origins -> SUBSET SealKeys]
    BY <2>1, <2>2, ObserveKeeps
  <2> QED BY <1>6, <2>3 DEF Answer, TypeInv, destVars, wireVars, markVars
<1>7. ASSUME NEW c \in Callers, NEW i \in Ids, Accept(c, i) PROVE TypeInv'
  <2>1. [id |-> i, caller |-> c, floor |-> floor, live |-> TRUE] \in Job
    BY DEF Job, TypeInv
  <2> QED BY <1>7, <2>1 DEF Accept, TypeInv, originVars, wireVars
<1>8. ASSUME NEW c \in Callers, NEW i \in Ids, NEW intact \in BOOLEAN,
             Refuse(c, i, intact)
      PROVE  TypeInv'
  <2>1. [id |-> i, outcome |-> "refused"] \in Receipt /\ SelfRecord(floor) \in Record
    BY DEF Receipt, Record, SelfRecord, TypeInv
  <2> QED BY <1>8, <2>1 DEF Refuse, Receipted, TypeInv, originVars, destVars, markVars
<1>9. ASSUME NEW j \in jobs, Reply(j) PROVE TypeInv'
  <2>1. j.id \in Ids /\ j.floor \in BOOLEAN
    BY DEF Job, TypeInv
  <2>2. [id |-> j.id, outcome |-> "delivered"] \in Receipt /\ SelfRecord(j.floor) \in Record
    BY <2>1 DEF Receipt, Record, SelfRecord, TypeInv
  <2> QED BY <1>9, <2>1, <2>2
          DEF Reply, Receipted, SealReply, Release, TypeInv, originVars, markVars
<1>10. ASSUME NEW j \in jobs, ConsumerFails(j) PROVE TypeInv'
  BY <1>10 DEF ConsumerFails, Release, TypeInv, originVars, wireVars, markVars
<1>11. ASSUME NEW f \in BOOLEAN, Reload(f) PROVE TypeInv'
  <2>1. \A j \in jobs : [j EXCEPT !.live = FALSE] \in Job
    BY DEF Job, TypeInv
  <2> QED BY <1>11, <2>1 DEF Reload, TypeInv, originVars, wireVars, markVars
<1>12. ASSUME NEW k \in SealKeys, Crash(k) PROVE TypeInv'
  BY <1>12 DEF Crash, TypeInv, originVars, wireVars
<1>13. CASE RetryPersist
  BY <1>13 DEF RetryPersist, TypeInv, originVars, wireVars
<1>14. CASE UNCHANGED vars
  BY <1>14 DEF vars, TypeInv, originVars, destVars, wireVars, markVars
<1> QED
  BY <1>1, <1>2, <1>3, <1>4, <1>5, <1>6, <1>7, <1>8, <1>9, <1>10, <1>11, <1>12,
     <1>13, <1>14
  DEF Next, OriginStep, DestinationStep

(* And what the entries and postures say of keys.                          *)
LEMMA StepKeys == SealInv /\ [Next]_vars => KeyInv'
<1> SUFFICES ASSUME SealInv, [Next]_vars PROVE KeyInv'
  OBVIOUS
<1> USE DEF SealInv
<1>1. ASSUME NEW o \in Origins, ForgetEntry(o),
             tier0'[o].state = "unverified" => tier0'[o] = Unverified,
             tier0'[o].state # "unverified" => tier0'[o].key \in SealKeys,
             \A x \in Origins \ {o} : tier0'[x] = tier0[x]
      PROVE  KeyInv'
  <2>1. entry'[o] = NoEntry /\ seen'[o] = {} /\ NoEntry.state = "none"
    BY <1>1, ForgetKeeps DEF NoEntry
  <2>2. \A x \in Origins \ {o} :
          entry'[x] = entry[x] /\ seen'[x] = seen[x] /\ blessed'[x] = blessed[x]
    BY <1>1, ForgetKeeps
  <2> QED BY <1>1, <2>1, <2>2 DEF KeyInv, OnlyKey
<1>2. ASSUME NEW o \in Senders, NEW data \in BOOLEAN, NEW public \in BOOLEAN,
             Send(o, data, public)
      PROVE  KeyInv'
  <2>1. o \in Origins /\ tier0' = tier0
    BY <1>2, SendersAreOrigins DEF Send
  <2>2. CASE ForgetEntry(o)
    BY <1>1, <2>1, <2>2 DEF KeyInv
  <2>3. CASE UNCHANGED <<entry, seen, blessed>>
    BY <2>1, <2>3, OriginVarsKeep
  <2> QED BY <1>2, <2>2, <2>3 DEF Send
<1>3. ASSUME NEW o \in Senders, Approve(o) PROVE KeyInv'
  <2>1. o \in Origins /\ entry[o] \in Entry /\ entry[o].state = "record-carried"
    BY <1>3, SendersAreOrigins DEF Approve, TypeInv
  <2>2. OnlyKey(o)
    BY <2>1 DEF KeyInv
  <2>3. /\ entry' = [entry EXCEPT ![o] = [entry[o] EXCEPT !.state = "record-approved"]]
        /\ blessed' = [blessed EXCEPT ![o] = @ \cup {entry[o].key}]
        /\ UNCHANGED <<tier0, seen>>
    BY <1>3 DEF Approve
  <2>4. entry'[o] = [entry[o] EXCEPT !.state = "record-approved"]
    BY <2>1, <2>3 DEF TypeInv
  <2>5. entry'[o].state = "record-approved" /\ entry'[o].key = entry[o].key
    BY <2>1, <2>4 DEF Entry
  <2>6. entry[o].key \in blessed'[o]
    BY <2>1, <2>3 DEF TypeInv
  <2>7. \A x \in Origins \ {o} : entry'[x] = entry[x] /\ blessed'[x] = blessed[x]
    BY <2>3 DEF TypeInv
  <2> QED BY <2>2, <2>3, <2>5, <2>6, <2>7 DEF KeyInv, OnlyKey
<1>4. ASSUME NEW o \in Senders, Discard(o) PROVE KeyInv'
  <2>1. o \in Origins /\ ForgetEntry(o) /\ tier0' = tier0
    BY <1>4, SendersAreOrigins DEF Discard
  <2> QED BY <1>1, <2>1 DEF KeyInv
<1>5. ASSUME NEW o \in Senders, Walk(o) PROVE KeyInv'
  <2>1. o \in Origins /\ ForgetEntry(o)
    BY <1>5, SendersAreOrigins DEF Walk
  <2>2. PICK t \in Walked(tier0[o]) \cup {Unverified} : tier0' = [tier0 EXCEPT ![o] = t]
    BY <1>5 DEF Walk
  <2>3. tier0[o] \in Posture /\ sealKey \in SealKeys
    BY <2>1 DEF TypeInv
  <2>4. CASE t = Unverified
    BY <1>1, <2>1, <2>2, <2>4 DEF TypeInv, Unverified
  <2>5. CASE t = [state |-> "verified", key |-> sealKey]
    <3>1. tier0'[o].state = "verified" /\ tier0'[o].key = sealKey
      BY <2>1, <2>2, <2>5 DEF TypeInv
    <3> QED BY <1>1, <2>1, <2>2, <2>3, <3>1 DEF TypeInv
  <2>6. CASE t = [tier0[o] EXCEPT !.state = "conflict"] /\ tier0[o].state # "unverified"
    <3>1. tier0[o].key \in SealKeys
      BY <2>1, <2>6 DEF KeyInv
    <3>2. tier0'[o] = [tier0[o] EXCEPT !.state = "conflict"]
      BY <2>1, <2>2, <2>6 DEF TypeInv
    <3>3. tier0'[o].state = "conflict" /\ tier0'[o].key = tier0[o].key
      BY <2>3, <3>2 DEF Posture
    <3> QED BY <1>1, <2>1, <2>2, <3>1, <3>3 DEF TypeInv
  <2> QED BY <2>2, <2>4, <2>5, <2>6 DEF Walked
<1>6. ASSUME NEW i \in Ids, NoAnswer(i) PROVE KeyInv'
  BY <1>6, OriginVarsKeep DEF NoAnswer
<1>7. ASSUME NEW i \in Ids, NEW refusal, NEW record \in records \cup {Absent},
             NEW receipt, NEW reply, Answer(i, refusal, record, receipt, reply)
      PROVE  KeyInv'
  <2>1. OriginOf[i] \in Origins /\ record \in Record \cup {Absent}
    BY SenderType DEF TypeInv
  <2>2. Observe(OriginOf[i], record) /\ UNCHANGED <<tier0, blessed>>
    BY <1>7 DEF Answer
  <2> QED BY <2>1, <2>2, ObserveKeeps
<1>8. CASE UNCHANGED originVars
  BY <1>8, OriginVarsKeep DEF originVars
<1>9. CASE DestinationStep \/ UNCHANGED vars
  BY <1>8, <1>9 DEF DestinationStep, Accept, Refuse, Reply, ConsumerFails, Reload,
     Crash, RetryPersist, vars
<1> QED
  BY <1>2, <1>3, <1>4, <1>5, <1>6, <1>7, <1>9 DEF Next, OriginStep

(* The only key any record has shown since the last forget is the key of   *)
(* every entry that can be or was approved (routedKeyStore.js).            *)
THEOREM EntriesHoldTheOnlyKey == Spec => []SealInv
<1>1. SealInv /\ [Next]_vars => SealInv'
  BY StepTypes, StepKeys DEF SealInv
<1> QED BY <1>1, InitSeal, PTL DEF Spec
-----------------------------------------------------------------------------
(* Confidentiality. *)

(* A payload leaves in the clear only if its caller said so; what is sealed *)
(* is sealed to the key of a walk, or to one a person approved while no    *)
(* other was ever shown: what relays keep and replay cannot give a key.    *)
THEOREM DataIsSealedHolds == Spec => DataIsSealed
<1> DEFINE Justified ==
      \A i \in Ids : sent'[i] # sent[i] =>
        LET o == OriginOf[i]  k == sent'[i].to IN
        IF k = "clear" THEN sent'[i].public
        ELSE \/ tier0[o] = [state |-> "verified", key |-> k]
             \/ tier0[o] = Unverified /\ seen[o] = {k} /\ k \in blessed[o]
<1>1. SealInv /\ [Next]_vars => [Justified]_vars
  <2> SUFFICES ASSUME SealInv, [Next]_vars PROVE Justified
    OBVIOUS
  <2>1. CASE sent' = sent
    BY <2>1
  <2>2. ASSUME NEW o \in Senders, NEW data \in BOOLEAN, NEW public \in BOOLEAN,
               Send(o, data, public)
        PROVE  Justified
    <3>1. o \in Origins
      BY SendersAreOrigins
    <3>2. CASE sent' = sent
      BY <3>2
    <3>3. ASSUME NEW i \in Ids, NEW to \in SealKeys \cup {"clear"},
                 Makes(o, public, i, to)
          PROVE  Justified
      <4>1. /\ sent'[i] = [public |-> public, to |-> to]
            /\ \A x \in Ids \ {i} : sent'[x] = sent[x]
        BY <3>3 DEF Makes, SealInv, TypeInv
      <4>2. sent'[i].public = public /\ sent'[i].to = to
        BY <4>1
      <4> QED BY <3>3, <4>1, <4>2 DEF Makes
    <3> HIDE DEF Justified
    <3> QED BY <2>2, <3>1, <3>2, <3>3, SendMakes
  <2>3. CASE DestinationStep \/ UNCHANGED vars
    BY <2>1, <2>3 DEF DestinationStep, Accept, Refuse, Reply, ConsumerFails, Reload,
       Crash, RetryPersist, vars, originVars
  <2>4. ASSUME NEW o \in Senders, Approve(o) \/ Discard(o) \/ Walk(o)
        PROVE  sent' = sent
    BY <2>4 DEF Approve, Discard, Walk
  <2>5. ASSUME NEW i \in Ids, NEW refusal, NEW record, NEW receipt, NEW reply,
               NoAnswer(i) \/ Answer(i, refusal, record, receipt, reply)
        PROVE  sent' = sent
    BY <2>5 DEF NoAnswer, Answer
  <2> HIDE DEF Justified
  <2> QED BY <2>1, <2>2, <2>3, <2>4, <2>5 DEF Next, OriginStep
<1> QED BY <1>1, EntriesHoldTheOnlyKey, PTL DEF Spec, DataIsSealed
-----------------------------------------------------------------------------
(* The destination and the wire. *)

(* What was accepted was sent, what is being consumed was accepted, and    *)
(* what has crossed relays with a signature was true when it was signed.   *)
WireInv ==
  /\ \A i \in opened : Sent(i)
  /\ \A j \in jobs : j.id \in opened
  /\ \A r \in receipts : r.outcome = "delivered" => r.id \in opened
  /\ \A r \in receipts : Sent(r.id)
  /\ \A i \in replies : i \in opened /\ Sealed(i)

(* An origin whose sealed message was accepted is marked, or known to have *)
(* lost its marker.                                                        *)
FloorInv ==
  \A j \in opened : Sealed(j) => OriginOf[j] \in marked \cup uncovered

DestInv == SealInv /\ WireInv /\ FloorInv

(* A wrapper is never made again. *)
LEMMA SentStays ==
  ASSUME SealInv, [Next]_vars
  PROVE  \A i \in Ids : Sent(i) => sent'[i] = sent[i]
<1>1. ASSUME NEW o \in Senders, NEW data \in BOOLEAN, NEW public \in BOOLEAN,
             Send(o, data, public)
      PROVE  \A i \in Ids : Sent(i) => sent'[i] = sent[i]
  <2>1. o \in Origins
    BY SendersAreOrigins
  <2>2. ASSUME NEW i \in Ids, NEW to \in SealKeys \cup {"clear"}, Makes(o, public, i, to)
        PROVE  \A x \in Ids : Sent(x) => sent'[x] = sent[x]
    BY <2>2 DEF Makes, Sent, SealInv, TypeInv
  <2> QED BY <1>1, <2>1, <2>2, SendMakes
<1>2. ASSUME NEW o \in Senders, Approve(o) \/ Discard(o) \/ Walk(o)
      PROVE  sent' = sent
  BY <1>2 DEF Approve, Discard, Walk
<1>3. ASSUME NEW i \in Ids, NEW refusal, NEW record, NEW receipt, NEW reply,
             NoAnswer(i) \/ Answer(i, refusal, record, receipt, reply)
      PROVE  sent' = sent
  BY <1>3 DEF NoAnswer, Answer
<1>4. CASE DestinationStep \/ UNCHANGED vars
  BY <1>4 DEF DestinationStep, Accept, Refuse, Reply, ConsumerFails, Reload, Crash,
     RetryPersist, vars, originVars
<1> QED BY <1>1, <1>2, <1>3, <1>4 DEF Next, OriginStep

(* An origin's step is none of the destination's. *)
LEMMA OriginStepLocal ==
  ASSUME OriginStep
  PROVE  UNCHANGED <<destVars, wireVars>>
BY DEF OriginStep, Send, Approve, Discard, Walk, NoAnswer, Answer

LEMMA OriginStepWire ==
  ASSUME SealInv, WireInv, FloorInv, [Next]_vars, UNCHANGED <<destVars, wireVars>>
  PROVE  WireInv' /\ FloorInv'
<1>1. UNCHANGED <<opened, jobs, receipts, replies, marked, uncovered>>
  BY DEF destVars, wireVars, markVars
<1>2. \A i \in Ids : Sent(i) => Sent(i)' /\ (Sealed(i)' <=> Sealed(i))
  BY SentStays DEF Sent, Sealed
<1>3. /\ opened \subseteq Ids /\ replies \subseteq Ids
      /\ \A r \in receipts : r.id \in Ids
  BY DEF SealInv, TypeInv, Receipt
<1>4. WireInv'
  BY <1>1, <1>2, <1>3 DEF WireInv
<1>5. FloorInv'
  BY <1>1, <1>2, <1>3 DEF WireInv, FloorInv
<1> QED BY <1>4, <1>5

(* observeSealed() leaves every marked or uncovered origin one of the two, *)
(* and its own too.                                                        *)
LEMMA ObserveCovers ==
  ASSUME NEW o, ObserveSealed(o)
  PROVE  /\ marked \cup uncovered \subseteq marked' \cup uncovered'
         /\ o \in marked' \cup uncovered'
BY DEF ObserveSealed, markVars

LEMMA InitDest == Init => DestInv
<1> SUFFICES ASSUME Init PROVE DestInv
  OBVIOUS
<1>1. opened = {} /\ jobs = {} /\ receipts = {} /\ replies = {}
  BY DEF Init
<1> QED BY <1>1, InitSeal DEF DestInv, WireInv, FloorInv

LEMMA StepDest == DestInv /\ [Next]_vars => DestInv'
<1> SUFFICES ASSUME DestInv, [Next]_vars PROVE DestInv'
  OBVIOUS
<1>0. SealInv /\ WireInv /\ FloorInv
  BY DEF DestInv
<1>a. SealInv'
  BY <1>0, StepTypes, StepKeys DEF SealInv
<1>b. /\ opened \subseteq Ids /\ replies \subseteq Ids /\ jobs \subseteq Job
      /\ receipts \subseteq Receipt
  BY <1>0 DEF SealInv, TypeInv
<1>c. \A j \in jobs : j.id \in opened
  BY <1>0 DEF WireInv
<1>1. CASE OriginStep \/ UNCHANGED vars
  <2>1. UNCHANGED <<destVars, wireVars>>
    BY <1>1, OriginStepLocal DEF vars
  <2> QED BY <1>0, <1>a, <2>1, OriginStepWire DEF DestInv
<1>2. ASSUME NEW c \in Callers, NEW i \in Ids, Accept(c, i)
      PROVE  WireInv' /\ FloorInv'
  <2>1. /\ Sent(i) /\ sent' = sent
        /\ opened' = opened \cup {i}
        /\ jobs' = jobs \cup {[id |-> i, caller |-> c, floor |-> floor, live |-> TRUE]}
        /\ UNCHANGED <<receipts, replies>>
    BY <1>2 DEF Accept, originVars, wireVars
  <2>2. WireInv'
    BY <1>0, <2>1 DEF WireInv, Sent, Sealed
  <2>3. marked \cup uncovered \subseteq marked' \cup uncovered'
    BY <1>2, ObserveCovers DEF Accept, markVars
  <2>4. Sealed(i) => OriginOf[i] \in marked' \cup uncovered'
    BY <1>2, ObserveCovers DEF Accept
  <2>5. FloorInv'
    BY <1>0, <2>1, <2>3, <2>4 DEF FloorInv, Sealed
  <2> QED BY <2>2, <2>5
<1>3. ASSUME NEW c \in Callers, NEW i \in Ids, NEW intact \in BOOLEAN,
             Refuse(c, i, intact)
      PROVE  WireInv' /\ FloorInv'
  <2>1. /\ Sent(i) /\ sent' = sent
        /\ receipts' = receipts \cup {[id |-> i, outcome |-> "refused"]}
        /\ UNCHANGED <<opened, jobs, replies, marked, uncovered>>
    BY <1>3 DEF Refuse, Receipted, originVars, destVars, markVars
  <2> QED BY <1>0, <2>1 DEF WireInv, FloorInv, Sent, Sealed
<1>4. ASSUME NEW j \in jobs, Reply(j) PROVE WireInv' /\ FloorInv'
  <2>1. /\ sent' = sent
        /\ receipts' = receipts \cup {[id |-> j.id, outcome |-> "delivered"]}
        /\ jobs' = jobs \ {j}
        /\ UNCHANGED <<opened, marked, uncovered>>
    BY <1>4 DEF Reply, Receipted, Release, originVars, markVars
  <2>2. \/ Sealed(j.id) /\ replies' = replies \cup {j.id}
        \/ replies' = replies
    BY <1>4 DEF Reply, SealReply
  <2> QED BY <1>0, <1>c, <2>1, <2>2 DEF WireInv, FloorInv, Sent, Sealed
<1>5. ASSUME NEW j \in jobs, ConsumerFails(j) PROVE WireInv' /\ FloorInv'
  <2>1. /\ jobs' = jobs \ {j}
        /\ UNCHANGED <<sent, opened, marked, uncovered, receipts, replies>>
    BY <1>5 DEF ConsumerFails, Release, originVars, markVars, wireVars
  <2> QED BY <1>0, <2>1 DEF WireInv, FloorInv, Sent, Sealed
<1>6. ASSUME NEW f \in BOOLEAN, Reload(f) PROVE WireInv' /\ FloorInv'
  <2>1. /\ jobs' = {[j EXCEPT !.live = FALSE] : j \in jobs}
        /\ UNCHANGED <<sent, opened, marked, uncovered, receipts, replies>>
    BY <1>6 DEF Reload, originVars, markVars, wireVars
  <2>2. \A j \in jobs : [j EXCEPT !.live = FALSE].id = j.id
    BY <1>b DEF Job
  <2> QED BY <1>0, <2>1, <2>2 DEF WireInv, FloorInv, Sent, Sealed
<1>7. ASSUME NEW k \in SealKeys, Crash(k) PROVE WireInv' /\ FloorInv'
  <2>1. /\ jobs' = {}
        /\ UNCHANGED <<sent, opened, receipts, replies>>
    BY <1>7 DEF Crash, originVars, wireVars
  <2>2. marked \cup uncovered \subseteq marked' \cup uncovered'
    BY <1>7 DEF Crash, Rehydrated
  <2> QED BY <1>0, <2>1, <2>2 DEF WireInv, FloorInv, Sent, Sealed
<1>8. CASE RetryPersist
  <2>1. UNCHANGED <<sent, opened, marked, uncovered, jobs, receipts, replies>>
    BY <1>8 DEF RetryPersist, originVars, wireVars
  <2> QED BY <1>0, <1>a, <2>1 DEF DestInv, WireInv, FloorInv, Sent, Sealed
<1> QED
  BY <1>a, <1>1, <1>2, <1>3, <1>4, <1>5, <1>6, <1>7, <1>8
  DEF DestInv, Next, DestinationStep

(* Acceptances, receipts and replies are of messages that were sent, and   *)
(* every origin that has sealed is marked or has lost its marker.          *)
THEOREM WireIsTruthful == Spec => []DestInv
<1> QED BY InitDest, StepDest, PTL DEF Spec

-----------------------------------------------------------------------------
(* The downgrade marker. *)

(* Once a sealed message of an origin was accepted no clear one is, unless *)
(* the store was full or the process died with the marker not on disk.     *)
THEOREM FloorHoldsAlways == Spec => FloorHolds
<1> DEFINE NoDowngrade ==
      \A i \in opened' \ opened :
        ~Sealed(i) => \A j \in opened :
          OriginOf[j] = OriginOf[i] /\ Sealed(j) => OriginOf[i] \in uncovered
<1>1. DestInv /\ [Next]_vars => [NoDowngrade]_vars
  <2> SUFFICES ASSUME DestInv, [Next]_vars PROVE NoDowngrade
    OBVIOUS
  <2>1. ASSUME NEW c \in Callers, NEW i \in Ids, Accept(c, i) PROVE NoDowngrade
    <3>1. opened' = opened \cup {i}
      BY <2>1 DEF Accept
    <3>2. ~Sealed(i) => OriginOf[i] \notin marked
      BY <2>1 DEF Accept, Admits, Downgrade, RequiresSeal
    <3> QED BY <3>1, <3>2 DEF DestInv, FloorInv
  <2>2. CASE opened' = opened
    BY <2>2
  <2>3. CASE OriginStep \/ UNCHANGED vars
    BY <2>2, <2>3, OriginStepLocal DEF vars, destVars
  <2>4. ASSUME NEW c \in Callers, NEW i \in Ids, NEW intact \in BOOLEAN,
               Refuse(c, i, intact)
        PROVE  opened' = opened
    BY <2>4 DEF Refuse, destVars
  <2>5. ASSUME NEW j \in jobs, Reply(j) \/ ConsumerFails(j) PROVE opened' = opened
    BY <2>5 DEF Reply, ConsumerFails
  <2>6. ASSUME NEW f, Reload(f) \/ Crash(f) PROVE opened' = opened
    BY <2>6 DEF Reload, Crash
  <2>7. CASE RetryPersist
    BY <2>2, <2>7 DEF RetryPersist
  <2> HIDE DEF NoDowngrade
  <2> QED BY <2>1, <2>2, <2>3, <2>4, <2>5, <2>6, <2>7 DEF Next, DestinationStep
<1> QED BY <1>1, WireIsTruthful, PTL DEF Spec, FloorHolds
-----------------------------------------------------------------------------
(* Refinement: what relays make of the exchange is what the promise allows. *)

Asks == {i \in Ids : Sent(i) /\ Sealed(i)}
Publics == {i \in Ids : Sent(i) /\ ~Sealed(i)}
Refusals == {i \in Ids : [id |-> i, outcome |-> "refused"] \in receipts}

LEMMA InitKeepsPromise == Init => Promise!Init
<1> SUFFICES ASSUME Init PROVE Promise!Init
  OBVIOUS
<1>1. \A i \in Ids : ~Sent(i)
  BY DEF Init, Sent
<1>2. told = [i \in Ids |-> Promise!Nothing]
  BY DEF Init, Waiting, Promise!Nothing
<1> QED BY <1>1, <1>2 DEF Init, Promise!Init

(* A wrapper that is made is one more request, sealed or public.            *)
LEMMA SendAsks ==
  ASSUME SealInv, NEW o \in Senders, NEW data \in BOOLEAN, NEW public \in BOOLEAN,
         Send(o, data, public)
  PROVE  [Promise!Next]_(Promise!vars)
<1>0. o \in Origins
  BY SendersAreOrigins
<1>1. UNCHANGED <<opened, receipts, replies, told>>
  BY DEF Send, destVars, wireVars
<1>2. Refusals' = Refusals
  BY <1>1 DEF Refusals
<1>3. CASE sent' = sent
  BY <1>1, <1>2, <1>3 DEF Promise!vars, Sent, Sealed, Refusals
<1>4. ASSUME NEW i \in Ids, NEW to \in SealKeys \cup {"clear"}, Makes(o, public, i, to)
      PROVE  Promise!Ask(i)
  <2>1. sent[i] = Unsent /\ sent' = [sent EXCEPT ![i] = [public |-> public, to |-> to]]
    BY <1>4 DEF Makes
  <2>2. sent'[i] = [public |-> public, to |-> to]
    BY <2>1 DEF SealInv, TypeInv
  <2>3. sent'[i].public = public /\ sent'[i].to = to
    BY <2>2
  <2>4. to = "clear" => public
    BY <1>4 DEF Makes
  <2>5. NoKey \notin SealKeys /\ "clear" \notin SealKeys
    BY ExchangeAssumption
  <2>6. Unsent.public = FALSE /\ Unsent.to = NoKey
    BY DEF Unsent
  <2>7. sent'[i] # Unsent
    BY <2>3, <2>4, <2>5, <2>6
  <2>8. i \notin Asks \cup Publics
    BY <2>1 DEF Asks, Publics, Sent
  <2>9. \A x \in Ids \ {i} : sent'[x] = sent[x]
    BY <2>1 DEF SealInv, TypeInv
  <2>10. \/ Asks' = Asks \cup {i} /\ Publics' = Publics
         \/ Publics' = Publics \cup {i} /\ Asks' = Asks
    BY <2>7, <2>8, <2>9 DEF Asks, Publics, Sent, Sealed
  <2> QED BY <1>1, <1>2, <2>8, <2>10 DEF Promise!Ask, Asks, Publics, Refusals
<1> QED BY <1>0, <1>3, <1>4, SendMakes DEF Promise!Next

(* A report says of the destination what a receipt it signed for this very *)
(* message says, or nothing.                                               *)
LEMMA AnswerTells ==
  ASSUME DestInv, NEW i \in Ids, NEW refusal \in BOOLEAN,
         NEW record \in records \cup {Absent}, NEW receipt \in receipts \cup {Absent},
         NEW reply \in replies \cup {Absent},
         Answer(i, refusal, record, receipt, reply)
  PROVE  \E r \in Promise!Reports : Promise!Tell(i, r)
<1> DEFINE r == [proof |-> Proof(i, receipt), body |-> Body(i, refusal, reply)]
<1>1. /\ Sent(i) /\ told[i] = Waiting
      /\ told' = [told EXCEPT ![i] = r]
      /\ UNCHANGED <<sent, opened, receipts, replies>>
  BY DEF Answer, destVars, wireVars
<1>2. /\ Proof(i, receipt) \in {"none", "delivered", "refused"}
      /\ Proof(i, receipt) # "none" => receipt \in receipts /\ receipt.id = i
                                      /\ receipt.outcome = Proof(i, receipt)
  BY DEF Proof, Verified, DestInv, SealInv, TypeInv, Receipt
<1>3. Proof(i, receipt) = "delivered" => i \in opened
  BY <1>2 DEF DestInv, WireInv
<1>4. Proof(i, receipt) = "refused" => i \in Refusals
  <2> SUFFICES ASSUME Proof(i, receipt) = "refused" PROVE i \in Refusals
    OBVIOUS
  <2>1. receipt \in Receipt /\ receipt \in receipts /\ receipt.id = i /\ receipt.outcome = "refused"
    BY <1>2 DEF DestInv, SealInv, TypeInv
  <2>2. receipt = [id |-> i, outcome |-> "refused"]
    BY <2>1 DEF Receipt
  <2> QED BY <2>1, <2>2 DEF Refusals
<1>5. Absent \notin Ids
  BY ExchangeAssumption
<1>6. /\ Body(i, refusal, reply) \in {"none", "clear", "sealed", "withheld"}
      /\ Body(i, refusal, reply) = "clear" => ~Sealed(i)
      /\ Body(i, refusal, reply) = "sealed" => reply = i
  BY DEF Body, Opens
<1>7. Body(i, refusal, reply) = "sealed" => i \in replies
  BY <1>5, <1>6
<1>8. r \in Promise!Reports
  BY <1>2, <1>6 DEF Promise!Reports
<1>9. Asks' = Asks /\ Publics' = Publics /\ Refusals' = Refusals
  BY <1>1 DEF Asks, Publics, Refusals, Sent, Sealed
<1>10. i \in Asks \cup Publics /\ (~Sealed(i) => i \in Publics)
  BY <1>1 DEF Asks, Publics
<1>11. /\ r.proof = "delivered" => i \in opened
       /\ r.proof = "refused" => i \in Refusals
       /\ r.body = "sealed" => i \in replies
       /\ r.body = "clear" => i \in Publics
  BY <1>3, <1>4, <1>6, <1>7, <1>10
<1>12. told[i] = Promise!Nothing
  BY <1>1 DEF Waiting, Promise!Nothing
<1> HIDE DEF r
<1> QED
  BY <1>1, <1>8, <1>9, <1>10, <1>11, <1>12
  DEF Promise!Tell, Asks, Publics, Refusals

LEMMA NoAnswerTells ==
  ASSUME DestInv, NEW i \in Ids, NoAnswer(i)
  PROVE  \E r \in Promise!Reports : Promise!Tell(i, r)
<1> DEFINE r == [proof |-> "none", body |-> "none"]
<1>1. /\ Sent(i) /\ told[i] = Waiting
      /\ told' = [told EXCEPT ![i] = r]
      /\ UNCHANGED <<sent, opened, receipts, replies>>
  BY DEF NoAnswer, destVars, wireVars
<1>2. r \in Promise!Reports
  BY DEF Promise!Reports
<1>3. Asks' = Asks /\ Publics' = Publics /\ Refusals' = Refusals /\ i \in Asks \cup Publics
  BY <1>1 DEF Asks, Publics, Refusals, Sent, Sealed
<1>4. told[i] = Promise!Nothing
  BY <1>1 DEF Waiting, Promise!Nothing
<1>5. r.proof = "none" /\ r.body = "none"
  OBVIOUS
<1> HIDE DEF r
<1> QED
  BY <1>1, <1>2, <1>3, <1>4, <1>5
  DEF Promise!Tell, Asks, Publics, Refusals

(* Every step of the exchange is one of the promise, or hidden from it.    *)
LEMMA StepKeepsPromise == DestInv /\ [Next]_vars => [Promise!Next]_(Promise!vars)
<1> SUFFICES ASSUME DestInv, [Next]_vars PROVE [Promise!Next]_(Promise!vars)
  OBVIOUS
<1>0. SealInv /\ WireInv
  BY DEF DestInv
<1>1. ASSUME UNCHANGED <<sent, opened, receipts, replies, told>>
      PROVE  UNCHANGED Promise!vars
  BY <1>1 DEF Promise!vars, Sent, Sealed
<1>2. ASSUME NEW o \in Senders, NEW data \in BOOLEAN, NEW public \in BOOLEAN,
             Send(o, data, public)
      PROVE  [Promise!Next]_(Promise!vars)
  BY <1>0, <1>2, SendAsks
<1>3. ASSUME NEW o \in Senders, Approve(o) \/ Discard(o) \/ Walk(o)
      PROVE  UNCHANGED <<sent, opened, receipts, replies, told>>
  BY <1>3 DEF Approve, Discard, Walk, destVars, wireVars
<1>4. ASSUME NEW i \in Ids, NoAnswer(i) PROVE Promise!Next
  BY <1>4, NoAnswerTells DEF Promise!Next
<1>5. ASSUME NEW i \in Ids, NEW refusal \in BOOLEAN, NEW record \in records \cup {Absent},
             NEW receipt \in receipts \cup {Absent}, NEW reply \in replies \cup {Absent},
             Answer(i, refusal, record, receipt, reply)
      PROVE  Promise!Next
  BY <1>5, AnswerTells DEF Promise!Next
<1>6. ASSUME NEW c \in Callers, NEW i \in Ids, Accept(c, i) PROVE Promise!Accept(i)
  <2>1. /\ Sent(i) /\ i \notin opened
        /\ opened' = opened \cup {i}
        /\ UNCHANGED <<sent, receipts, replies, told>>
    BY <1>6 DEF Accept, Admits, Duplicate, originVars, wireVars
  <2>2. Asks' = Asks /\ Publics' = Publics /\ Refusals' = Refusals
    BY <2>1 DEF Asks, Publics, Refusals, Sent, Sealed
  <2>3. i \in Asks \cup Publics
    BY <2>1 DEF Asks, Publics
  <2> QED BY <2>1, <2>2, <2>3 DEF Promise!Accept, Asks, Publics, Refusals
<1>7. ASSUME NEW c \in Callers, NEW i \in Ids, NEW intact \in BOOLEAN,
             Refuse(c, i, intact)
      PROVE  Promise!Refuse(i)
  <2>1. /\ Sent(i)
        /\ receipts' = receipts \cup {[id |-> i, outcome |-> "refused"]}
        /\ UNCHANGED <<sent, opened, replies, told>>
    BY <1>7 DEF Refuse, Receipted, originVars, destVars
  <2>2. Asks' = Asks /\ Publics' = Publics
    BY <2>1 DEF Asks, Publics, Sent, Sealed
  <2>3. Refusals' = Refusals \cup {i}
    BY <2>1 DEF Refusals
  <2>4. i \in Asks \cup Publics
    BY <2>1 DEF Asks, Publics
  <2> QED BY <2>1, <2>2, <2>3, <2>4 DEF Promise!Refuse, Asks, Publics, Refusals
<1>8. ASSUME NEW j \in jobs, Reply(j) PROVE [Promise!Next]_(Promise!vars)
  <2>0. j.id \in Ids /\ j.id \in opened /\ Sent(j.id)
    BY <1>0 DEF SealInv, TypeInv, WireInv, Job
  <2>1. /\ receipts' = receipts \cup {[id |-> j.id, outcome |-> "delivered"]}
        /\ UNCHANGED <<sent, opened, told>>
    BY <1>8 DEF Reply, Receipted, originVars
  <2>2. Asks' = Asks /\ Publics' = Publics /\ Refusals' = Refusals
    BY <2>1 DEF Asks, Publics, Refusals, Sent, Sealed
  <2>3. CASE Sealed(j.id) /\ replies' = replies \cup {j.id}
    <3>1. j.id \in Asks
      BY <2>0, <2>3 DEF Asks
    <3>2. Promise!Reply(j.id)
      BY <2>0, <2>1, <2>2, <2>3, <3>1 DEF Promise!Reply, Asks, Publics, Refusals
    <3> QED BY <2>0, <3>2 DEF Promise!Next
  <2>4. CASE replies' = replies
    BY <2>1, <2>2, <2>4 DEF Promise!vars, Asks, Publics, Refusals
  <2> QED BY <1>8, <2>3, <2>4 DEF Reply, SealReply
<1>9. ASSUME NEW j \in jobs, ConsumerFails(j)
      PROVE  UNCHANGED <<sent, opened, receipts, replies, told>>
  BY <1>9 DEF ConsumerFails, originVars, wireVars
<1>10. ASSUME NEW f, Reload(f) \/ Crash(f)
       PROVE  UNCHANGED <<sent, opened, receipts, replies, told>>
  BY <1>10 DEF Reload, Crash, originVars, wireVars
<1>11. CASE RetryPersist \/ UNCHANGED vars
  <2>1. UNCHANGED <<sent, opened, receipts, replies, told>>
    BY <1>11 DEF RetryPersist, vars, originVars, destVars, wireVars
  <2> QED BY <1>1, <2>1
<1>12. ASSUME NEW c \in Callers, NEW i \in Ids,
              Accept(c, i) \/ \E intact \in BOOLEAN : Refuse(c, i, intact)
       PROVE  Promise!Next
  BY <1>6, <1>7, <1>12 DEF Promise!Next
<1> QED
  BY <1>1, <1>2, <1>3, <1>4, <1>5, <1>8, <1>9, <1>10, <1>11, <1>12
  DEF Next, OriginStep, DestinationStep

(* The exchange keeps the promise: whatever relays do, a send reports once, *)
(* and only what the destination did with its message.                     *)
THEOREM ExchangeKeepsPromise == Spec => PromiseKept
<1> QED
  BY InitKeepsPromise, StepKeepsPromise, WireIsTruthful, PTL
  DEF Spec, PromiseKept, Promise!Spec
=============================================================================
