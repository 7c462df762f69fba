------------------------------ MODULE RoutingProofs -----------------------------
(***************************************************************************)
(* What holds of a search for any finite set of machines, any graph of     *)
(* admissions, any ceilings and any of the circumstances Routing allows:   *)
(* it is bounded whatever the neighbours do, delivers once, accounts for   *)
(* every forward, and finds the destination exactly when it is in reach.   *)
(***************************************************************************)
EXTENDS Routing, SequenceTheorems, FiniteSetTheorems, WellFoundedInduction, TLAPS

(* A call that is being answered.                                          *)
Began(c) == c.state \in {"searching", "waiting"}

OnPath(p) == {p[i] : i \in 1..Len(p)}

(* A path starts at the origin, visits nobody twice, and is no longer than *)
(* the ceiling allows.                                                     *)
PathSound(p) ==
  /\ p[1] = Origin
  /\ Len(p) <= world.ttlMax + 1
  /\ \A i, j \in 1..Len(p) : p[i] = p[j] => i = j

(* What the ceilings mean for a call, as it goes on: what it was asked     *)
(* with is its asker's remainder, and what it spent or may still have to   *)
(* pay stays within its budget; a waiting call has already counted the     *)
(* forward it will be charged for.                                         *)
CallSound(p, c) ==
  /\ c.state = "asked" => c.tried = 0 /\ c.spent = 0
  /\ c.state = "asked" /\ Len(p) > 1 =>
       c.ttl + Len(p) <= world.ttlMax + 1 /\ c.budget \in 0..world.budgetMax
  /\ Began(c) =>
       /\ c.ttl >= 1 /\ c.ttl + Len(p) <= world.ttlMax + 1
       /\ c.budget <= world.budgetMax /\ c.tried <= world.fanout
       /\ c.left \cap OnPath(p) = {}
  /\ c.state = "searching" => c.tried <= c.spent /\ c.spent <= c.budget
  /\ c.state = "waiting" => c.tried <= c.spent + 1 /\ 0 <= c.spent /\ c.spent + 1 <= c.budget
  /\ c.state = "answered" /\ Last(p) \notin world.liars =>
       /\ c.tried <= world.fanout /\ c.tried <= world.budgetMax
       /\ c.spent \in 0..world.budgetMax
       /\ Len(p) > 1 => c.spent <= c.budget

(* The first inductive invariant: every call, whoever lies to it.          *)
BoundInv == TypeOK /\ \A p \in DOMAIN calls : PathSound(p) /\ CallSound(p, calls[p])

Prefix(P, i) == SubSeq(P, 1, i)

(* Where every machine answers truthfully and in time, the calls are the   *)
(* prefixes of one path: all but the last wait for the next, with the      *)
(* allowance the next was given. Nothing was delivered, or the last call   *)
(* has just said so.                                                       *)
ChainOf(P) ==
  /\ P \in Seq(Nodes) /\ P # <<>>
  /\ DOMAIN calls = {Prefix(P, i) : i \in 1..Len(P)}
  /\ calls[P].state # "waiting"
  /\ \A i \in 1..(Len(P) - 1) :
       LET c == calls[Prefix(P, i)]
           d == calls[Prefix(P, i + 1)] IN
       /\ c.state = "waiting" /\ c.on = P[i + 1]
       /\ d.ttl = c.ttl - 1 /\ d.budget = c.budget - c.spent - 1
  /\ \/ deliveries = 0
     \/ deliveries = 1 /\ calls[P].state = "answered" /\ calls[P].delivered

(* What the calls of the chain have spent, and the forwards they wait for, *)
(* are all the forwards made.                                              *)
SumOf(P) ==
  \E a \in [1..Len(P) -> Nat] :
    /\ a[1] = 0
    /\ \A i \in 1..(Len(P) - 1) : a[i + 1] = a[i] + calls[Prefix(P, i)].spent + 1
    /\ forwards = a[Len(P)] + calls[P].spent

(* The second: there is such a chain.                                      *)
ChainInv == Truthful => \E P \in Seq(Nodes) : ChainOf(P) /\ SumOf(P)

(* The destination can be reached from the end of p over at most t open    *)
(* links that avoid p and visit nobody twice.                              *)
Trail(p, t) ==
  \E n \in 1..t : \E s \in [1..n -> Nodes] :
    /\ s[n] = Dest
    /\ Open(Last(p), s[1]) /\ \A i \in 1..(n - 1) : Open(s[i], s[i + 1])
    /\ \A i, j \in 1..n : s[i] = s[j] => i = j
    /\ \A i \in 1..Len(p), j \in 1..n : p[i] # s[j]

Found == Origin = Dest \/ \E n \in 1..calls[Root].ttl : Hops(n)

Asker(p) == p[Len(p) - 1]

(* What a call has established, where nothing but the ttl and the budget   *)
(* ends a search. The link to its asker is one the asker may use. While it *)
(* searches: every machine it may still turn to is left, or was tried and  *)
(* leads nowhere, and fanout enough remains for those left. Once it has    *)
(* answered that it did not deliver, over a link open to its asker: the    *)
(* destination is out of its reach, if it did not run out of budget.       *)
Explored(p, c) ==
  /\ Len(p) > 1 => {Asker(p), Last(p)} \in links /\ <<Asker(p), Last(p)>> \notin blocked
  /\ Began(c) =>
       /\ Last(p) # Dest
       /\ Len(p) > 1 => <<Last(p), Asker(p)>> \notin blocked
       /\ c.left \subseteq Candidates(p)
       /\ c.tried + Cardinality(c.left) <= Cardinality(Nodes) - 1
       /\ c.spent < c.budget =>
            \A k \in Nodes \ (c.left \cup OnPath(p)) :
              Open(Last(p), k) /\ (c.state = "waiting" => k # c.on) =>
                k # Dest /\ ~Trail(Append(p, k), c.ttl - 1)
  /\ c.state = "answered" /\ ~c.delivered /\ (Len(p) > 1 => Open(Asker(p), Last(p))) =>
       /\ Last(p) # Dest
       /\ c.spent < c.budget => ~Trail(p, c.ttl)

(* Every hop has taken one from the ttl of the first call.                 *)
DepthInv ==
  Truthful =>
    Root \in DOMAIN calls /\ \A p \in DOMAIN calls : calls[p].ttl = calls[Root].ttl - Len(p) + 1

Exhaustive == Truthful /\ Unhindered

AllExplored == \A p \in DOMAIN calls : Explored(p, calls[p])

Reported == \E p \in DOMAIN calls : calls[p].state = "answered" /\ calls[p].delivered

(* The third: every call has explored what it says, and no delivery is     *)
(* reported where there is no walk.                                        *)
ExploredInv == Exhaustive => AllExplored /\ (Reported => Found)

-----------------------------------------------------------------------------
(* Types, and what the operators return.                                   *)

(* The circumstances have their types.                                     *)
LEMMA WorldType ==
  ASSUME TypeOK
  PROVE  /\ world.liars \subseteq Nodes \ {Origin}
         /\ world.loses \in BOOLEAN /\ world.dedup \in BOOLEAN
         /\ world.ttl \in Int /\ world.budget \in Int
         /\ world.ttlMax \in Nat /\ world.budgetMax \in Nat /\ world.fanout \in Nat
         /\ world.blocked \subseteq Nodes \X Nodes /\ world.blocks \subseteq Nodes \X Nodes
  BY RoutingAssumption DEF TypeOK

(* A path is a sequence of machines, its call a call.                      *)
LEMMA PathType ==
  ASSUME TypeOK, NEW p \in DOMAIN calls
  PROVE  /\ p \in Seq(Nodes) /\ p # <<>> /\ Len(p) \in Nat \ {0} /\ DOMAIN p = 1..Len(p)
         /\ Last(p) \in Nodes /\ Last(p) = p[Len(p)]
         /\ calls[p] \in Call
  BY DEF TypeOK, Last

(* Appending a machine to a path.                                          *)
LEMMA Extended ==
  ASSUME NEW p \in Seq(Nodes), NEW k \in Nodes
  PROVE  /\ Append(p, k) \in Seq(Nodes) /\ Append(p, k) # <<>> /\ Append(p, k) # p
         /\ Len(Append(p, k)) = Len(p) + 1 /\ Last(Append(p, k)) = k
         /\ \A i \in 1..Len(p) : Append(p, k)[i] = p[i]
  BY AppendProperties DEF Last


(* What Asked returns is a call.                                           *)
LEMMA AskedType ==
  ASSUME NEW n \in Nodes, NEW ttl \in Int, NEW budget \in Int
  PROVE  Asked(n, ttl, budget) \in Call
  BY DEF Asked, Call

(* The types hold initially.                                               *)
LEMMA InitType == Init => TypeOK
<1> SUFFICES ASSUME Init PROVE TypeOK
  OBVIOUS
<1>1. Root \in Seq(Nodes) /\ Root # <<>>
  BY RoutingAssumption DEF Root
<1>2. world \in Worlds /\ world.ttl \in Int /\ world.budget \in Int
      /\ world.blocked \subseteq Nodes \X Nodes
  BY RoutingAssumption DEF Init
<1>3. Asked(Origin, world.ttl, world.budget) \in Call
  BY <1>2, AskedType, RoutingAssumption
<1> QED
  BY <1>1, <1>2, <1>3 DEF Init, TypeOK

(* Put keeps the types.                                                    *)
LEMMA PutType ==
  ASSUME TypeOK, NEW p \in DOMAIN calls, NEW c \in Call, calls' = Put(p, c)
  PROVE  DOMAIN calls' = DOMAIN calls /\ \A q \in DOMAIN calls' : q \in Seq(Nodes) /\ q # <<>> /\ calls'[q] \in Call
  BY DEF TypeOK, Put

(* A charge is within the allowance, whatever the report.                  *)
LEMMA ChargeType ==
  ASSUME NEW report \in Int, NEW allowance \in Int
  PROVE  Charge(report, allowance) \in Int /\ (allowance >= 0 => Charge(report, allowance) \in 0..allowance)
  BY DEF Charge

(* What Answered leaves alone.                                             *)
LEMMA AnsweredFields ==
  ASSUME NEW c \in Call, NEW delivered \in BOOLEAN
  PROVE  LET d == Answered(c, delivered) IN
         /\ d \in Call
         /\ d.state = "answered" /\ d.delivered = delivered
         /\ d.ttl = c.ttl /\ d.budget = c.budget /\ d.left = c.left /\ d.tried = c.tried
         /\ d.spent = c.spent /\ d.on = c.on
  BY DEF Answered, Call

(* Resumed returns a call ...                                              *)
LEMMA ResumedType ==
  ASSUME NEW c \in Call, NEW delivered \in BOOLEAN, NEW spent \in Int
  PROVE  Resumed(c, delivered, spent) \in Call
<1>1. c.spent + 1 + spent \in Int
  BY DEF Call
<1>2. (IF delivered THEN "answered" ELSE "searching") \in {"asked", "searching", "waiting", "answered"}
  OBVIOUS
<1> QED
  BY <1>1, <1>2 DEF Resumed, Call

(* ... and changes the state, what was spent and whether it delivered.     *)
LEMMA ResumedFields ==
  ASSUME NEW c \in Call, NEW delivered \in BOOLEAN, NEW spent \in Int
  PROVE  LET d == Resumed(c, delivered, spent) IN
         /\ d.state = IF delivered THEN "answered" ELSE "searching"
         /\ d.spent = c.spent + 1 + spent /\ d.delivered = delivered
         /\ d.ttl = c.ttl /\ d.budget = c.budget /\ d.left = c.left /\ d.tried = c.tried /\ d.on = c.on
  BY DEF Resumed, Call

(* Clamped changes the ttl and the budget only.                            *)
LEMMA ClampedFields ==
  ASSUME TypeOK, NEW c \in Call
  PROVE  LET d == Clamped(c) IN
         /\ d \in Call
         /\ d.ttl = Least(c.ttl, world.ttlMax) /\ d.budget = Least(c.budget, world.budgetMax)
         /\ d.state = c.state /\ d.left = c.left /\ d.tried = c.tried /\ d.spent = c.spent
         /\ d.on = c.on /\ d.delivered = c.delivered
<1>1. Least(c.ttl, world.ttlMax) \in Int /\ Least(c.budget, world.budgetMax) \in Int
  BY WorldType DEF Call, Least
<1>2. Clamped(c) \in Call
  BY <1>1 DEF Clamped, Call
<1> QED
  BY <1>2 DEF Clamped, Call

(* Waits returns a call ...                                                *)
LEMMA WaitsType ==
  ASSUME NEW c \in Call, NEW k \in Nodes
  PROVE  Waits(c, k) \in Call
<1>1. c.left \ {k} \in SUBSET Nodes /\ c.tried + 1 \in Nat
  BY DEF Call
<1> QED
  BY <1>1 DEF Waits, Call

(* ... and leaves its ttl, its budget and what it spent alone.             *)
LEMMA WaitsFields ==
  ASSUME NEW c \in Call, NEW k \in Nodes
  PROVE  LET d == Waits(c, k) IN
         /\ d.state = "waiting" /\ d.left = c.left \ {k} /\ d.tried = c.tried + 1 /\ d.on = k
         /\ d.ttl = c.ttl /\ d.budget = c.budget /\ d.spent = c.spent /\ d.delivered = c.delivered
  BY DEF Waits, Call

(* Every step keeps the types.                                             *)
LEMMA TypeStep == TypeOK /\ [Next]_vars => TypeOK'
<1> SUFFICES ASSUME TypeOK, [Next]_vars PROVE TypeOK'
  OBVIOUS
<1>1. CASE UNCHANGED vars
  BY <1>1 DEF vars, TypeOK
<1>2. ASSUME NEW p \in DOMAIN calls, Refuse(p) \/ Deliver(p) \/ Search(p) \/ Lie(p) \/ Timeout(p) \/ NoRoute(p)
      PROVE TypeOK'
  <2>1. calls[p] \in Call
    BY PathType
  <2>2. CASE Refuse(p)
    <3>1. Answered(calls[p], FALSE) \in Call
      BY <2>1 DEF Answered, Call
    <3> QED
      BY <2>2, <3>1, PutType DEF Refuse, TypeOK
  <2>3. CASE Deliver(p)
    <3>1. Answered(calls[p], TRUE) \in Call
      BY <2>1 DEF Answered, Call
    <3>2. deliveries' \in Nat
      BY <2>3 DEF Deliver, TypeOK
    <3> QED
      BY <2>3, <3>1, <3>2, PutType DEF Deliver, TypeOK
  <2>4. CASE Search(p)
    <3> DEFINE c == Clamped(calls[p])
               d == IF c.ttl <= 0 \/ c.budget <= 0 THEN Answered(c, FALSE)
                    ELSE [c EXCEPT !.state = "searching", !.left = Candidates(p)]
    <3>1. c \in Call
      BY <2>1, ClampedFields
    <3>2. Candidates(p) \in SUBSET Nodes
      BY DEF Candidates
    <3>3. d \in Call
      BY <3>1, <3>2 DEF Answered, Call
    <3>4. calls' = Put(p, d)
      BY <2>4 DEF Search
    <3> HIDE DEF d, c
    <3> QED
      BY <2>4, <3>3, <3>4, PutType DEF Search, TypeOK
  <2>5. CASE Lie(p)
    <3>1. PICK delivered \in BOOLEAN, spent \in Reports :
            calls' = Put(p, [Answered(calls[p], delivered) EXCEPT !.spent = spent])
      BY <2>5 DEF Lie
    <3>2. [Answered(calls[p], delivered) EXCEPT !.spent = spent] \in Call
      BY <2>1, RoutingAssumption DEF Answered, Call
    <3> QED
      BY <2>5, <3>1, <3>2, PutType DEF Lie, TypeOK
  <2>6. CASE Timeout(p)
    <3>1. Resumed(calls[p], FALSE, 0) \in Call
      BY <2>1, ResumedType, 0 \in Int, FALSE \in BOOLEAN, Zenon
    <3> QED
      BY <2>6, <3>1, PutType DEF Timeout, TypeOK
  <2>7. CASE NoRoute(p)
    <3>1. Answered(calls[p], FALSE) \in Call
      BY <2>1 DEF Answered, Call
    <3> QED
      BY <2>7, <3>1, PutType DEF NoRoute, TypeOK
  <2> QED
    BY <1>2, <2>2, <2>3, <2>4, <2>5, <2>6, <2>7
<1>3. ASSUME NEW p \in DOMAIN calls, NEW k \in Nodes, Forward(p, k)
      PROVE TypeOK'
  <2> DEFINE c == calls[p]
             w == Waits(c, k)
  <2>1. c \in Call /\ p \in Seq(Nodes)
    BY PathType
  <2>2. w \in Call
    BY <2>1, WaitsType
  <2>3. Asked(k, c.ttl - 1, c.budget - c.spent - 1) \in Call
    BY <2>1, AskedType DEF Call
  <2>4. Append(p, k) \in Seq(Nodes) /\ Append(p, k) # <<>>
    BY <2>1, Extended
  <2>6. calls' = [q \in DOMAIN calls \cup {Append(p, k)} |->
                    IF q = Append(p, k) THEN Asked(k, c.ttl - 1, c.budget - c.spent - 1)
                    ELSE IF q = p THEN w ELSE calls[q]]
    BY <1>3 DEF Forward
  <2>5. \A q \in DOMAIN calls' : q \in Seq(Nodes) /\ q # <<>> /\ calls'[q] \in Call
    <3> HIDE DEF w, c
    <3> QED
      BY <2>2, <2>3, <2>4, <2>6 DEF TypeOK
  <2>7. UNCHANGED <<world, links, blocked, deliveries>> /\ forwards' \in Nat
    BY <1>3 DEF Forward, TypeOK
  <2> QED
    BY <2>5, <2>7 DEF TypeOK
<1>4. ASSUME NEW p \in DOMAIN calls, Answer(p)
      PROVE TypeOK'
  <2> DEFINE c == calls[p]
             q == Append(p, c.on)
             x == Charge(calls[q].spent, c.budget - c.spent - 1)
             r == Resumed(c, calls[q].delivered, x)
  <2>1. c \in Call /\ q \in DOMAIN calls /\ calls[q] \in Call
    BY <1>4, PathType DEF Answer, In
  <2>4. c.budget - c.spent - 1 \in Int /\ calls[q].spent \in Int /\ calls[q].delivered \in BOOLEAN
    BY <2>1 DEF Call
  <2>5. x \in Int
    BY <2>4, ChargeType
  <2>2. r \in Call
    <3> HIDE DEF x, q, c
    <3> QED
      BY <2>1, <2>4, <2>5, ResumedType
  <2>3. calls' = [s \in DOMAIN calls \ {q} |-> IF s = p THEN r ELSE calls[s]]
    BY <1>4 DEF Answer
  <2> QED
    BY <1>4, <2>2, <2>3 DEF Answer, TypeOK
<1>5. ASSUME NEW n \in Nodes, NEW k \in Nodes, Block(n, k)
      PROVE TypeOK'
  BY <1>5 DEF Block, TypeOK
<1> QED
  BY <1>1, <1>2, <1>3, <1>4, <1>5 DEF Next

-----------------------------------------------------------------------------
(* The ceilings hold, whoever lies.                                        *)

(* The first call is sound.                                                *)
LEMMA InitBound == Init => BoundInv
<1> SUFFICES ASSUME Init PROVE BoundInv
  OBVIOUS
<1>1. TypeOK
  BY InitType
<1>2. Len(Root) = 1 /\ Root[1] = Origin /\ world.ttlMax \in Nat
  BY <1>1, WorldType DEF Root
<1>3. calls[Root].state = "asked" /\ calls[Root].tried = 0 /\ calls[Root].spent = 0
      /\ DOMAIN calls = {Root}
  BY DEF Init, Asked
<1>4. PathSound(Root)
  BY <1>2 DEF PathSound
<1>5. CallSound(Root, calls[Root])
  BY <1>2, <1>3 DEF CallSound, Began
<1> QED
  BY <1>1, <1>3, <1>4, <1>5 DEF BoundInv

(* A sound call may be put in the place of another.                        *)
LEMMA PutBound ==
  ASSUME BoundInv, TypeOK', NEW p \in DOMAIN calls, NEW d, CallSound(p, d),
         calls' = Put(p, d), world' = world
  PROVE  BoundInv'
  BY DEF BoundInv, Put, PathSound, CallSound, Began, OnPath

(* A call that answers from where it was asked or searches stays sound.    *)
LEMMA AnsweredSound ==
  ASSUME TypeOK, NEW p \in Seq(Nodes), NEW c \in Call, NEW delivered \in BOOLEAN,
         CallSound(p, c), c.state \in {"asked", "searching"}
  PROVE  CallSound(p, Answered(c, delivered))
<1> DEFINE d == Answered(c, delivered)
<1>1. /\ d.state = "answered" /\ d.budget = c.budget /\ d.tried = c.tried /\ d.spent = c.spent
  BY AnsweredFields
<1>2. world.ttlMax \in Nat /\ world.budgetMax \in Nat /\ world.fanout \in Nat
  BY WorldType
<1>3. c.budget \in Int /\ c.tried \in Nat /\ c.spent \in Int
  BY DEF Call
<1>4. /\ c.tried <= world.fanout /\ c.tried <= world.budgetMax
      /\ c.spent \in 0..world.budgetMax
      /\ Len(p) > 1 => c.spent <= c.budget
  <2>1. CASE c.state = "asked"
    BY <1>2, <1>3, <2>1 DEF CallSound
  <2>2. CASE c.state = "searching"
    BY <1>2, <1>3, <2>2 DEF CallSound, Began
  <2> QED
    BY <2>1, <2>2
<1> HIDE DEF d
<1>5. CallSound(p, d)
  BY <1>1, <1>4 DEF CallSound, Began
<1> QED
  BY <1>5 DEF d

(* Once clamped, a call is within the ceilings, and a later one was        *)
(* already.                                                                *)
LEMMA ClampedSound ==
  ASSUME TypeOK, NEW p \in Seq(Nodes), NEW c \in Call, CallSound(p, c), c.state = "asked"
  PROVE  LET e == Clamped(c) IN
         /\ CallSound(p, e)
         /\ e.ttl <= world.ttlMax /\ e.budget <= world.budgetMax /\ e.ttl <= c.ttl
<1> DEFINE e == Clamped(c)
<1>1. /\ e.ttl = Least(c.ttl, world.ttlMax) /\ e.budget = Least(c.budget, world.budgetMax)
      /\ e.state = c.state /\ e.tried = c.tried /\ e.spent = c.spent
  BY ClampedFields
<1>2. world.ttlMax \in Nat /\ world.budgetMax \in Nat
  BY WorldType
<1>3. c.ttl \in Int /\ c.budget \in Int /\ Len(p) \in Nat
  BY DEF Call
<1>4. e.ttl <= world.ttlMax /\ e.budget <= world.budgetMax /\ e.ttl <= c.ttl /\ e.ttl \in Int
  BY <1>1, <1>2, <1>3 DEF Least
<1>5. c.budget \in 0..world.budgetMax => e.budget = c.budget
  BY <1>1, <1>2, <1>3 DEF Least
<1> HIDE DEF e
<1>6. CallSound(p, e)
  BY <1>1, <1>2, <1>3, <1>4, <1>5 DEF CallSound, Began
<1> QED
  BY <1>4, <1>6 DEF e

(* Charging what a neighbour may at most have spent keeps a call within    *)
(* its budget: the caller counts on its own arithmetic, never on the       *)
(* report.                                                                 *)
LEMMA ResumedSound ==
  ASSUME TypeOK, NEW p \in Seq(Nodes), NEW c \in Call, NEW delivered \in BOOLEAN, NEW x,
         CallSound(p, c), c.state = "waiting", x \in 0..(c.budget - c.spent - 1)
  PROVE  CallSound(p, Resumed(c, delivered, x))
<1> DEFINE d == Resumed(c, delivered, x)
<1>1. c.ttl \in Int /\ c.budget \in Int /\ c.tried \in Nat /\ c.spent \in Int
  BY DEF Call
<1>2. x \in Int /\ 0 <= x /\ x <= c.budget - c.spent - 1
  BY <1>1
<1>3. /\ d.state = IF delivered THEN "answered" ELSE "searching"
      /\ d.spent = c.spent + 1 + x
      /\ d.ttl = c.ttl /\ d.budget = c.budget /\ d.left = c.left /\ d.tried = c.tried
  BY <1>2, ResumedFields
<1>4. world.ttlMax \in Nat /\ world.budgetMax \in Nat /\ world.fanout \in Nat /\ Len(p) \in Nat
  BY WorldType
<1>5. /\ c.ttl >= 1 /\ c.ttl + Len(p) <= world.ttlMax + 1
      /\ c.budget <= world.budgetMax /\ c.tried <= world.fanout /\ c.left \cap OnPath(p) = {}
      /\ c.tried <= c.spent + 1 /\ 0 <= c.spent /\ c.spent + 1 <= c.budget
  BY DEF CallSound, Began
<1> HIDE DEF d
<1>6. LET n == c.spent + 1 + x IN
      /\ n \in Int /\ 0 <= n /\ c.tried <= n
      /\ n <= c.budget /\ n <= world.budgetMax
  <2>1. c.spent + 1 + x <= c.budget
    BY <1>1, <1>2
  <2>2. c.spent + 1 + x \in Int /\ 0 <= c.spent + 1 + x /\ c.tried <= c.spent + 1 + x
    BY <1>1, <1>2, <1>5
  <2>3. c.spent + 1 + x <= world.budgetMax
    BY <1>1, <1>2, <1>4, <1>5, <2>1
  <2> QED
    BY <2>1, <2>2, <2>3
<1>7. CallSound(p, d)
  <2>1. CASE delivered
    BY <1>1, <1>3, <1>4, <1>5, <1>6, <2>1 DEF CallSound, Began
  <2>2. CASE ~delivered
    BY <1>1, <1>3, <1>4, <1>5, <1>6, <2>2 DEF CallSound, Began
  <2> QED
    BY <2>1, <2>2
<1> QED
  BY <1>7 DEF d

(* Every step keeps every call sound, liars, timeouts and blocks included. *)
LEMMA BoundStep == BoundInv /\ [Next]_vars => BoundInv'
<1> SUFFICES ASSUME BoundInv, [Next]_vars PROVE BoundInv'
  OBVIOUS
<1>0. TypeOK /\ TypeOK'
  BY TypeStep DEF BoundInv
<1>1. CASE UNCHANGED vars
  BY <1>0, <1>1 DEF vars, BoundInv, PathSound, CallSound, Began, OnPath
<1>2. ASSUME NEW p \in DOMAIN calls, Refuse(p) \/ Deliver(p) \/ Search(p) \/ Lie(p) \/ Timeout(p) \/ NoRoute(p)
      PROVE BoundInv'
  <2> DEFINE c == calls[p]
  <2>1. c \in Call /\ PathSound(p) /\ CallSound(p, c) /\ p \in Seq(Nodes) /\ Len(p) \in Nat \ {0}
    BY <1>0, PathType DEF BoundInv
  <2>2. world.ttlMax \in Nat /\ world.budgetMax \in Nat /\ world.fanout \in Nat
    BY <1>0, WorldType
  <2>3. c.ttl \in Int /\ c.budget \in Int /\ c.tried \in Nat /\ c.spent \in Int /\ c.left \subseteq Nodes
    BY <2>1 DEF Call
  <2>4. CASE Refuse(p)
    <3>1. c.state = "asked" /\ Len(p) > 1 /\ calls' = Put(p, Answered(c, FALSE)) /\ world' = world
      BY <2>4 DEF Refuse, In
    <3>2. CallSound(p, Answered(c, FALSE))
      BY <1>0, <2>1, <3>1, AnsweredSound
    <3> QED
      BY <1>0, <3>1, <3>2, PutBound
  <2>5. CASE Deliver(p)
    <3>1. c.state = "asked" /\ calls' = Put(p, Answered(c, TRUE)) /\ world' = world
      BY <2>5 DEF Deliver, Arrives, In
    <3>2. CallSound(p, Answered(c, TRUE))
      BY <1>0, <2>1, <3>1, AnsweredSound
    <3> QED
      BY <1>0, <3>1, <3>2, PutBound
  <2>6. CASE Search(p)
    <3> DEFINE e == Clamped(c)
               d == IF e.ttl <= 0 \/ e.budget <= 0 THEN Answered(e, FALSE)
                    ELSE [e EXCEPT !.state = "searching", !.left = Candidates(p)]
    <3>1. c.state = "asked" /\ calls' = Put(p, d) /\ world' = world
      BY <2>6 DEF Search, Arrives, In
    <3>2. /\ e \in Call
          /\ e.state = "asked" /\ e.tried = 0 /\ e.spent = 0
      BY <1>0, <2>1, <3>1, ClampedFields DEF CallSound
    <3>3. /\ CallSound(p, e)
          /\ e.ttl \in Int /\ e.budget \in Int
          /\ e.ttl <= world.ttlMax /\ e.budget <= world.budgetMax
      BY <1>0, <2>1, <3>1, <3>2, ClampedSound DEF Call
    <3> HIDE DEF e
    <3>4. CASE e.ttl <= 0 \/ e.budget <= 0
      <4>1. d = Answered(e, FALSE)
        BY <3>4
      <4>2. CallSound(p, d)
        BY <1>0, <2>1, <3>2, <3>3, <4>1, AnsweredSound
      <4> QED
        BY <1>0, <3>1, <4>2, PutBound
    <3>5. CASE ~(e.ttl <= 0 \/ e.budget <= 0)
      <4>1. d = [e EXCEPT !.state = "searching", !.left = Candidates(p)]
        BY <3>5
      <4>2. d.state = "searching" /\ d.left = Candidates(p) /\ d.ttl = e.ttl /\ d.budget = e.budget
            /\ d.tried = 0 /\ d.spent = 0
        BY <3>2, <4>1 DEF Call
      <4>3. Candidates(p) \cap OnPath(p) = {}
        BY <1>0, PathType DEF Candidates, OnPath
      <4>4. e.ttl + Len(p) <= world.ttlMax + 1
        BY <2>1, <2>2, <3>2, <3>3 DEF CallSound
      <4>5. CallSound(p, d)
        <5> HIDE DEF d
        <5> QED
          BY <2>1, <2>2, <3>3, <3>5, <4>2, <4>3, <4>4 DEF CallSound, Began
      <4> QED
        BY <1>0, <3>1, <4>5, PutBound
    <3> QED
      BY <3>4, <3>5
  <2>7. CASE Lie(p)
    <3>1. PICK delivered \in BOOLEAN, spent \in Reports :
            calls' = Put(p, [Answered(c, delivered) EXCEPT !.spent = spent])
      BY <2>7 DEF Lie
    <3> DEFINE d == [Answered(c, delivered) EXCEPT !.spent = spent]
    <3>2. d.state = "answered" /\ Last(p) \in world.liars /\ world' = world
      BY <2>1, <2>7, <3>1, AnsweredFields DEF Lie, Call
    <3>3. CallSound(p, d)
      BY <3>2 DEF CallSound, Began
    <3> QED
      BY <1>0, <3>1, <3>2, <3>3, PutBound
  <2>8. CASE Timeout(p)
    <3>1. c.state = "waiting" /\ calls' = Put(p, Resumed(c, FALSE, 0)) /\ world' = world
      BY <2>8 DEF Timeout, In
    <3>2. 0 \in 0..(c.budget - c.spent - 1)
      BY <2>1, <2>3, <3>1 DEF CallSound
    <3>3. CallSound(p, Resumed(c, FALSE, 0))
      BY <1>0, <2>1, <3>1, <3>2, ResumedSound, FALSE \in BOOLEAN, Zenon
    <3> QED
      BY <1>0, <3>1, <3>3, PutBound
  <2>9. CASE NoRoute(p)
    <3>1. c.state = "searching" /\ calls' = Put(p, Answered(c, FALSE)) /\ world' = world
      BY <2>9 DEF NoRoute, In
    <3>2. CallSound(p, Answered(c, FALSE))
      BY <1>0, <2>1, <3>1, AnsweredSound
    <3> QED
      BY <1>0, <3>1, <3>2, PutBound
  <2> QED
    BY <1>2, <2>4, <2>5, <2>6, <2>7, <2>8, <2>9
<1>3. ASSUME NEW p \in DOMAIN calls, NEW k \in Nodes, Forward(p, k)
      PROVE BoundInv'
  <2> DEFINE c == calls[p]
             w == Waits(c, k)
             d == Asked(k, c.ttl - 1, c.budget - c.spent - 1)
             q == Append(p, k)
  <2>1. c \in Call /\ PathSound(p) /\ CallSound(p, c) /\ p \in Seq(Nodes) /\ Len(p) \in Nat \ {0}
    BY <1>0, PathType DEF BoundInv
  <2>2. world.ttlMax \in Nat /\ world.budgetMax \in Nat /\ world.fanout \in Nat /\ world' = world
    BY <1>0, <1>3, WorldType DEF Forward
  <2>3. c.ttl \in Int /\ c.budget \in Int /\ c.tried \in Nat /\ c.spent \in Int /\ c.left \subseteq Nodes
    BY <2>1 DEF Call
  <2>4. c.state = "searching" /\ k \in c.left /\ c.tried < world.fanout /\ c.budget - c.spent - 1 >= 0
    BY <1>3 DEF Forward, In, MayForward
  <2>5. calls' = [r \in DOMAIN calls \cup {q} |-> IF r = q THEN d ELSE IF r = p THEN w ELSE calls[r]]
    BY <1>3 DEF Forward
  <2>6. /\ w.state = "waiting" /\ w.left = c.left \ {k} /\ w.tried = c.tried + 1
        /\ w.ttl = c.ttl /\ w.budget = c.budget /\ w.spent = c.spent
    BY <2>1, WaitsFields
  <2>7. d.state = "asked" /\ d.ttl = c.ttl - 1 /\ d.budget = c.budget - c.spent - 1
        /\ d.tried = 0 /\ d.spent = 0
    BY DEF Asked
  <2>8. Len(q) = Len(p) + 1 /\ q[Len(p) + 1] = k /\ \A i \in 1..Len(p) : q[i] = p[i]
    BY <2>1, AppendProperties
  <2> HIDE DEF w, d, q, c
  <2>14. /\ c.ttl >= 1 /\ c.ttl + Len(p) <= world.ttlMax + 1
         /\ c.budget <= world.budgetMax /\ c.left \cap OnPath(p) = {}
         /\ c.tried <= c.spent /\ c.spent <= c.budget
    BY <2>1, <2>4 DEF CallSound, Began
  <2>9. CallSound(p, w)
    <3>1. w.tried <= w.spent + 1 /\ 0 <= w.spent /\ w.spent + 1 <= w.budget /\ w.tried <= world.fanout
      BY <2>2, <2>3, <2>4, <2>6, <2>14
    <3>2. w.left \cap OnPath(p) = {}
      BY <2>6, <2>14
    <3> QED
      BY <2>6, <2>14, <3>1, <3>2 DEF CallSound, Began
  <2>10. CallSound(q, d)
    <3>1. d.ttl + Len(q) <= world.ttlMax + 1
      BY <2>1, <2>2, <2>3, <2>7, <2>8, <2>14
    <3>2. d.budget \in 0..world.budgetMax
      BY <2>2, <2>3, <2>4, <2>7, <2>14
    <3> QED
      BY <2>7, <3>1, <3>2 DEF CallSound, Began
  <2>11. \A i \in 1..Len(p) : p[i] # k
    BY <2>4, <2>14 DEF OnPath
  <2>12. PathSound(q)
    <3>1. Len(q) <= world.ttlMax + 1
      BY <2>1, <2>2, <2>3, <2>8, <2>14
    <3>2. ASSUME NEW i \in 1..Len(q), NEW j \in 1..Len(q), q[i] = q[j] PROVE i = j
      BY <2>1, <2>8, <2>11, <3>2 DEF PathSound
    <3> QED
      BY <2>1, <2>8, <3>1, <3>2 DEF PathSound
  <2>13. \A r \in DOMAIN calls' : PathSound(r) /\ CallSound(r, calls'[r])
    BY <2>1, <2>5, <2>9, <2>10, <2>12 DEF BoundInv
  <2> QED
    BY <1>0, <2>2, <2>13 DEF BoundInv, PathSound, CallSound, Began, OnPath
<1>4. ASSUME NEW p \in DOMAIN calls, Answer(p)
      PROVE BoundInv'
  <2> DEFINE c == calls[p]
             q == Append(p, c.on)
             x == Charge(calls[q].spent, c.budget - c.spent - 1)
             d == Resumed(c, calls[q].delivered, x)
  <2>1. c \in Call /\ CallSound(p, c) /\ q \in DOMAIN calls /\ calls[q] \in Call
        /\ c.state = "waiting" /\ world' = world
    BY <1>0, <1>4, PathType DEF Answer, In, BoundInv
  <2>2. world.ttlMax \in Nat /\ world.budgetMax \in Nat /\ world.fanout \in Nat
    BY <1>0, WorldType
  <2>3. c.ttl \in Int /\ c.budget \in Int /\ c.tried \in Nat /\ c.spent \in Int /\ c.left \subseteq Nodes
        /\ calls[q].spent \in Int /\ calls[q].delivered \in BOOLEAN
    BY <2>1 DEF Call
  <2>4. x \in 0..(c.budget - c.spent - 1)
    <3>1. c.budget - c.spent - 1 \in Int /\ c.budget - c.spent - 1 >= 0
      BY <2>1, <2>3 DEF CallSound
    <3> QED
      BY <2>3, <3>1, ChargeType
  <2>5. calls' = [r \in DOMAIN calls \ {q} |-> IF r = p THEN d ELSE calls[r]]
    BY <1>4 DEF Answer
  <2>7. CallSound(p, d)
    <3> HIDE DEF x, q, c
    <3> QED
      BY <1>0, <2>1, <2>3, <2>4, ResumedSound, PathType
  <2> HIDE DEF d, x, q, c
  <2>8. \A r \in DOMAIN calls' : PathSound(r) /\ CallSound(r, calls'[r])
    BY <2>5, <2>7 DEF BoundInv
  <2> QED
    BY <1>0, <2>1, <2>8 DEF BoundInv, PathSound, CallSound, Began, OnPath
<1>5. ASSUME NEW n \in Nodes, NEW k \in Nodes, Block(n, k)
      PROVE BoundInv'
  BY <1>0, <1>5 DEF Block, BoundInv, PathSound, CallSound, Began, OnPath
<1> QED
  BY <1>1, <1>2, <1>3, <1>4, <1>5 DEF Next

(* Calls are sound in every reachable state.                               *)
LEMMA BoundHolds == Spec => []BoundInv
  BY InitBound, BoundStep, PTL DEF Spec

(* Routing.EachSearchIsBounded, for any graph, liars, reports, losses and  *)
(* ceilings: relay() forwards no deeper, wider or more than the machine's  *)
(* own ceilings, and visits nobody twice.                                  *)
THEOREM SearchesAreBounded == Spec => []EachSearchIsBounded
<1>1. BoundInv => EachSearchIsBounded
  <2> SUFFICES ASSUME BoundInv, NEW p \in DOMAIN calls
               PROVE  /\ PathSound(p)
                      /\ Last(p) \notin world.liars =>
                           /\ calls[p].tried <= world.fanout
                           /\ calls[p].tried <= world.budgetMax
                           /\ calls[p].spent \in 0..world.budgetMax
    BY PathType DEF BoundInv, EachSearchIsBounded, PathSound
  <2>1. calls[p] \in Call /\ CallSound(p, calls[p])
    BY PathType DEF BoundInv
  <2>2. world.budgetMax \in Nat /\ world.fanout \in Nat
    BY WorldType DEF BoundInv
  <2>3. calls[p].tried \in Nat /\ calls[p].spent \in Int /\ calls[p].budget \in Int
        /\ calls[p].state \in {"asked", "searching", "waiting", "answered"}
    BY <2>1 DEF Call
  <2> QED
    BY <2>1, <2>2, <2>3 DEF BoundInv, CallSound, Began
<1> QED
  BY <1>1, BoundHolds, PTL

-----------------------------------------------------------------------------
(* A truthful search is one chain of calls.                                *)

(* What a prefix is, and how the next is made of it.                       *)
LEMMA PrefixIs ==
  ASSUME NEW P \in Seq(Nodes), NEW i \in 1..Len(P)
  PROVE  /\ Prefix(P, i) \in Seq(Nodes) /\ Prefix(P, i) # <<>> /\ Len(Prefix(P, i)) = i
         /\ \A j \in 1..i : Prefix(P, i)[j] = P[j]
         /\ Prefix(P, Len(P)) = P
         /\ i < Len(P) => Append(Prefix(P, i), P[i + 1]) = Prefix(P, i + 1)
<1>1. \A j \in 1..Len(P) : P[j] \in Nodes
  BY ElementOfSeq
<1>2. \A n \in 1..Len(P) : /\ Prefix(P, n) \in Seq(Nodes) /\ Len(Prefix(P, n)) = n
                            /\ \A j \in 1..n : Prefix(P, n)[j] = P[j]
  BY <1>1, SubSeqProperties DEF Prefix
<1>3. Prefix(P, Len(P)) = P
  BY SubSeqFull DEF Prefix
<1>4. ASSUME i < Len(P) PROVE Append(Prefix(P, i), P[i + 1]) = Prefix(P, i + 1)
  <2> DEFINE s == Append(Prefix(P, i), P[i + 1])
             t == Prefix(P, i + 1)
  <2>1. i + 1 \in 1..Len(P) /\ i \in Nat
    BY <1>4
  <2>2. t \in Seq(Nodes) /\ Len(t) = i + 1 /\ \A j \in 1..(i + 1) : t[j] = P[j]
    BY <1>2, <2>1
  <2>3. Prefix(P, i) \in Seq(Nodes) /\ Len(Prefix(P, i)) = i
        /\ (\A j \in 1..i : Prefix(P, i)[j] = P[j]) /\ P[i + 1] \in Nodes
    BY <1>1, <1>2, <2>1
  <2>4. s \in Seq(Nodes) /\ Len(s) = i + 1 /\ (\A j \in 1..i : s[j] = P[j]) /\ s[i + 1] = P[i + 1]
    BY <2>3, AppendProperties
  <2> HIDE DEF s, t
  <2>5. \A j \in 1..Len(s) : s[j] = t[j]
    BY <2>1, <2>2, <2>4
  <2>6. s = t
    BY <2>2, <2>4, <2>5, SeqEqual
  <2> QED
    BY <2>6 DEF s, t
<1> QED
  BY <1>2, <1>3, <1>4

(* The prefixes of a path that grows.                                      *)
LEMMA PrefixOfAppend ==
  ASSUME NEW P \in Seq(Nodes), NEW k \in Nodes
  PROVE  /\ \A i \in 1..Len(P) : Prefix(Append(P, k), i) = Prefix(P, i)
         /\ Prefix(Append(P, k), Len(P) + 1) = Append(P, k)
<1> DEFINE Q == Append(P, k)
<1>1. Q \in Seq(Nodes) /\ Len(Q) = Len(P) + 1 /\ \A j \in 1..Len(P) : Q[j] = P[j]
  BY Extended
<1> HIDE DEF Q
<1>2. ASSUME NEW i \in 1..Len(P) PROVE Prefix(Q, i) = Prefix(P, i)
  <2>1. i \in 1..Len(Q) /\ 1..i \subseteq 1..Len(P)
    BY <1>1
  <2>2. /\ Prefix(Q, i) \in Seq(Nodes) /\ Len(Prefix(Q, i)) = i
        /\ Prefix(P, i) \in Seq(Nodes) /\ Len(Prefix(P, i)) = i
        /\ \A j \in 1..i : Prefix(Q, i)[j] = Q[j] /\ Prefix(P, i)[j] = P[j]
    BY <1>1, <2>1, PrefixIs
  <2> QED
    BY <1>1, <2>1, <2>2, SeqEqual
<1>3. Prefix(Q, Len(P) + 1) = Q
  BY <1>1, PrefixIs
<1> QED
  BY <1>2, <1>3 DEF Q

(* The prefixes of a path that shrinks.                                    *)
LEMMA PrefixOfPrefix ==
  ASSUME NEW P \in Seq(Nodes), NEW n \in 1..Len(P), NEW i \in 1..n
  PROVE  Prefix(Prefix(P, n), i) = Prefix(P, i)
<1> DEFINE Q == Prefix(P, n)
<1>1. Q \in Seq(Nodes) /\ Len(Q) = n /\ \A j \in 1..n : Q[j] = P[j]
  BY PrefixIs
<1> HIDE DEF Q
<1>2. i \in 1..Len(Q) /\ i \in 1..Len(P) /\ 1..i \subseteq 1..n
  BY <1>1
<1>3. /\ Prefix(Q, i) \in Seq(Nodes) /\ Len(Prefix(Q, i)) = i
      /\ Prefix(P, i) \in Seq(Nodes) /\ Len(Prefix(P, i)) = i
      /\ \A j \in 1..i : Prefix(Q, i)[j] = Q[j] /\ Prefix(P, i)[j] = P[j]
  BY <1>1, <1>2, PrefixIs
<1>4. Prefix(Q, i) = Prefix(P, i)
  BY <1>1, <1>2, <1>3, SeqEqual
<1> QED
  BY <1>4 DEF Q

(* Of a chain only the last call is not waiting.                           *)
LEMMA OneIsActive ==
  ASSUME NEW P, ChainOf(P), NEW p \in DOMAIN calls
  PROVE  /\ calls[p].state # "waiting" => p = P
         /\ \E i \in 1..Len(P) : p = Prefix(P, i)
         /\ P \in DOMAIN calls /\ P \in Seq(Nodes) /\ Len(P) \in Nat \ {0}
<1>1. P \in Seq(Nodes) /\ Len(P) \in Nat \ {0}
  BY EmptySeq DEF ChainOf
<1>2. PICK i \in 1..Len(P) : p = Prefix(P, i)
  BY DEF ChainOf
<1>3. Len(P) \in 1..Len(P) /\ Prefix(P, Len(P)) = P
  BY <1>1, PrefixIs
<1>4. i # Len(P) => i \in 1..(Len(P) - 1)
  BY <1>1
<1>5. calls[p].state # "waiting" => p = P
  BY <1>2, <1>3, <1>4 DEF ChainOf
<1> QED
  BY <1>1, <1>2, <1>3, <1>5 DEF ChainOf

(* The last call of a chain may go on: what it was given stays the same.   *)
LEMMA PutAtEnd ==
  ASSUME NEW P, ChainOf(P), SumOf(P), NEW d, calls' = Put(P, d), d.state # "waiting",
         Len(P) > 1 => d.ttl = calls[P].ttl /\ d.budget = calls[P].budget,
         d.spent = calls[P].spent, forwards' = forwards,
         \/ deliveries' = 0
         \/ deliveries' = 1 /\ d.state = "answered" /\ d.delivered
  PROVE  ChainOf(P)' /\ SumOf(P)'
<1>1. P \in DOMAIN calls /\ P \in Seq(Nodes) /\ Len(P) \in Nat \ {0} /\ Prefix(P, Len(P)) = P
      /\ P # <<>>
  <2>1. P \in Seq(Nodes) /\ Len(P) \in Nat \ {0} /\ P # <<>>
    BY EmptySeq DEF ChainOf
  <2>2. Len(P) \in 1..Len(P) /\ Prefix(P, Len(P)) = P
    BY <2>1, PrefixIs
  <2> QED
    BY <2>1, <2>2 DEF ChainOf
<1>2. calls'[P] = d /\ DOMAIN calls' = DOMAIN calls
  BY <1>1 DEF Put
<1>3. ASSUME NEW i \in 1..(Len(P) - 1)
      PROVE  Prefix(P, i) \in DOMAIN calls /\ Prefix(P, i) # P /\ calls'[Prefix(P, i)] = calls[Prefix(P, i)]
  <2>1. i \in 1..Len(P) /\ i # Len(P)
    BY <1>1
  <2>2. Len(Prefix(P, i)) = i
    BY <1>1, <2>1, PrefixIs
  <2> QED
    BY <2>1, <2>2 DEF Put, ChainOf
<1>4. ASSUME NEW i \in 1..(Len(P) - 1)
      PROVE  calls'[Prefix(P, i + 1)].ttl = calls[Prefix(P, i + 1)].ttl
             /\ calls'[Prefix(P, i + 1)].budget = calls[Prefix(P, i + 1)].budget
  <2>1. CASE i + 1 = Len(P)
    BY <1>1, <1>2, <2>1
  <2>2. CASE i + 1 # Len(P)
    <3>1. i + 1 \in 1..(Len(P) - 1)
      BY <1>1, <2>2
    <3> QED
      BY <1>3, <3>1
  <2> QED
    BY <2>1, <2>2
<1>5. ChainOf(P)'
  BY <1>1, <1>2, <1>3, <1>4 DEF ChainOf
<1>6. SumOf(P)'
  BY <1>1, <1>2, <1>3 DEF SumOf
<1> QED
  BY <1>5, <1>6

(* A forward makes the chain one call longer.                              *)
LEMMA ChainGrows ==
  ASSUME NEW P, ChainOf(P), SumOf(P), NEW k \in Nodes, NEW w, NEW d,
         calls' = [r \in DOMAIN calls \cup {Append(P, k)} |->
                     IF r = Append(P, k) THEN d ELSE IF r = P THEN w ELSE calls[r]],
         w.state = "waiting", w.on = k,
         w.ttl = calls[P].ttl, w.budget = calls[P].budget, w.spent = calls[P].spent,
         d.state = "asked", d.spent = 0, d.ttl = w.ttl - 1, d.budget = w.budget - w.spent - 1,
         calls[P].spent \in Nat, forwards' = forwards + 1, deliveries' = 0
  PROVE  ChainOf(Append(P, k))' /\ SumOf(Append(P, k))'
<1> DEFINE Q == Append(P, k)
           n == Len(P)
<1>1. P \in Seq(Nodes) /\ n \in Nat \ {0} /\ P # <<>> /\ n \in 1..n /\ Prefix(P, n) = P
  <2>1. P \in Seq(Nodes) /\ Len(P) \in Nat \ {0} /\ P # <<>>
    BY EmptySeq DEF ChainOf
  <2>2. Len(P) \in 1..Len(P)
    BY <2>1
  <2> QED
    BY <2>1, <2>2, PrefixIs
<1>2. Q \in Seq(Nodes) /\ Q # <<>> /\ Len(Q) = n + 1 /\ Q[n + 1] = k /\ \A i \in 1..n : Q[i] = P[i]
  BY <1>1, AppendProperties
<1>3. (\A i \in 1..n : Prefix(Q, i) = Prefix(P, i)) /\ Prefix(Q, n + 1) = Q
  BY <1>1, PrefixOfAppend
<1>4. \A i \in 1..n : Len(Prefix(P, i)) = i
  BY <1>1, PrefixIs
<1> HIDE DEF Q
<1>5. DOMAIN calls = {Prefix(P, i) : i \in 1..n}
  BY DEF ChainOf
<1>6. DOMAIN calls' = {Prefix(Q, i) : i \in 1..Len(Q)}
  <2>1. DOMAIN calls' = DOMAIN calls \cup {Q}
    BY DEF Q
  <2>2. 1..Len(Q) = 1..n \cup {n + 1}
    BY <1>1, <1>2
  <2> QED
    BY <1>3, <1>5, <2>1, <2>2
<1>7. \A i \in 1..n : Prefix(P, i) \in DOMAIN calls /\ Prefix(P, i) # Q
  BY <1>1, <1>2, <1>4, <1>5
<1>8. \A i \in 1..(n - 1) : Prefix(P, i) # P
  BY <1>1, <1>4
<1>9. calls'[Q] = d /\ calls'[P] = w /\ \A i \in 1..(n - 1) : calls'[Prefix(P, i)] = calls[Prefix(P, i)]
  <2>1. calls' = [r \in DOMAIN calls \cup {Q} |-> IF r = Q THEN d ELSE IF r = P THEN w ELSE calls[r]]
    BY DEF Q
  <2>2. P \in DOMAIN calls /\ P # Q
    BY <1>1, <1>7
  <2>3. \A i \in 1..(n - 1) : i \in 1..n
    BY <1>1
  <2> QED
    BY <1>7, <1>8, <2>1, <2>2, <2>3
<1>10. ChainOf(Q)'
  <2>1. ASSUME NEW i \in 1..(Len(Q) - 1)
        PROVE  LET c == calls'[Prefix(Q, i)]
                   e == calls'[Prefix(Q, i + 1)] IN
               /\ c.state = "waiting" /\ c.on = Q[i + 1]
               /\ e.ttl = c.ttl - 1 /\ e.budget = c.budget - c.spent - 1
    <3>1. i \in 1..n
      BY <1>1, <1>2
    <3>2. CASE i = n
      BY <1>1, <1>2, <1>3, <1>9, <3>2
    <3>3. CASE i # n
      <4>1. i \in 1..(n - 1) /\ i + 1 \in 1..n
        BY <1>1, <3>1, <3>3
      <4>2. Prefix(Q, i) = Prefix(P, i) /\ Prefix(Q, i + 1) = Prefix(P, i + 1) /\ Q[i + 1] = P[i + 1]
        BY <1>2, <1>3, <3>1, <4>1
      <4>3. calls'[Prefix(P, i)] = calls[Prefix(P, i)]
        BY <1>9, <4>1
      <4>4. calls'[Prefix(P, i + 1)].ttl = calls[Prefix(P, i + 1)].ttl
            /\ calls'[Prefix(P, i + 1)].budget = calls[Prefix(P, i + 1)].budget
        <5>1. CASE i + 1 = n
          BY <1>1, <1>9, <5>1
        <5>2. CASE i + 1 # n
          <6>1. i + 1 \in 1..(n - 1)
            BY <1>1, <4>1, <5>2
          <6> QED
            BY <1>9, <6>1
        <5> QED
          BY <5>1, <5>2
      <4>5. /\ calls[Prefix(P, i)].state = "waiting" /\ calls[Prefix(P, i)].on = P[i + 1]
            /\ calls[Prefix(P, i + 1)].ttl = calls[Prefix(P, i)].ttl - 1
            /\ calls[Prefix(P, i + 1)].budget = calls[Prefix(P, i)].budget - calls[Prefix(P, i)].spent - 1
        BY <4>1 DEF ChainOf
      <4> QED
        BY <4>2, <4>3, <4>4, <4>5
    <3> QED
      BY <3>2, <3>3
  <2> QED
    BY <1>2, <1>6, <1>9, <2>1 DEF ChainOf
<1>11. SumOf(Q)'
  <2>1. PICK a \in [1..n -> Nat] :
          /\ a[1] = 0
          /\ \A i \in 1..(n - 1) : a[i + 1] = a[i] + calls[Prefix(P, i)].spent + 1
          /\ forwards = a[n] + calls[P].spent
    BY DEF SumOf
  <2> DEFINE b == [i \in 1..Len(Q) |-> IF i = n + 1 THEN forwards + 1 ELSE a[i]]
  <2>2. forwards \in Nat
    BY <1>1, <2>1
  <2>3. b \in [1..Len(Q) -> Nat]
    BY <1>1, <1>2, <2>1, <2>2
  <2>4. (\A i \in 1..n : b[i] = a[i]) /\ b[n + 1] = forwards + 1
    BY <1>1, <1>2
  <2> HIDE DEF b
  <2>5. b[1] = 0
    BY <1>1, <2>1, <2>4
  <2>6. ASSUME NEW i \in 1..(Len(Q) - 1)
        PROVE  b[i + 1] = b[i] + calls'[Prefix(Q, i)].spent + 1
    <3>1. i \in 1..n
      BY <1>1, <1>2
    <3>2. CASE i = n
      BY <1>1, <1>3, <1>9, <2>1, <2>4, <3>2
    <3>3. CASE i # n
      <4>1. i \in 1..(n - 1) /\ i + 1 \in 1..n
        BY <1>1, <3>1, <3>3
      <4>2. b[i] = a[i] /\ b[i + 1] = a[i + 1]
        BY <2>4, <3>1, <4>1
      <4>3. calls'[Prefix(Q, i)] = calls[Prefix(P, i)]
        BY <1>3, <1>9, <3>1, <4>1
      <4>4. a[i + 1] = a[i] + calls[Prefix(P, i)].spent + 1
        BY <2>1, <4>1
      <4> QED
        BY <4>2, <4>3, <4>4
    <3> QED
      BY <3>2, <3>3
  <2>7. forwards' = b[Len(Q)] + calls'[Q].spent
    BY <1>2, <1>9, <2>2, <2>4
  <2> QED
    BY <2>3, <2>5, <2>6, <2>7 DEF SumOf
<1> QED
  BY <1>10, <1>11 DEF Q

(* An answer makes it one call shorter, and moves what was spent there to  *)
(* the caller.                                                             *)
LEMMA ChainShrinks ==
  ASSUME NEW P, ChainOf(P), SumOf(P), NEW m \in Nat \ {0}, Len(P) = m + 1, NEW e,
         calls' = [r \in DOMAIN calls \ {P} |-> IF r = Prefix(P, m) THEN e ELSE calls[r]],
         e.state # "waiting", e.ttl = calls[Prefix(P, m)].ttl, e.budget = calls[Prefix(P, m)].budget,
         calls[Prefix(P, m)].spent \in Int, calls[P].spent \in Int,
         e.spent = calls[Prefix(P, m)].spent + 1 + calls[P].spent, forwards' = forwards,
         \/ deliveries' = 0
         \/ deliveries' = 1 /\ e.state = "answered" /\ e.delivered
  PROVE  ChainOf(Prefix(P, m))' /\ SumOf(Prefix(P, m))'
<1> DEFINE Q == Prefix(P, m)
<1>1. P \in Seq(Nodes) /\ m \in 1..Len(P) /\ m + 1 \in 1..Len(P)
  BY DEF ChainOf
<1>2. Q \in Seq(Nodes) /\ Q # <<>> /\ Len(Q) = m /\ Prefix(P, m + 1) = P
      /\ \A i \in 1..m : Q[i] = P[i]
  BY <1>1, PrefixIs
<1>3. \A i \in 1..m : Prefix(Q, i) = Prefix(P, i)
  BY <1>1, PrefixOfPrefix
<1>4. \A i \in 1..Len(P) : Len(Prefix(P, i)) = i
  BY <1>1, PrefixIs
<1>5. \A i \in 1..m : Prefix(P, i) \in DOMAIN calls /\ Prefix(P, i) # P
  <2> SUFFICES ASSUME NEW i \in 1..m PROVE Prefix(P, i) \in DOMAIN calls /\ Prefix(P, i) # P
    OBVIOUS
  <2>1. i \in 1..Len(P) /\ i # Len(P)
    OBVIOUS
  <2> QED
    BY <1>4, <2>1 DEF ChainOf
<1>6. \A i \in 1..(m - 1) : Prefix(P, i) # Q
  <2> SUFFICES ASSUME NEW i \in 1..(m - 1) PROVE Prefix(P, i) # Q
    OBVIOUS
  <2>1. i \in 1..Len(P) /\ i # m
    OBVIOUS
  <2> QED
    BY <1>2, <1>4, <2>1
<1>7. calls' = [r \in DOMAIN calls \ {P} |-> IF r = Q THEN e ELSE calls[r]]
  OBVIOUS
<1> HIDE DEF Q
<1>8. calls'[Q] = e /\ \A i \in 1..(m - 1) : calls'[Prefix(P, i)] = calls[Prefix(P, i)]
  <2>1. Q \in DOMAIN calls /\ Q # P
    BY <1>5 DEF Q
  <2>2. \A i \in 1..(m - 1) : i \in 1..m
    OBVIOUS
  <2> QED
    BY <1>5, <1>6, <1>7, <2>1, <2>2
<1>9. DOMAIN calls' = {Prefix(Q, i) : i \in 1..Len(Q)}
  <2>1. DOMAIN calls' = DOMAIN calls \ {P}
    BY <1>7
  <2>2. 1..Len(P) = 1..m \cup {m + 1}
    OBVIOUS
  <2>3. DOMAIN calls = {Prefix(P, i) : i \in 1..Len(P)}
    BY DEF ChainOf
  <2>4. DOMAIN calls = {Prefix(P, i) : i \in 1..m} \cup {P}
    BY <1>2, <2>2, <2>3
  <2>5. {Prefix(Q, i) : i \in 1..Len(Q)} = {Prefix(P, i) : i \in 1..m}
    BY <1>2, <1>3
  <2> QED
    BY <1>5, <2>1, <2>4, <2>5
<1>10. ASSUME NEW i \in 1..(m - 1)
       PROVE  LET c == calls'[Prefix(Q, i)]
                  d == calls'[Prefix(Q, i + 1)] IN
              /\ c.state = "waiting" /\ c.on = Q[i + 1]
              /\ d.ttl = c.ttl - 1 /\ d.budget = c.budget - c.spent - 1
  <2>1. i \in 1..m /\ i + 1 \in 1..m /\ i \in 1..(Len(P) - 1)
    OBVIOUS
  <2>2. Prefix(Q, i) = Prefix(P, i) /\ Prefix(Q, i + 1) = Prefix(P, i + 1) /\ Q[i + 1] = P[i + 1]
    BY <1>2, <1>3, <2>1
  <2>3. calls'[Prefix(P, i)] = calls[Prefix(P, i)]
    BY <1>8
  <2>4. calls'[Prefix(P, i + 1)].ttl = calls[Prefix(P, i + 1)].ttl
        /\ calls'[Prefix(P, i + 1)].budget = calls[Prefix(P, i + 1)].budget
    <3>1. CASE i + 1 = m
      BY <1>8, <3>1 DEF Q
    <3>2. CASE i + 1 # m
      <4>1. i + 1 \in 1..(m - 1)
        BY <2>1, <3>2
      <4> QED
        BY <1>8, <4>1
    <3> QED
      BY <3>1, <3>2
  <2>5. /\ calls[Prefix(P, i)].state = "waiting" /\ calls[Prefix(P, i)].on = P[i + 1]
        /\ calls[Prefix(P, i + 1)].ttl = calls[Prefix(P, i)].ttl - 1
        /\ calls[Prefix(P, i + 1)].budget = calls[Prefix(P, i)].budget - calls[Prefix(P, i)].spent - 1
    BY <2>1 DEF ChainOf
  <2> QED
    BY <2>2, <2>3, <2>4, <2>5
<1>11. ChainOf(Q)'
  BY <1>2, <1>8, <1>9, <1>10 DEF ChainOf
<1>12. SumOf(Q)'
  <2>1. PICK a \in [1..Len(P) -> Nat] :
          /\ a[1] = 0
          /\ \A i \in 1..(Len(P) - 1) : a[i + 1] = a[i] + calls[Prefix(P, i)].spent + 1
          /\ forwards = a[Len(P)] + calls[P].spent
    BY DEF SumOf
  <2> DEFINE b == [i \in 1..Len(Q) |-> a[i]]
  <2>2. b \in [1..Len(Q) -> Nat] /\ \A i \in 1..m : b[i] = a[i]
    BY <1>2, <2>1
  <2> HIDE DEF b
  <2>3. ASSUME NEW i \in 1..(m - 1) PROVE b[i + 1] = b[i] + calls'[Prefix(Q, i)].spent + 1
    <3>1. i \in 1..m /\ i + 1 \in 1..m /\ i \in 1..(Len(P) - 1)
      OBVIOUS
    <3>2. calls'[Prefix(Q, i)] = calls[Prefix(P, i)]
      BY <1>3, <1>8, <3>1
    <3>3. a[i + 1] = a[i] + calls[Prefix(P, i)].spent + 1
      BY <2>1, <3>1
    <3> QED
      BY <2>2, <3>1, <3>2, <3>3
  <2>4. forwards' = b[m] + calls'[Q].spent
    <3>1. m \in 1..(Len(P) - 1) /\ m \in 1..m
      OBVIOUS
    <3>2. a[m + 1] = a[m] + calls[Prefix(P, m)].spent + 1 /\ b[m] = a[m]
      BY <2>1, <2>2, <3>1
    <3>3. a[m] \in Nat /\ forwards = a[m + 1] + calls[P].spent
      BY <1>1, <2>1
    <3>4. calls'[Q].spent = calls[Prefix(P, m)].spent + 1 + calls[P].spent
      BY <1>8
    <3> QED
      BY <3>2, <3>3, <3>4
  <2>5. b[1] = 0
    BY <2>1, <2>2
  <2> QED
    BY <1>2, <2>2, <2>3, <2>4, <2>5 DEF SumOf
<1> QED
  BY <1>11, <1>12 DEF Q

(* The first call is a chain of its own.                                   *)
LEMMA InitChain == Init => ChainInv
<1> SUFFICES ASSUME Init PROVE ChainOf(Root) /\ SumOf(Root) /\ Root \in Seq(Nodes)
  BY DEF ChainInv
<1>1. Root \in Seq(Nodes) /\ Root # <<>> /\ Len(Root) = 1
  BY RoutingAssumption DEF Root
<1>2. Prefix(Root, 1) = Root
  BY <1>1, PrefixIs
<1>3. calls = [p \in {Root} |-> Asked(Origin, world.ttl, world.budget)]
      /\ deliveries = 0 /\ forwards = 0
  BY DEF Init
<1> HIDE DEF Root
<1>4. calls[Root].state = "asked" /\ calls[Root].spent = 0 /\ DOMAIN calls = {Root}
  BY <1>3 DEF Asked
<1>5. ChainOf(Root)
  BY <1>1, <1>2, <1>3, <1>4 DEF ChainOf
<1>6. SumOf(Root)
  <2> DEFINE a == [i \in 1..Len(Root) |-> 0]
  <2>1. a \in [1..Len(Root) -> Nat] /\ a[1] = 0
    BY <1>1
  <2>2. 1..(Len(Root) - 1) = {} /\ forwards = a[Len(Root)] + calls[Root].spent
    BY <1>1, <1>3, <1>4, <2>1
  <2> HIDE DEF a
  <2> QED
    BY <2>1, <2>2 DEF SumOf
<1> QED
  BY <1>1, <1>5, <1>6

(* Every step of a truthful world keeps the calls one chain: a search is   *)
(* depth first, one call at a time.                                        *)
LEMMA ChainStep == BoundInv /\ ChainInv /\ [Next]_vars => ChainInv'
<1> SUFFICES ASSUME BoundInv, ChainInv, [Next]_vars, Truthful'
             PROVE  \E Q \in Seq(Nodes) : ChainOf(Q)' /\ SumOf(Q)'
  BY DEF ChainInv
<1>0. TypeOK /\ world' = world
  BY DEF BoundInv, Next, vars, Refuse, Deliver, Search, Lie, Timeout, NoRoute, Forward, Answer, Block
<1>1. world.liars = {} /\ ~world.loses
  BY <1>0 DEF Truthful
<1>2. PICK P \in Seq(Nodes) : ChainOf(P) /\ SumOf(P)
  BY <1>1 DEF ChainInv, Truthful
<1>3. P \in DOMAIN calls /\ Len(P) \in Nat \ {0}
  BY <1>0, <1>2, OneIsActive DEF ChainOf
<1>4. calls[P] \in Call /\ CallSound(P, calls[P])
  BY <1>0, <1>3, PathType DEF BoundInv
<1>5. /\ calls[P].ttl \in Int /\ calls[P].budget \in Int /\ calls[P].spent \in Int
      /\ calls[P].delivered \in BOOLEAN
  BY <1>4 DEF Call
<1>6. \A p \in DOMAIN calls : calls[p].state # "waiting" => p = P
  BY <1>2, OneIsActive
<1>7. calls[P].state # "answered" => deliveries = 0
  BY <1>2 DEF ChainOf
<1>8. CASE UNCHANGED vars \/ \E n, k \in Nodes : Block(n, k)
  <2>1. calls' = calls /\ forwards' = forwards /\ deliveries' = deliveries
    BY <1>8 DEF vars, Block
  <2> QED
    BY <1>2, <2>1 DEF ChainOf, SumOf
<1>9. ASSUME NEW p \in DOMAIN calls, Refuse(p) \/ Deliver(p) \/ Search(p) \/ NoRoute(p)
      PROVE  ChainOf(P)' /\ SumOf(P)'
  <2>1. p = P
    BY <1>6, <1>9 DEF Refuse, Deliver, Search, NoRoute, Arrives, In
  <2> DEFINE c == calls[P]
  <2>2. CASE Refuse(P) \/ NoRoute(P)
    <3>1. calls' = Put(P, Answered(c, FALSE)) /\ forwards' = forwards /\ deliveries' = 0
      BY <1>7, <2>2 DEF Refuse, NoRoute, In
    <3>2. LET d == Answered(c, FALSE) IN
          d.state = "answered" /\ d.ttl = c.ttl /\ d.budget = c.budget /\ d.spent = c.spent
      BY <1>4, AnsweredFields
    <3> HIDE DEF c
    <3> QED
      BY <1>2, <3>1, <3>2, PutAtEnd DEF c
  <2>3. CASE Deliver(P)
    <3>1. calls' = Put(P, Answered(c, TRUE)) /\ forwards' = forwards /\ deliveries' = 1
      BY <1>7, <2>3 DEF Deliver, Arrives, In
    <3>2. LET d == Answered(c, TRUE) IN
          d.state = "answered" /\ d.ttl = c.ttl /\ d.budget = c.budget /\ d.spent = c.spent /\ d.delivered
      BY <1>4, AnsweredFields
    <3> HIDE DEF c
    <3> QED
      BY <1>2, <3>1, <3>2, PutAtEnd DEF c
  <2>4. CASE Search(P)
    <3> DEFINE e == Clamped(c)
               d == IF e.ttl <= 0 \/ e.budget <= 0 THEN Answered(e, FALSE)
                    ELSE [e EXCEPT !.state = "searching", !.left = Candidates(P)]
    <3>1. c.state = "asked" /\ calls' = Put(P, d) /\ forwards' = forwards /\ deliveries' = 0
      BY <1>7, <2>4 DEF Search, Arrives, In
    <3>2. e \in Call /\ e.spent = c.spent
          /\ e.ttl = Least(c.ttl, world.ttlMax) /\ e.budget = Least(c.budget, world.budgetMax)
      BY <1>0, <1>4, ClampedFields
    <3>3. Len(P) > 1 => e.ttl = c.ttl /\ e.budget = c.budget
      BY <1>0, <1>3, <1>4, <1>5, <3>1, <3>2, WorldType DEF CallSound, Least
    <3> HIDE DEF e
    <3>4. d.state # "waiting" /\ d.ttl = e.ttl /\ d.budget = e.budget /\ d.spent = e.spent
      <4>1. CASE e.ttl <= 0 \/ e.budget <= 0
        BY <3>2, <4>1, AnsweredFields
      <4>2. CASE ~(e.ttl <= 0 \/ e.budget <= 0)
        BY <3>2, <4>2 DEF Call
      <4> QED
        BY <4>1, <4>2
    <3> HIDE DEF d
    <3> QED
      BY <1>2, <3>1, <3>2, <3>3, <3>4, PutAtEnd
  <2> QED
    BY <1>9, <2>1, <2>2, <2>3, <2>4
<1>10. ASSUME NEW p \in DOMAIN calls, NEW k \in Nodes, Forward(p, k)
       PROVE  ChainOf(Append(P, k))' /\ SumOf(Append(P, k))' /\ Append(P, k) \in Seq(Nodes)
  <2>1. p = P
    BY <1>6, <1>10 DEF Forward, In
  <2> DEFINE c == calls[P]
             w == Waits(c, k)
             d == Asked(k, c.ttl - 1, c.budget - c.spent - 1)
  <2>2. /\ c.state = "searching" /\ forwards' = forwards + 1 /\ deliveries' = 0
        /\ calls' = [r \in DOMAIN calls \cup {Append(P, k)} |->
                       IF r = Append(P, k) THEN d ELSE IF r = P THEN w ELSE calls[r]]
    BY <1>7, <1>10, <2>1 DEF Forward, In
  <2>3. /\ w.state = "waiting" /\ w.on = k
        /\ w.ttl = c.ttl /\ w.budget = c.budget /\ w.spent = c.spent
    BY <1>4, WaitsFields
  <2>4. d.state = "asked" /\ d.spent = 0 /\ d.ttl = c.ttl - 1 /\ d.budget = c.budget - c.spent - 1
    BY DEF Asked
  <2>5. c.spent \in Nat
    BY <1>4, <1>5, <2>2 DEF CallSound, Call
  <2> HIDE DEF w, d
  <2>6. ChainOf(Append(P, k))' /\ SumOf(Append(P, k))'
    BY <1>2, <2>2, <2>3, <2>4, <2>5, ChainGrows
  <2> QED
    BY <2>6, Extended
<1>11. ASSUME NEW p \in DOMAIN calls, Answer(p)
       PROVE  \E Q \in Seq(Nodes) : ChainOf(Q)' /\ SumOf(Q)'
  <2> DEFINE c == calls[p]
             q == Append(p, c.on)
  <2>1. c \in Call /\ c.state = "waiting" /\ q \in DOMAIN calls /\ calls[q].state = "answered"
        /\ forwards' = forwards /\ deliveries' = deliveries
    BY <1>0, <1>11, PathType DEF Answer, In
  <2>2. q = P
    BY <1>6, <2>1
  <2>3. p \in Seq(Nodes) /\ Len(p) \in Nat \ {0}
    BY <1>0, PathType
  <2>4. Len(P) = Len(p) + 1 /\ p = Prefix(P, Len(p))
    <3>1. c.on \in Nodes /\ Len(p) \in 1..Len(p)
      BY <2>1, <2>3 DEF Call
    <3>2. Len(P) = Len(p) + 1 /\ Prefix(Append(p, c.on), Len(p)) = Prefix(p, Len(p))
      BY <2>2, <2>3, <3>1, AppendProperties, PrefixOfAppend
    <3> QED
      BY <2>2, <2>3, <3>1, <3>2, PrefixIs
  <2> DEFINE m == Len(p)
             x == Charge(calls[P].spent, c.budget - c.spent - 1)
             e == Resumed(c, calls[P].delivered, x)
  <2>5. calls' = [r \in DOMAIN calls \ {P} |-> IF r = Prefix(P, m) THEN e ELSE calls[r]]
    BY <1>11, <2>2, <2>4 DEF Answer
  <2>6. calls[P].budget = c.budget - c.spent - 1
    <3>1. m \in 1..(Len(P) - 1) /\ Prefix(P, m + 1) = P
      BY <1>3, <2>3, <2>4, PrefixIs
    <3> QED
      BY <1>2, <2>4, <3>1 DEF ChainOf
  <2>7. c.budget \in Int /\ c.spent \in Int
    BY <2>1 DEF Call
  <2>8. x = calls[P].spent
    <3>1. Last(P) \notin world.liars /\ Len(P) > 1 /\ calls[P].state = "answered"
      BY <1>1, <2>1, <2>2, <2>3, <2>4
    <3>2. calls[P].spent \in 0..calls[P].budget
      BY <1>4, <1>5, <3>1 DEF CallSound
    <3> QED
      BY <2>6, <3>2 DEF Charge
  <2>9. /\ e.state = IF calls[P].delivered THEN "answered" ELSE "searching"
        /\ e.spent = c.spent + 1 + x /\ e.delivered = calls[P].delivered
        /\ e.ttl = c.ttl /\ e.budget = c.budget
    <3>1. x \in Int
      BY <1>5, <2>8
    <3> HIDE DEF c, x
    <3> QED
      BY <1>5, <2>1, <3>1, ResumedFields
  <2>10. deliveries' = 0 \/ (deliveries' = 1 /\ e.state = "answered" /\ e.delivered)
    BY <1>2, <2>1, <2>9 DEF ChainOf
  <2>11. e.spent = c.spent + 1 + calls[P].spent /\ e.state # "waiting"
    BY <2>8, <2>9
  <2>12. c = calls[Prefix(P, m)]
    BY <2>4
  <2> HIDE DEF e, x, c
  <2>13. ChainOf(Prefix(P, m))' /\ SumOf(Prefix(P, m))'
    BY <1>2, <1>5, <2>1, <2>3, <2>4, <2>5, <2>7, <2>9, <2>10, <2>11, <2>12, ChainShrinks
  <2> QED
    BY <2>3, <2>4, <2>13
<1>12. ASSUME NEW p \in DOMAIN calls, Lie(p) \/ Timeout(p)
       PROVE  FALSE
  BY <1>1, <1>12 DEF Lie, Timeout
<1> QED
  BY <1>8, <1>9, <1>10, <1>11, <1>12 DEF Next

(* A message with an id was delivered at most once.                        *)
DedupInv == world.dedup => deliveries \in 0..1

(* Only a delivery counts, and it looks at the id.                         *)
LEMMA DedupStep == TypeOK /\ DedupInv /\ [Next]_vars => DedupInv'
<1> SUFFICES ASSUME TypeOK, DedupInv, [Next]_vars PROVE DedupInv'
  OBVIOUS
<1>1. CASE UNCHANGED vars
  BY <1>1 DEF vars, DedupInv
<1>2. ASSUME NEW p \in DOMAIN calls, Deliver(p)
      PROVE DedupInv'
  BY <1>2 DEF Deliver, DedupInv, TypeOK
<1>3. ASSUME NEW p \in DOMAIN calls,
             Refuse(p) \/ Search(p) \/ Lie(p) \/ Answer(p) \/ Timeout(p) \/ NoRoute(p)
             \/ \E k \in Nodes : Forward(p, k)
      PROVE DedupInv'
  BY <1>3 DEF Refuse, Search, Lie, Answer, Timeout, NoRoute, Forward, DedupInv
<1>4. ASSUME NEW n \in Nodes, NEW k \in Nodes, Block(n, k)
      PROVE DedupInv'
  BY <1>4 DEF Block, DedupInv
<1> QED
  BY <1>1, <1>2, <1>3, <1>4 DEF Next

(* The calls are one chain in every reachable state of a truthful world.   *)
LEMMA ChainHolds == Spec => [](BoundInv /\ ChainInv /\ DedupInv)
<1>1. Init => BoundInv /\ ChainInv /\ DedupInv
  BY InitBound, InitChain DEF Init, DedupInv
<1>2. BoundInv /\ ChainInv /\ DedupInv /\ [Next]_vars => (BoundInv /\ ChainInv /\ DedupInv)'
  BY BoundStep, ChainStep, DedupStep DEF BoundInv
<1> QED
  BY <1>1, <1>2, PTL DEF Spec

(* Routing.DeliveredOnce, for any graph: firstDelivery() keeps a message   *)
(* with an id from being delivered again, and without one a truthful       *)
(* search ends with its first delivery.                                    *)
THEOREM DeliversOnce == Spec => []DeliveredOnce
<1>1. BoundInv /\ ChainInv /\ DedupInv => DeliveredOnce
  <2> SUFFICES ASSUME BoundInv, ChainInv, DedupInv, world.dedup \/ Truthful PROVE deliveries <= 1
    BY DEF DeliveredOnce
  <2>1. CASE world.dedup
    BY <2>1 DEF DedupInv
  <2>2. CASE Truthful
    <3>1. PICK P \in Seq(Nodes) : ChainOf(P)
      BY <2>2 DEF ChainInv
    <3> QED
      BY <3>1 DEF ChainOf
  <2> QED
    BY <2>1, <2>2
<1> QED
  BY <1>1, ChainHolds, PTL

(* Once the first call does not wait, no other is left.                    *)
LEMMA RootIsAlone ==
  ASSUME NEW P \in Seq(Nodes), ChainOf(P), Root \in DOMAIN calls, calls[Root].state # "waiting"
  PROVE  P = Root /\ Len(P) = 1
<1>1. P = Root
  BY OneIsActive
<1> QED
  BY <1>1 DEF Root

(* Routing.SpentIsForwarded, for any graph: what send() reports as spent   *)
(* is what all machines forwarded, within the budget.                      *)
THEOREM SpentIsWhatWasForwarded == Spec => []SpentIsForwarded
<1>1. BoundInv /\ ChainInv => SpentIsForwarded
  <2> SUFFICES ASSUME BoundInv, ChainInv, Done, Truthful
               PROVE  calls[Root].spent = forwards /\ forwards <= world.budgetMax
    BY DEF SpentIsForwarded
  <2>1. PICK P \in Seq(Nodes) : ChainOf(P) /\ SumOf(P)
    BY DEF ChainInv
  <2>2. Root \in DOMAIN calls /\ calls[Root].state = "answered"
    BY DEF Done, In
  <2>3. P = Root /\ Len(P) = 1
    BY <2>1, <2>2, RootIsAlone
  <2>4. calls[Root] \in Call /\ CallSound(Root, calls[Root]) /\ Last(Root) \in Nodes
    BY <2>2, PathType DEF BoundInv
  <2>5. calls[Root].spent \in 0..world.budgetMax
    BY <2>2, <2>4 DEF CallSound, Truthful
  <2>6. PICK a \in [1..Len(P) -> Nat] : a[1] = 0 /\ forwards = a[Len(P)] + calls[P].spent
    BY <2>1 DEF SumOf
  <2>7. forwards = calls[Root].spent
    BY <2>3, <2>5, <2>6
  <2> QED
    BY <2>5, <2>7
<1> QED
  BY <1>1, ChainHolds, PTL

-----------------------------------------------------------------------------
(* Walks and trails.                                                       *)

(* A trail starts with a link to a machine off the path, and is there or   *)
(* goes on from it.                                                        *)
LEMMA TrailExtends ==
  ASSUME NEW p \in Seq(Nodes), p # <<>>, NEW t \in Int, Trail(p, t)
  PROVE  \E k \in Nodes \ OnPath(p) :
           Open(Last(p), k) /\ (k = Dest \/ Trail(Append(p, k), t - 1))
<1>0. PICK n \in 1..t : \E s \in [1..n -> Nodes] :
        /\ s[n] = Dest
        /\ Open(Last(p), s[1]) /\ \A i \in 1..(n - 1) : Open(s[i], s[i + 1])
        /\ \A i, j \in 1..n : s[i] = s[j] => i = j
        /\ \A i \in 1..Len(p), j \in 1..n : p[i] # s[j]
  BY DEF Trail
<1>1. PICK s \in [1..n -> Nodes] :
        /\ s[n] = Dest
        /\ Open(Last(p), s[1]) /\ \A i \in 1..(n - 1) : Open(s[i], s[i + 1])
        /\ \A i, j \in 1..n : s[i] = s[j] => i = j
        /\ \A i \in 1..Len(p), j \in 1..n : p[i] # s[j]
  BY <1>0
<1> DEFINE k == s[1]
           q == Append(p, k)
<1>2. 1 \in 1..n /\ n \in Nat /\ k \in Nodes \ OnPath(p) /\ Open(Last(p), k)
  BY <1>1 DEF OnPath
<1>3. CASE n = 1
  BY <1>1, <1>2, <1>3
<1>4. CASE n # 1
  <2> DEFINE r == [i \in 1..(n - 1) |-> s[i + 1]]
  <2>1. n - 1 \in 1..(t - 1) /\ n - 1 \in 1..(n - 1) /\ \A i \in 1..(n - 1) : i + 1 \in 1..n
    BY <1>2, <1>4
  <2>2. r \in [1..(n - 1) -> Nodes] /\ \A i \in 1..(n - 1) : r[i] = s[i + 1]
    BY <2>1
  <2>3. Last(q) = k /\ Len(q) = Len(p) + 1 /\ (\A i \in 1..Len(p) : q[i] = p[i]) /\ q[Len(p) + 1] = k
        /\ Len(p) \in Nat
    BY <1>2, AppendProperties DEF Last
  <2> HIDE DEF r, q
  <2>4. r[n - 1] = Dest
    BY <1>1, <1>2, <2>1, <2>2
  <2>5. Open(Last(q), r[1])
    <3>1. 1 \in 1..(n - 1) /\ r[1] = s[2]
      BY <1>2, <1>4, <2>2
    <3> QED
      BY <1>1, <2>3, <3>1
  <2>6. ASSUME NEW i \in 1..(n - 2) PROVE Open(r[i], r[i + 1])
    <3>1. i \in 1..(n - 1) /\ i + 1 \in 1..(n - 1) /\ r[i] = s[i + 1] /\ r[i + 1] = s[(i + 1) + 1]
      BY <1>2, <2>2
    <3> QED
      BY <1>1, <3>1
  <2>7. ASSUME NEW i \in 1..(n - 1), NEW j \in 1..(n - 1), r[i] = r[j] PROVE i = j
    <3>1. s[i + 1] = s[j + 1] /\ i + 1 \in 1..n /\ j + 1 \in 1..n
      BY <2>1, <2>2, <2>7
    <3>2. i + 1 = j + 1
      BY <1>1, <3>1
    <3> QED
      BY <3>2
  <2>8. ASSUME NEW i \in 1..Len(q), NEW j \in 1..(n - 1) PROVE q[i] # r[j]
    <3>1. r[j] = s[j + 1] /\ j + 1 \in 1..n /\ j + 1 # 1
      BY <2>1, <2>2
    <3>2. CASE i \in 1..Len(p)
      BY <1>1, <2>3, <3>1, <3>2
    <3>3. CASE i \notin 1..Len(p)
      <4>1. q[i] = s[1]
        BY <2>3, <3>3
      <4> QED
        BY <1>1, <1>2, <3>1, <4>1
    <3> QED
      BY <3>2, <3>3
  <2>9. n - 1 - 1 = n - 2
    BY <1>2
  <2>10. Trail(q, t - 1)
    BY <2>1, <2>2, <2>4, <2>5, <2>6, <2>7, <2>8, <2>9 DEF Trail
  <2> QED
    BY <1>2, <2>10 DEF q
<1> QED
  BY <1>3, <1>4

(* A set of numbers has a least one.                                       *)
LEMMA LeastOf ==
  ASSUME NEW T \in SUBSET Nat, T # {}
  PROVE  \E m \in T : \A n \in T : m <= n
<1>1. PICK m \in T : \A n \in T : ~(<<n, m>> \in OpToRel(<, Nat))
  BY NatLessThanWellFounded, WFMin
<1>2. ASSUME NEW n \in T PROVE m <= n
  <2>1. ~(n < m)
    BY <1>1 DEF OpToRel
  <2> QED
    BY <2>1
<1> QED
  BY <1>2

(* If any walk of open links leads to the destination, a shortest one      *)
(* visits nobody twice: it is a trail.                                     *)
LEMMA ShortestIsTrail ==
  ASSUME Origin # Dest, NEW t \in Int, NEW h \in 1..t, Hops(h)
  PROVE  Trail(Root, t)
<1> DEFINE T == {m \in Nat : Hops(m)}
<1>1. PICK n \in T : \A m \in T : n <= m
  <2>1. h \in T
    OBVIOUS
  <2> QED
    BY <2>1, LeastOf
<1>2. n \in Nat /\ n <= h /\ \A m \in Nat : Hops(m) => n <= m
  BY <1>1
<1>3. PICK w \in [0..n -> Nodes] :
        /\ w[0] = Origin /\ w[n] = Dest
        /\ \A i \in 0..(n - 1) : Open(w[i], w[i + 1])
  BY <1>1 DEF Hops
<1>4. n # 0 /\ n \in 1..t
  BY <1>2, <1>3
<1>5. ASSUME NEW i \in 0..n, NEW j \in 0..n, i < j, w[i] = w[j] PROVE FALSE
  <2> DEFINE g == j - i
             v == [l \in 0..(n - g) |-> IF l <= i THEN w[l] ELSE w[l + g]]
  <2>1. g \in 1..n /\ n - g \in Nat /\ n - g < n /\ i <= n - g /\ i \in 0..(n - g) /\ n - g \in 0..(n - g)
        /\ 0 \in 0..(n - g)
    BY <1>2, <1>5
  <2>2. ASSUME NEW l \in 0..(n - g) PROVE l \in 0..n /\ l + g \in 0..n
    BY <1>2, <2>1
  <2>3. v \in [0..(n - g) -> Nodes] /\ \A l \in 0..(n - g) : v[l] = IF l <= i THEN w[l] ELSE w[l + g]
    BY <2>2
  <2> HIDE DEF v
  <2>4. v[0] = Origin
    BY <1>3, <2>1, <2>3
  <2>5. v[n - g] = Dest
    <3>1. CASE n - g = i
      <4>1. j = n
        BY <1>2, <3>1
      <4> QED
        BY <1>3, <1>5, <2>1, <2>3, <3>1, <4>1
    <3>2. CASE n - g # i
      <4>1. v[n - g] = w[(n - g) + g] /\ (n - g) + g = n
        BY <1>2, <2>1, <2>3, <3>2
      <4> QED
        BY <1>3, <4>1
    <3> QED
      BY <3>1, <3>2
  <2>6. ASSUME NEW l \in 0..(n - g - 1) PROVE Open(v[l], v[l + 1])
    <3>1. l \in 0..(n - g) /\ l + 1 \in 0..(n - g) /\ l \in 0..(n - 1) /\ l + g \in 0..(n - 1)
      BY <1>2, <2>1
    <3>2. CASE l < i
      <4>1. v[l] = w[l] /\ v[l + 1] = w[l + 1]
        BY <2>1, <2>3, <3>1, <3>2
      <4> QED
        BY <1>3, <3>1, <4>1
    <3>3. CASE l = i
      <4>1. v[l] = w[i] /\ v[l + 1] = w[(l + 1) + g] /\ (l + 1) + g = j + 1 /\ j \in 0..(n - 1)
        BY <1>2, <2>1, <2>3, <3>1, <3>3
      <4> QED
        BY <1>3, <1>5, <4>1
    <3>4. CASE l > i
      <4>1. v[l] = w[l + g] /\ v[l + 1] = w[(l + 1) + g] /\ (l + 1) + g = (l + g) + 1
        BY <1>2, <2>1, <2>3, <3>1, <3>4
      <4> QED
        BY <1>3, <3>1, <4>1
    <3> QED
      BY <2>1, <3>1, <3>2, <3>3, <3>4
  <2>7. Hops(n - g)
    BY <2>1, <2>3, <2>4, <2>5, <2>6 DEF Hops
  <2> QED
    BY <1>2, <2>1, <2>7
<1>6. \A i, j \in 0..n : w[i] = w[j] => i = j
  <2> SUFFICES ASSUME NEW i \in 0..n, NEW j \in 0..n, w[i] = w[j], i # j PROVE FALSE
    OBVIOUS
  <2>1. i < j \/ j < i
    BY <1>2
  <2> QED
    BY <1>5, <2>1
<1> DEFINE s == [i \in 1..n |-> w[i]]
<1>7. s \in [1..n -> Nodes] /\ (\A i \in 1..n : s[i] = w[i] /\ i \in 0..n) /\ 0 \in 0..n
  BY <1>2
<1>8. Last(Root) = Origin /\ Len(Root) = 1 /\ Root[1] = Origin
  BY DEF Root, Last
<1> HIDE DEF s
<1>9. s[n] = Dest /\ Open(Last(Root), s[1])
  BY <1>2, <1>3, <1>4, <1>7, <1>8
<1>10. \A i \in 1..(n - 1) : Open(s[i], s[i + 1])
  <2> SUFFICES ASSUME NEW i \in 1..(n - 1) PROVE Open(s[i], s[i + 1])
    OBVIOUS
  <2>1. i \in 1..n /\ i + 1 \in 1..n /\ i \in 0..(n - 1)
    BY <1>2
  <2> QED
    BY <1>3, <1>7, <2>1
<1>11. \A i, j \in 1..n : s[i] = s[j] => i = j
  BY <1>6, <1>7
<1>12. \A i \in 1..Len(Root), j \in 1..n : Root[i] # s[j]
  <2> SUFFICES ASSUME NEW j \in 1..n PROVE Origin # s[j]
    BY <1>8
  <2>1. j # 0 /\ j \in 0..n /\ s[j] = w[j]
    BY <1>7
  <2> QED
    BY <1>3, <1>6, <1>7, <2>1
<1> QED
  BY <1>4, <1>7, <1>9, <1>10, <1>11, <1>12 DEF Trail

-----------------------------------------------------------------------------
(* Depths.                                                                 *)

(* A call that goes on keeps its depth.                                    *)
LEMMA PutDepth ==
  ASSUME DepthInv, Truthful, world' = world, NEW p \in DOMAIN calls, NEW d, calls' = Put(p, d),
         d.ttl = calls[p].ttl \/ (p = Root /\ DOMAIN calls = {Root} /\ d.ttl \in Int)
  PROVE  DepthInv'
<1>1. CASE d.ttl = calls[p].ttl
  BY <1>1 DEF DepthInv, Put, Truthful
<1>2. CASE p = Root /\ DOMAIN calls = {Root} /\ d.ttl \in Int
  <2>1. DOMAIN calls' = {Root} /\ calls'[Root] = d
    BY <1>2 DEF Put
  <2>2. Len(Root) = 1
    BY DEF Root
  <2>3. d.ttl = d.ttl - 1 + 1
    BY <1>2
  <2>4. \A q \in DOMAIN calls' : calls'[q].ttl = calls'[Root].ttl - Len(q) + 1
    BY <2>1, <2>2, <2>3
  <2> QED
    BY <2>1, <2>4 DEF DepthInv
<1> QED
  BY <1>1, <1>2

(* Every step of a truthful world keeps the depths.                        *)
LEMMA DepthStep == BoundInv /\ ChainInv /\ DepthInv /\ [Next]_vars => DepthInv'
<1> SUFFICES ASSUME BoundInv, ChainInv, DepthInv, [Next]_vars, Truthful' PROVE DepthInv'
  BY DEF DepthInv
<1>0. TypeOK /\ world' = world
  BY DEF BoundInv, Next, vars, Refuse, Deliver, Search, Lie, Timeout, NoRoute, Forward, Answer, Block
<1>1. Truthful /\ world.liars = {} /\ ~world.loses
  BY <1>0 DEF Truthful
<1>2. PICK P \in Seq(Nodes) : ChainOf(P)
  BY <1>1 DEF ChainInv
<1>3. Root \in DOMAIN calls /\ \A p \in DOMAIN calls : calls[p].ttl = calls[Root].ttl - Len(p) + 1
  BY <1>1 DEF DepthInv
<1>4. CASE UNCHANGED vars \/ \E n, k \in Nodes : Block(n, k)
  BY <1>0, <1>4 DEF vars, Block, DepthInv, Truthful
<1>5. ASSUME NEW p \in DOMAIN calls, Refuse(p) \/ Deliver(p) \/ NoRoute(p)
      PROVE  DepthInv'
  <2>1. calls[p] \in Call
    BY <1>0, PathType
  <2>2. PICK b \in BOOLEAN : calls' = Put(p, Answered(calls[p], b))
    BY <1>5 DEF Refuse, Deliver, NoRoute
  <2>3. Answered(calls[p], b).ttl = calls[p].ttl
    BY <2>1, AnsweredFields
  <2> QED
    BY <1>0, <1>1, <2>2, <2>3, PutDepth
<1>6. ASSUME NEW p \in DOMAIN calls, Search(p)
      PROVE  DepthInv'
  <2> DEFINE c == calls[p]
             e == Clamped(c)
             d == IF e.ttl <= 0 \/ e.budget <= 0 THEN Answered(e, FALSE)
                  ELSE [e EXCEPT !.state = "searching", !.left = Candidates(p)]
  <2>1. c \in Call /\ Len(p) \in Nat \ {0} /\ CallSound(p, c)
    BY <1>0, PathType DEF BoundInv
  <2>2. c.state = "asked" /\ calls' = Put(p, d)
    BY <1>6 DEF Search, Arrives, In
  <2>3. e \in Call /\ e.ttl = Least(c.ttl, world.ttlMax) /\ e.ttl \in Int /\ c.ttl \in Int
    BY <1>0, <2>1, ClampedFields DEF Call
  <2> HIDE DEF e
  <2>4. d.ttl = e.ttl
    <3>1. CASE e.ttl <= 0 \/ e.budget <= 0
      BY <2>3, <3>1, AnsweredFields
    <3>2. CASE ~(e.ttl <= 0 \/ e.budget <= 0)
      BY <2>3, <3>2 DEF Call
    <3> QED
      BY <3>1, <3>2
  <2> HIDE DEF d
  <2>5. CASE Len(p) > 1
    <3>1. d.ttl = c.ttl
      BY <1>0, <2>1, <2>2, <2>3, <2>4, <2>5, WorldType DEF CallSound, Least
    <3> QED
      BY <1>0, <1>1, <2>2, <3>1, PutDepth
  <2>6. CASE ~(Len(p) > 1)
    <3>1. p = P /\ Len(P) = 1 /\ DOMAIN calls = {P}
      <4>1. p = P
        BY <1>2, <2>2, OneIsActive
      <4>2. Len(P) = 1 /\ 1 \in 1..Len(P)
        BY <2>1, <2>6, <4>1
      <4>3. Prefix(P, 1) = P
        BY <4>2, PrefixIs
      <4> QED
        BY <1>2, <4>1, <4>2, <4>3 DEF ChainOf
    <3>2. p = Root /\ DOMAIN calls = {Root} /\ d.ttl \in Int
      BY <1>3, <2>3, <2>4, <3>1
    <3> QED
      BY <1>0, <1>1, <2>2, <3>2, PutDepth
  <2> QED
    BY <2>5, <2>6
<1>7. ASSUME NEW p \in DOMAIN calls, NEW k \in Nodes, Forward(p, k)
      PROVE  DepthInv'
  <2> DEFINE c == calls[p]
             q == Append(p, k)
             w == Waits(c, k)
             d == Asked(k, c.ttl - 1, c.budget - c.spent - 1)
  <2>1. c \in Call /\ p \in Seq(Nodes) /\ Len(p) \in Nat \ {0} /\ c.ttl \in Int
        /\ calls[Root].ttl \in Int
    BY <1>0, <1>3, PathType DEF Call
  <2>2. calls' = [r \in DOMAIN calls \cup {q} |-> IF r = q THEN d ELSE IF r = p THEN w ELSE calls[r]]
    BY <1>7 DEF Forward
  <2>3. w.ttl = c.ttl /\ d.ttl = c.ttl - 1
    BY <2>1, WaitsFields DEF Asked
  <2>4. Len(q) = Len(p) + 1 /\ q # Root
    <3>1. Len(Root) = 1 /\ Len(q) = Len(p) + 1
      BY <2>1, Extended DEF Root
    <3> QED
      BY <2>1, <3>1
  <2> HIDE DEF w, d, q
  <2>5. calls'[Root].ttl = calls[Root].ttl /\ Root \in DOMAIN calls'
    BY <1>3, <2>2, <2>3, <2>4
  <2>6. ASSUME NEW r \in DOMAIN calls' PROVE calls'[r].ttl = calls[Root].ttl - Len(r) + 1
    <3>1. CASE r = q
      <4>1. calls'[r].ttl = c.ttl - 1
        BY <2>2, <2>3, <3>1
      <4>2. c.ttl = calls[Root].ttl - Len(p) + 1
        BY <1>3
      <4>3. Len(r) = Len(p) + 1 /\ Len(p) \in Int /\ c.ttl \in Int /\ calls[Root].ttl \in Int
        BY <2>1, <2>4, <3>1
      <4> HIDE DEF c
      <4> QED
        BY <4>1, <4>2, <4>3
    <3>2. CASE r # q
      BY <1>3, <2>2, <2>3, <3>2
    <3> QED
      BY <3>1, <3>2
  <2> QED
    BY <2>5, <2>6 DEF DepthInv
<1>8. ASSUME NEW p \in DOMAIN calls, Answer(p)
      PROVE  DepthInv'
  <2> DEFINE c == calls[p]
             q == Append(p, c.on)
             x == Charge(calls[q].spent, c.budget - c.spent - 1)
             e == Resumed(c, calls[q].delivered, x)
  <2>1. c \in Call /\ p \in Seq(Nodes) /\ Len(p) \in Nat \ {0} /\ q \in DOMAIN calls
    BY <1>0, <1>8, PathType DEF Answer, In
  <2>2. calls' = [r \in DOMAIN calls \ {q} |-> IF r = p THEN e ELSE calls[r]]
    BY <1>8 DEF Answer
  <2>3. q # Root /\ q # p
    <3>1. c.on \in Nodes
      BY <2>1 DEF Call
    <3>2. Len(Root) = 1 /\ Len(q) = Len(p) + 1
      BY <2>1, <3>1, Extended DEF Root
    <3> QED
      BY <2>1, <3>2
  <2>4. e.ttl = c.ttl
    <3>1. calls[q] \in Call /\ calls[q].delivered \in BOOLEAN /\ calls[q].spent \in Int
      BY <1>0, <2>1, PathType DEF Call
    <3>2. c.budget - c.spent - 1 \in Int
      BY <2>1 DEF Call
    <3>3. x \in Int
      BY <3>1, <3>2, ChargeType
    <3> HIDE DEF x, c, q
    <3> QED
      BY <2>1, <3>1, <3>3, ResumedFields
  <2> HIDE DEF e, q
  <2> QED
    BY <1>3, <2>1, <2>2, <2>3, <2>4 DEF DepthInv
<1>9. ASSUME NEW p \in DOMAIN calls, Lie(p) \/ Timeout(p)
      PROVE  FALSE
  BY <1>1, <1>9 DEF Lie, Timeout
<1> QED
  BY <1>4, <1>5, <1>6, <1>7, <1>8, <1>9 DEF Next

-----------------------------------------------------------------------------
(* What a search establishes.                                              *)

(* Reachability depends on links and blocks only ...                       *)
LEMMA SameMap ==
  ASSUME links' = links, blocked' = blocked
  PROVE  /\ \A p, t : Trail(p, t)' <=> Trail(p, t)
         /\ \A p : Candidates(p)' = Candidates(p)
         /\ \A n, k : Open(n, k)' <=> Open(n, k)
         /\ \A n : Hops(n)' <=> Hops(n)
<1>1. \A n, k : Open(n, k)' <=> Open(n, k)
  BY DEF Open
<1>2. \A p : Candidates(p)' = Candidates(p)
  BY DEF Candidates
<1>3. \A p, t : Trail(p, t)' <=> Trail(p, t)
  BY DEF Trail, Open
<1>4. \A n : Hops(n)' <=> Hops(n)
  BY DEF Hops, Open
<1> QED
  BY <1>1, <1>2, <1>3, <1>4

(* ... and so does what a call has established.                            *)
LEMMA SameExplored ==
  ASSUME links' = links, blocked' = blocked, NEW p, NEW c, Explored(p, c)
  PROVE  Explored(p, c)'
<1>1. \A q, t : Trail(q, t)' <=> Trail(q, t)
  BY SameMap
<1>2. Candidates(p)' = Candidates(p)
  BY SameMap
<1>3. \A n, k : Open(n, k)' <=> Open(n, k)
  BY SameMap
<1> QED
  BY <1>1, <1>2, <1>3 DEF Explored, Began, Asker

(* What holds of every call over the same links and blocks holds after the *)
(* step.                                                                   *)
LEMMA ExploredAgain ==
  ASSUME links' = links, blocked' = blocked, \A p \in DOMAIN calls' : Explored(p, calls'[p])
  PROVE  AllExplored'
<1> SUFFICES ASSUME NEW p \in DOMAIN calls' PROVE Explored(p, calls[p])'
  BY DEF AllExplored
<1>1. PICK c : c = calls'[p]
  OBVIOUS
<1>2. Explored(p, c)'
  BY <1>1, SameExplored
<1> QED
  BY <1>1, <1>2 DEF Explored, Began, Asker

(* One call goes on, the others have established what they had.            *)
LEMMA PutExplored ==
  ASSUME AllExplored, NEW P \in DOMAIN calls, NEW d, calls' = Put(P, d), Explored(P, d),
         links' = links, blocked' = blocked
  PROVE  AllExplored'
<1>1. \A p \in DOMAIN calls' : Explored(p, calls'[p])
  BY DEF AllExplored, Put
<1> QED
  BY <1>1, ExploredAgain

(* The asker is the end of the path without its last machine.              *)
LEMMA AskerIs ==
  ASSUME NEW p \in Seq(Nodes), Len(p) > 1
  PROVE  Last(Front(p)) = Asker(p)
<1>1. Len(p) - 1 \in 1..Len(p) /\ 1 \in 1..Len(p) /\ Len(p) \in Nat
  OBVIOUS
<1>2. Front(p) = Prefix(p, Len(p) - 1)
  BY DEF Front, Prefix
<1>3. Front(p) \in Seq(Nodes) /\ Len(Front(p)) = Len(p) - 1
      /\ Front(p)[Len(p) - 1] = p[Len(p) - 1]
  BY <1>1, <1>2, PrefixIs
<1> QED
  BY <1>3 DEF Last, Asker

(* A call that begins to search has every machine it may turn to before    *)
(* it; one that has no ttl or no budget reaches nothing.                   *)
LEMMA SearchExplored ==
  ASSUME TypeOK, NEW p \in DOMAIN calls, Explored(p, calls[p]), NEW e \in Call,
         Last(p) # Dest, e.tried = 0, e.spent = 0,
         Len(p) > 1 => <<Last(p), Asker(p)>> \notin blocked
  PROVE  LET d == IF e.ttl <= 0 \/ e.budget <= 0 THEN Answered(e, FALSE)
                  ELSE [e EXCEPT !.state = "searching", !.left = Candidates(p)]
         IN  Explored(p, d) /\ (d.state = "answered" => ~d.delivered)
<1>1. CASE e.ttl <= 0 \/ e.budget <= 0
  <2> DEFINE d == Answered(e, FALSE)
  <2>1. d.state = "answered" /\ d.delivered = FALSE /\ d.ttl = e.ttl /\ d.budget = e.budget
        /\ d.spent = 0
    BY AnsweredFields
  <2>2. d.ttl \in Int /\ d.budget \in Int
    BY <2>1 DEF Call
  <2> HIDE DEF d
  <2>3. d.spent < d.budget => ~Trail(p, d.ttl)
    <3>1. CASE e.budget <= 0
      BY <2>1, <2>2, <3>1
    <3>2. CASE e.ttl <= 0
      <4>1. 1..d.ttl = {}
        BY <2>1, <2>2, <3>2
      <4> QED
        BY <4>1 DEF Trail
    <3> QED
      BY <1>1, <3>1, <3>2
  <2>4. Explored(p, d) /\ ~d.delivered
    BY <2>1, <2>3 DEF Explored, Began
  <2> QED
    BY <1>1, <2>4 DEF d
<1>2. CASE ~(e.ttl <= 0 \/ e.budget <= 0)
  <2> DEFINE d == [e EXCEPT !.state = "searching", !.left = Candidates(p)]
  <2>1. d.state = "searching" /\ d.left = Candidates(p) /\ d.tried = 0
    BY DEF Call
  <2> HIDE DEF d
  <2>2. p \in Seq(Nodes) /\ Len(p) \in Nat \ {0} /\ Last(p) \in Nodes /\ Last(p) = p[Len(p)]
        /\ DOMAIN p = 1..Len(p)
    BY PathType
  <2>3. Candidates(p) \subseteq Nodes \ {Last(p)}
    BY <2>2 DEF Candidates
  <2>4. /\ IsFiniteSet(Nodes) /\ Cardinality(Nodes \ {Last(p)}) = Cardinality(Nodes) - 1
        /\ IsFiniteSet(Nodes \ {Last(p)})
    BY <2>2, RoutingAssumption, FS_RemoveElement
  <2>5. Cardinality(Candidates(p)) <= Cardinality(Nodes) - 1 /\ Cardinality(Candidates(p)) \in Nat
    BY <2>3, <2>4, FS_Subset, FS_CardinalityType
  <2>6. \A k \in Nodes \ (Candidates(p) \cup OnPath(p)) : ~Open(Last(p), k)
    BY <2>2 DEF Candidates, OnPath, Open
  <2>7. d.tried + Cardinality(d.left) <= Cardinality(Nodes) - 1
    BY <2>1, <2>5
  <2>8. Explored(p, d)
    BY <2>1, <2>6, <2>7 DEF Explored, Began
  <2> QED
    BY <1>2, <2>1, <2>8 DEF d
<1> QED
  BY <1>1, <1>2

(* A neighbour that is being asked is neither left nor tried.              *)
LEMMA WaitsExplored ==
  ASSUME NEW p, NEW c \in Call, Explored(p, c), c.state = "searching", NEW k \in c.left
  PROVE  Explored(p, Waits(c, k))
<1> DEFINE w == Waits(c, k)
<1>1. /\ w.state = "waiting" /\ w.left = c.left \ {k} /\ w.tried = c.tried + 1 /\ w.on = k
      /\ w.ttl = c.ttl /\ w.budget = c.budget /\ w.spent = c.spent
  BY WaitsFields DEF Call
<1>2. c.left \in SUBSET Nodes /\ c.tried \in Nat
  BY DEF Call
<1>3. Cardinality(c.left \ {k}) = Cardinality(c.left) - 1 /\ Cardinality(c.left) \in Nat
  <2>1. IsFiniteSet(c.left)
    BY <1>2, RoutingAssumption, FS_Subset
  <2> QED
    BY <2>1, FS_RemoveElement, FS_CardinalityType
<1>4. w.tried + Cardinality(w.left) = c.tried + Cardinality(c.left)
  BY <1>1, <1>2, <1>3
<1> HIDE DEF w
<1> QED
  BY <1>1, <1>4 DEF Explored, Began, w

(* A neighbour is asked over a link its asker may use.                     *)
LEMMA AskedExplored ==
  ASSUME TypeOK, NEW p \in DOMAIN calls, NEW k \in Candidates(p), NEW d, d.state = "asked"
  PROVE  Explored(Append(p, k), d)
<1> DEFINE q == Append(p, k)
<1>1. p \in Seq(Nodes) /\ Len(p) \in Nat \ {0} /\ Last(p) = p[Len(p)] /\ k \in Nodes
  BY PathType DEF Candidates
<1>2. Len(q) = Len(p) + 1 /\ Last(q) = k /\ \A i \in 1..Len(p) : q[i] = p[i]
  BY <1>1, Extended
<1> HIDE DEF q
<1>3. Asker(q) = Last(p)
  <2>1. Len(q) - 1 = Len(p) /\ Len(p) \in 1..Len(p)
    BY <1>1, <1>2
  <2> QED
    BY <1>1, <1>2, <2>1 DEF Asker
<1>4. {Asker(q), Last(q)} \in links /\ <<Asker(q), Last(q)>> \notin blocked
  BY <1>2, <1>3 DEF Candidates
<1>5. Explored(q, d)
  BY <1>4 DEF Explored, Began
<1> QED
  BY <1>5 DEF q

(* A call that gives up has nobody left, unless it ran out of budget:      *)
(* fanout enough was left for all. So no trail leads on from it.           *)
LEMMA NoRouteExplored ==
  ASSUME TypeOK, NEW p \in DOMAIN calls, Explored(p, calls[p]), calls[p].state = "searching",
         ~MayForward(calls[p]), world.fanout >= Cardinality(Nodes) - 1
  PROVE  Explored(p, Answered(calls[p], FALSE))
<1> DEFINE c == calls[p]
           d == Answered(c, FALSE)
<1>1. c \in Call /\ p \in Seq(Nodes) /\ p # <<>>
  BY PathType
<1>2. d.state = "answered" /\ d.delivered = FALSE /\ d.ttl = c.ttl /\ d.budget = c.budget
      /\ d.spent = c.spent
  BY <1>1, AnsweredFields
<1>3. c.tried \in Nat /\ c.left \in SUBSET Nodes /\ c.spent \in Int /\ c.budget \in Int
      /\ c.ttl \in Int
  BY <1>1 DEF Call
<1> HIDE DEF d
<1>4. ASSUME c.spent < c.budget PROVE c.left = {}
  <2>1. CASE c.left # {}
    <3>1. c.tried >= world.fanout
      BY <1>3, <1>4, <2>1, WorldType DEF MayForward
    <3>2. c.tried + Cardinality(c.left) <= Cardinality(Nodes) - 1
      BY DEF Explored, Began
    <3>3. IsFiniteSet(c.left) /\ Cardinality(c.left) \in Nat /\ Cardinality(Nodes) \in Nat
      BY <1>3, RoutingAssumption, FS_Subset, FS_CardinalityType
    <3> HIDE DEF c
    <3>4. Cardinality(c.left) = 0
      BY <1>3, <3>1, <3>2, <3>3, WorldType
    <3> QED
      BY <3>3, <3>4, FS_EmptySet
  <2> QED
    BY <2>1
<1>5. ASSUME c.spent < c.budget PROVE ~Trail(p, c.ttl)
  <2> SUFFICES ASSUME Trail(p, c.ttl) PROVE FALSE
    OBVIOUS
  <2>1. PICK k \in Nodes \ OnPath(p) :
          Open(Last(p), k) /\ (k = Dest \/ Trail(Append(p, k), c.ttl - 1))
    BY <1>1, <1>3, TrailExtends
  <2>2. k \in Nodes \ (c.left \cup OnPath(p))
    BY <1>4, <1>5
  <2> QED
    BY <1>5, <2>1, <2>2 DEF Explored, Began
<1>6. Explored(p, d)
  BY <1>2, <1>5 DEF Explored, Began
<1> QED
  BY <1>6 DEF d

(* A call resumed after its neighbour failed has tried it: what that       *)
(* neighbour established with one hop less holds one hop earlier.          *)
LEMMA ResumedExplored ==
  ASSUME NEW p \in Seq(Nodes), p # <<>>, NEW c \in Call, Explored(p, c), c.state = "waiting",
         NEW d \in Call, Explored(Append(p, c.on), d), d.state = "answered",
         d.ttl = c.ttl - 1, d.budget = c.budget - c.spent - 1, c.spent + 1 <= c.budget,
         NEW e, e.spent = c.spent + 1 + d.spent, e.delivered = d.delivered,
         e.state = IF d.delivered THEN "answered" ELSE "searching",
         e.ttl = c.ttl, e.budget = c.budget, e.left = c.left, e.tried = c.tried
  PROVE  Explored(p, e)
<1> DEFINE q == Append(p, c.on)
<1>1. c.on \in Nodes /\ c.spent \in Int /\ c.budget \in Int /\ d.spent \in Int
  BY DEF Call
<1>2. Len(q) = Len(p) + 1 /\ Last(q) = c.on /\ Len(p) \in Nat \ {0} /\ \A i \in 1..Len(p) : q[i] = p[i]
  BY <1>1, Extended
<1>3. Asker(q) = Last(p) /\ Len(q) > 1
  <2>1. Len(q) - 1 = Len(p) /\ Len(p) \in 1..Len(p) /\ Len(q) > 1
    BY <1>2
  <2> QED
    BY <1>2, <2>1 DEF Asker, Last
<1> HIDE DEF q
<1>4. CASE d.delivered
  BY <1>4 DEF Explored, Began
<1>5. CASE ~d.delivered
  <2>1. ASSUME e.spent < e.budget, NEW k \in Nodes \ (e.left \cup OnPath(p)), Open(Last(p), k)
        PROVE  k # Dest /\ ~Trail(Append(p, k), e.ttl - 1)
    <3>1. c.spent < c.budget /\ d.spent < d.budget
      BY <1>1, <2>1
    <3>2. CASE k # c.on
      BY <2>1, <3>1, <3>2 DEF Explored, Began
    <3>3. CASE k = c.on
      <4>1. Open(Asker(q), Last(q))
        BY <1>2, <1>3, <2>1, <3>3
      <4>2. Last(q) # Dest /\ ~Trail(q, d.ttl)
        BY <1>3, <1>5, <3>1, <4>1 DEF Explored, q
      <4> QED
        BY <1>2, <3>3, <4>2 DEF q
    <3> QED
      BY <3>2, <3>3
  <2>2. Began(c) /\ Began(e) /\ e.state = "searching"
    BY <1>5 DEF Began
  <2> QED
    BY <2>1, <2>2 DEF Explored
<1> QED
  BY <1>4, <1>5

(* When the destination delivers, the chain itself is a walk of open links *)
(* within the ttl.                                                         *)
LEMMA DeliveryFindsWalk ==
  ASSUME BoundInv, Truthful, DepthInv, AllExplored, NEW P \in Seq(Nodes), ChainOf(P), Deliver(P)
  PROVE  Found
<1> DEFINE n == Len(P) - 1
<1>1. TypeOK /\ P \in DOMAIN calls /\ Len(P) \in Nat \ {0} /\ Prefix(P, Len(P)) = P
  <2>1. P \in DOMAIN calls
    BY DEF Deliver, Arrives, In
  <2>2. TypeOK /\ Len(P) \in Nat \ {0}
    BY <2>1, PathType DEF BoundInv
  <2>3. Len(P) \in 1..Len(P)
    BY <2>2
  <2> QED
    BY <2>1, <2>2, <2>3, PrefixIs
<1>2. P[1] = Origin /\ Last(P) = Dest /\ Last(P) = P[Len(P)]
  BY <1>1 DEF BoundInv, PathSound, Deliver, Last
<1>5. Len(P) \in Nat /\ Len(P) # 0
  BY <1>1
<1>3. CASE n = 0
  <2>1. Len(P) = 1
    BY <1>3, <1>5
  <2> QED
    BY <1>2, <2>1 DEF Found
<1>4. CASE n # 0
  <2> DEFINE w == [i \in 0..n |-> P[i + 1]]
  <2>1. n \in Nat \ {0} /\ n \in 1..(Len(P) - 1) /\ n \in 1..Len(P) /\ Len(P) > 1
    <3>1. Len(P) # 1
      BY <1>4
    <3>2. Len(P) > 1
      BY <1>5, <3>1
    <3>3. \A l \in Nat : l > 1 => l - 1 \in Nat \ {0} /\ l - 1 \in 1..(l - 1) /\ l - 1 \in 1..l
      OBVIOUS
    <3> QED
      BY <1>5, <3>2, <3>3
  <2>2. \A i \in 0..n : i + 1 \in 1..Len(P)
    BY <1>1
  <2>3. w \in [0..n -> Nodes] /\ (\A i \in 0..n : w[i] = P[i + 1]) /\ 0 \in 0..n /\ n \in 0..n
    BY <2>1, <2>2, ElementOfSeq
  <2> HIDE DEF w
  <2>4. w[0] = Origin /\ w[n] = Dest
    BY <1>1, <1>2, <2>1, <2>3
  <2>5. ASSUME NEW i \in 0..(n - 1) PROVE Open(w[i], w[i + 1])
    <3> DEFINE j == i + 2
               q == Prefix(P, j)
    <3>1. i \in 0..n /\ i + 1 \in 0..n /\ j \in 1..Len(P) /\ j - 1 \in 1..j /\ j \in 1..j /\ j > 1
          /\ (i + 1) + 1 = j /\ j - 1 = i + 1
      BY <2>1
    <3>2. q \in Seq(Nodes) /\ Len(q) = j /\ \A l \in 1..j : q[l] = P[l]
      BY <3>1, PrefixIs
    <3>3. Last(q) = w[i + 1] /\ Asker(q) = w[i] /\ Len(q) > 1
      BY <2>3, <3>1, <3>2 DEF Last, Asker
    <3>4. q \in DOMAIN calls
      BY <3>1 DEF ChainOf
    <3>5. {w[i], w[i + 1]} \in links /\ <<w[i], w[i + 1]>> \notin blocked
      BY <3>3, <3>4 DEF AllExplored, Explored
    <3>6. <<w[i + 1], w[i]>> \notin blocked
      <4>1. CASE j = Len(P)
        BY <1>1, <2>1, <3>3, <4>1, AskerIs DEF Deliver, Arrives
      <4>2. CASE j # Len(P)
        <5>1. j \in 1..(Len(P) - 1)
          BY <1>1, <3>1, <4>2
        <5>2. calls[q].state = "waiting"
          BY <5>1 DEF ChainOf
        <5> QED
          BY <3>3, <3>4, <5>2 DEF AllExplored, Explored, Began
      <4> QED
        BY <4>1, <4>2
    <3> QED
      BY <3>5, <3>6 DEF Open
  <2>6. Hops(n)
    BY <2>3, <2>4, <2>5 DEF Hops
  <2>7. n \in 1..calls[Root].ttl
    <3> DEFINE q == Prefix(P, n)
    <3>1. q \in DOMAIN calls /\ calls[q].state = "waiting" /\ Len(q) = n
      BY <2>1, PrefixIs DEF ChainOf
    <3>2. calls[q].ttl >= 1 /\ calls[q] \in Call /\ Root \in DOMAIN calls /\ calls[Root] \in Call
      BY <1>1, <3>1, PathType DEF BoundInv, CallSound, Began, DepthInv
    <3>3. calls[q].ttl = calls[Root].ttl - n + 1
      BY <3>1 DEF DepthInv
    <3>4. calls[q].ttl \in Int /\ calls[Root].ttl \in Int
      BY <3>2 DEF Call
    <3> QED
      BY <2>1, <3>2, <3>3, <3>4
  <2> QED
    BY <2>6, <2>7 DEF Found
<1> QED
  BY <1>3, <1>4

(* The first call has established nothing and owes nothing.                *)
LEMMA InitExplored == Init => DepthInv /\ ExploredInv
<1> SUFFICES ASSUME Init PROVE DepthInv /\ ExploredInv
  OBVIOUS
<1>1. Len(Root) = 1 /\ DOMAIN calls = {Root} /\ calls[Root] = Asked(Origin, world.ttl, world.budget)
  BY DEF Init, Root
<1>2. calls[Root].state = "asked" /\ calls[Root].ttl = world.ttl /\ world.ttl \in Int
  BY <1>1, InitType, WorldType DEF Asked
<1>3. DepthInv
  <2>1. world.ttl = world.ttl - 1 + 1
    BY <1>2
  <2>2. \A p \in DOMAIN calls : calls[p].ttl = calls[Root].ttl - Len(p) + 1
    BY <1>1, <1>2, <2>1
  <2> QED
    BY <1>1, <2>2 DEF DepthInv
<1>4. AllExplored /\ ~Reported
  <2>1. ~(Len(Root) > 1)
    BY <1>1
  <2>2. Explored(Root, calls[Root])
    BY <1>2, <2>1 DEF Explored, Began
  <2> QED
    BY <1>1, <1>2, <2>2 DEF AllExplored, Reported
<1> QED
  BY <1>3, <1>4 DEF ExploredInv

LEMMA FoundStays ==
  ASSUME Found, links' = links, blocked' = blocked, calls'[Root].ttl = calls[Root].ttl
  PROVE  Found'
<1>1. \A n : Hops(n)' <=> Hops(n)
  BY SameMap
<1> QED
  BY <1>1 DEF Found

(* Every step keeps what every call has established.                       *)
LEMMA ExploredStep ==
  BoundInv /\ ChainInv /\ DepthInv /\ ExploredInv /\ [Next]_vars => ExploredInv'
<1> SUFFICES ASSUME BoundInv, ChainInv, DepthInv, ExploredInv, [Next]_vars, Exhaustive'
             PROVE  AllExplored' /\ (Reported' => Found')
  BY DEF ExploredInv
<1>0. TypeOK /\ world' = world /\ links' = links
  BY DEF BoundInv, Next, vars, Refuse, Deliver, Search, Lie, Timeout, NoRoute, Forward, Answer, Block
<1>1. /\ Exhaustive /\ Truthful /\ world.liars = {} /\ ~world.loses
      /\ world.fanout >= Cardinality(Nodes) - 1 /\ world.blocks = {}
  BY <1>0 DEF Exhaustive, Truthful, Unhindered
<1>2. AllExplored /\ (Reported => Found)
  BY <1>1 DEF ExploredInv
<1>3. PICK P \in Seq(Nodes) : ChainOf(P)
  BY <1>1 DEF ChainInv
<1>4. P \in DOMAIN calls /\ calls[P] \in Call /\ Len(P) \in Nat \ {0} /\ P # <<>>
      /\ Explored(P, calls[P]) /\ CallSound(P, calls[P])
  <2>1. P # <<>> /\ DOMAIN calls = {Prefix(P, i) : i \in 1..Len(P)}
    BY <1>3 DEF ChainOf
  <2>2. Len(P) \in Nat \ {0} /\ Len(P) \in 1..Len(P)
    BY <2>1, EmptySeq
  <2>3. P \in DOMAIN calls
    BY <2>1, <2>2, PrefixIs
  <2> QED
    BY <1>0, <1>2, <2>3, PathType DEF AllExplored, BoundInv
<1>5. \A p \in DOMAIN calls : calls[p].state # "waiting" => p = P
  BY <1>3, OneIsActive
<1>6. CASE UNCHANGED vars
  <2>1. AllExplored'
    BY <1>2, <1>6, ExploredAgain DEF vars, AllExplored
  <2>2. Reported' => Reported
    BY <1>6 DEF vars, Reported
  <2> QED
    BY <1>2, <1>6, <2>1, <2>2, FoundStays DEF vars
<1>7. ASSUME NEW n \in Nodes, NEW k \in Nodes, Block(n, k)
      PROVE  FALSE
  BY <1>1, <1>7 DEF Block
<1>8. ASSUME NEW d, calls' = Put(P, d), blocked' = blocked, Explored(P, d),
             d.state = "answered" => ~d.delivered
      PROVE  AllExplored' /\ (Reported' => Found')
  <2>1. AllExplored'
    BY <1>0, <1>2, <1>4, <1>8, PutExplored
  <2>2. ~Reported'
    BY <1>4, <1>5, <1>8 DEF Reported, Put
  <2> QED
    BY <2>1, <2>2
<1>9. ASSUME NEW p \in DOMAIN calls, Refuse(p)
      PROVE  AllExplored' /\ (Reported' => Found')
  <2>1. p = P /\ Len(P) > 1 /\ <<Last(P), Last(Front(P))>> \in blocked
        /\ calls' = Put(P, Answered(calls[P], FALSE)) /\ blocked' = blocked
    BY <1>5, <1>9 DEF Refuse, In
  <2>2. ~Open(Asker(P), Last(P))
    BY <2>1, AskerIs DEF Open
  <2> DEFINE d == Answered(calls[P], FALSE)
  <2>3. d.state = "answered" /\ ~d.delivered
    BY <1>4, AnsweredFields
  <2> HIDE DEF d
  <2>4. Explored(P, d)
    BY <1>4, <2>1, <2>2, <2>3 DEF Explored, Began
  <2> QED
    BY <1>8, <2>1, <2>3, <2>4 DEF d
<1>10. ASSUME NEW p \in DOMAIN calls, Deliver(p)
       PROVE  AllExplored' /\ (Reported' => Found')
  <2>1. p = P /\ calls' = Put(P, Answered(calls[P], TRUE)) /\ blocked' = blocked
    BY <1>5, <1>10 DEF Deliver, Arrives, In
  <2>2. Found
    BY <1>1, <1>2, <1>3, <1>10, <2>1, DeliveryFindsWalk
  <2> DEFINE d == Answered(calls[P], TRUE)
  <2>3. d.state = "answered" /\ d.delivered /\ d.ttl = calls[P].ttl
    BY <1>4, AnsweredFields
  <2> HIDE DEF d
  <2>4. Explored(P, d)
    BY <1>4, <2>3 DEF Explored, Began
  <2>5. AllExplored'
    BY <1>0, <1>2, <1>4, <2>1, <2>4, PutExplored DEF d
  <2>6. calls'[Root].ttl = calls[Root].ttl
    BY <1>1, <2>1, <2>3 DEF Put, d, DepthInv
  <2> QED
    BY <1>0, <2>1, <2>2, <2>5, <2>6, FoundStays
<1>11. ASSUME NEW p \in DOMAIN calls, Search(p)
       PROVE  AllExplored' /\ (Reported' => Found')
  <2> DEFINE c == calls[P]
             e == Clamped(c)
             d == IF e.ttl <= 0 \/ e.budget <= 0 THEN Answered(e, FALSE)
                  ELSE [e EXCEPT !.state = "searching", !.left = Candidates(P)]
  <2>1. p = P
    BY <1>5, <1>11 DEF Search, Arrives, In
  <2>2. /\ calls' = Put(P, d) /\ blocked' = blocked /\ c.state = "asked" /\ Last(P) # Dest
        /\ Len(P) > 1 => <<Last(P), Last(Front(P))>> \notin blocked
    BY <1>11, <2>1 DEF Search, Arrives, In
  <2>3. Len(P) > 1 => <<Last(P), Asker(P)>> \notin blocked
    BY <2>2, AskerIs
  <2>4. e \in Call /\ e.tried = 0 /\ e.spent = 0
    BY <1>0, <1>4, <2>2, ClampedFields DEF CallSound
  <2> HIDE DEF e
  <2>5. Explored(P, d) /\ (d.state = "answered" => ~d.delivered)
    BY <1>0, <1>4, <2>2, <2>3, <2>4, SearchExplored
  <2> HIDE DEF d
  <2> QED
    BY <1>8, <2>2, <2>5
<1>12. ASSUME NEW p \in DOMAIN calls, NoRoute(p)
       PROVE  AllExplored' /\ (Reported' => Found')
  <2> DEFINE d == Answered(calls[P], FALSE)
  <2>1. p = P /\ calls[P].state = "searching" /\ ~MayForward(calls[P])
        /\ calls' = Put(P, d) /\ blocked' = blocked
    BY <1>5, <1>12 DEF NoRoute, In
  <2>2. Explored(P, d)
    BY <1>0, <1>1, <1>4, <2>1, NoRouteExplored
  <2>3. ~d.delivered
    BY <1>4, AnsweredFields
  <2> HIDE DEF d
  <2> QED
    BY <1>8, <2>1, <2>2, <2>3
<1>13. ASSUME NEW p \in DOMAIN calls, NEW k \in Nodes, Forward(p, k)
       PROVE  AllExplored' /\ (Reported' => Found')
  <2> DEFINE c == calls[P]
             q == Append(P, k)
             w == Waits(c, k)
             d == Asked(k, c.ttl - 1, c.budget - c.spent - 1)
  <2>1. p = P
    BY <1>5, <1>13 DEF Forward, In
  <2>2. /\ calls' = [r \in DOMAIN calls \cup {q} |-> IF r = q THEN d ELSE IF r = P THEN w ELSE calls[r]]
        /\ c.state = "searching" /\ k \in c.left /\ blocked' = blocked
    BY <1>13, <2>1 DEF Forward, In
  <2>3. k \in Candidates(P)
    BY <1>4, <2>2 DEF Explored, Began
  <2>4. Explored(P, w) /\ w.state = "waiting"
    BY <1>4, <2>2, WaitsExplored, WaitsFields
  <2>5. d.state = "asked"
    BY DEF Asked
  <2>6. Explored(q, d)
    <3> HIDE DEF d
    <3> QED
      BY <1>0, <1>4, <2>3, <2>5, AskedExplored
  <2> HIDE DEF w, d, q
  <2>7. \A r \in DOMAIN calls' : Explored(r, calls'[r])
    BY <1>2, <2>2, <2>4, <2>6 DEF AllExplored
  <2>8. AllExplored'
    BY <1>0, <2>2, <2>7, ExploredAgain
  <2>9. ~Reported'
    BY <1>5, <2>2, <2>4, <2>5 DEF Reported
  <2> QED
    BY <2>8, <2>9
<1>14. ASSUME NEW p \in DOMAIN calls, Answer(p)
       PROVE  AllExplored' /\ (Reported' => Found')
  <2> DEFINE c == calls[p]
             q == Append(p, c.on)
             x == Charge(calls[q].spent, c.budget - c.spent - 1)
             e == Resumed(c, calls[q].delivered, x)
  <2>1. /\ c \in Call /\ c.state = "waiting" /\ q \in DOMAIN calls /\ calls[q].state = "answered"
        /\ blocked' = blocked /\ CallSound(p, c) /\ Explored(p, c)
        /\ p \in Seq(Nodes) /\ p # <<>> /\ Len(p) \in Nat \ {0}
    BY <1>0, <1>2, <1>14, PathType DEF Answer, In, BoundInv, AllExplored
  <2>2. q = P /\ c.on \in Nodes
    BY <1>5, <2>1 DEF Call
  <2>3. Len(P) = Len(p) + 1 /\ p = Prefix(P, Len(p)) /\ Prefix(P, Len(p) + 1) = P
    <3>1. Len(p) \in 1..Len(p) /\ Len(P) = Len(p) + 1 /\ Len(p) + 1 \in 1..Len(P)
      BY <2>1, <2>2, Extended
    <3>2. Prefix(Append(p, c.on), Len(p)) = Prefix(p, Len(p))
      BY <2>1, <2>2, <3>1, PrefixOfAppend
    <3> QED
      BY <2>1, <2>2, <3>1, <3>2, PrefixIs
  <2>4. calls[P].ttl = c.ttl - 1 /\ calls[P].budget = c.budget - c.spent - 1
    <3>1. Len(p) \in 1..(Len(P) - 1)
      BY <2>1, <2>3
    <3> QED
      BY <1>3, <2>3, <3>1 DEF ChainOf
  <2>5. calls[P].spent \in Int /\ calls[P].budget \in Int /\ calls[P].delivered \in BOOLEAN
        /\ c.spent \in Int /\ c.budget \in Int /\ c.spent + 1 <= c.budget
    BY <1>4, <2>1 DEF Call, CallSound
  <2>6. x = calls[P].spent
    <3>1. Last(P) \notin world.liars /\ Len(P) > 1 /\ calls[P].state = "answered"
      BY <1>1, <2>1, <2>2, <2>3
    <3>2. calls[P].spent \in 0..calls[P].budget
      BY <1>4, <2>5, <3>1 DEF CallSound
    <3> QED
      BY <2>2, <2>4, <3>2 DEF Charge
  <2>7. /\ e.state = IF calls[P].delivered THEN "answered" ELSE "searching"
        /\ e.spent = c.spent + 1 + calls[P].spent /\ e.delivered = calls[P].delivered
        /\ e.ttl = c.ttl /\ e.budget = c.budget /\ e.left = c.left /\ e.tried = c.tried
    <3>1. e = Resumed(c, calls[P].delivered, calls[P].spent)
      BY <2>2, <2>6
    <3>2. c \in Call /\ calls[P].delivered \in BOOLEAN /\ calls[P].spent \in Int
      BY <2>1, <2>5
    <3> HIDE DEF c, q, x, e
    <3> QED
      BY <3>1, <3>2, ResumedFields, Zenon
  <2>8. calls' = [r \in DOMAIN calls \ {P} |-> IF r = p THEN e ELSE calls[r]]
    BY <1>14, <2>2 DEF Answer
  <2> HIDE DEF e, x
  <2>9. Explored(p, e)
    <3>1. Explored(Append(p, c.on), calls[P]) /\ calls[P].state = "answered"
      BY <1>4, <2>1, <2>2
    <3> HIDE DEF c, q
    <3> QED
      BY <1>4, <2>1, <2>4, <2>5, <2>7, <3>1, ResumedExplored
  <2>10. \A r \in DOMAIN calls' : Explored(r, calls'[r])
    BY <1>2, <2>8, <2>9 DEF AllExplored
  <2>11. AllExplored'
    BY <1>0, <2>1, <2>10, ExploredAgain
  <2>12. ASSUME Reported' PROVE Found'
    <3>1. calls[P].delivered
      BY <1>5, <2>5, <2>7, <2>8, <2>12 DEF Reported
    <3>2. Found
      BY <1>2, <1>4, <2>1, <2>2, <3>1 DEF Reported
    <3>3. Root \in DOMAIN calls /\ Root # P
      <4>1. Len(Root) = 1 /\ Len(P) # 1
        BY <2>1, <2>3 DEF Root
      <4>2. Root \in DOMAIN calls
        BY <1>1 DEF DepthInv
      <4>3. Root # P
        <5> HIDE DEF Root
        <5> QED
          BY <4>1, Zenon
      <4> QED
        BY <4>2, <4>3
    <3>4. calls'[Root].ttl = calls[Root].ttl
      BY <2>7, <2>8, <3>3
    <3> QED
      BY <1>0, <2>1, <3>2, <3>4, FoundStays
  <2> QED
    BY <2>11, <2>12
<1>15. ASSUME NEW p \in DOMAIN calls, Lie(p) \/ Timeout(p)
       PROVE  FALSE
  BY <1>1, <1>15 DEF Lie, Timeout
<1> QED
  BY <1>6, <1>7, <1>9, <1>10, <1>11, <1>12, <1>13, <1>14, <1>15 DEF Next

(* All of it holds in every reachable state.                               *)
LEMMA ExploredHolds == Spec => [](BoundInv /\ ChainInv /\ DepthInv /\ ExploredInv)
<1>1. Init => BoundInv /\ ChainInv /\ DepthInv /\ ExploredInv
  BY InitBound, InitChain, InitExplored
<1>2. BoundInv /\ ChainInv /\ DepthInv /\ ExploredInv /\ [Next]_vars
      => (BoundInv /\ ChainInv /\ DepthInv /\ ExploredInv)'
  BY BoundStep, ChainStep, DepthStep, ExploredStep
<1> QED
  BY <1>1, <1>2, PTL DEF Spec

(* Routing.SearchIsComplete, for any graph: where only the ttl ends a      *)
(* search, it delivers exactly if some walk of open links within the ttl   *)
(* leads to the destination.                                               *)
THEOREM SearchesAreComplete == Spec => []SearchIsComplete
<1>1. BoundInv /\ ChainInv /\ DepthInv /\ ExploredInv => SearchIsComplete
  <2> SUFFICES ASSUME BoundInv, ChainInv, DepthInv, ExploredInv, Done, Truthful, Unhindered,
                      calls[Root].ttl > 0 => calls[Root].spent < calls[Root].budget
               PROVE  calls[Root].delivered <=> Found
    BY DEF SearchIsComplete, Found
  <2>1. Root \in DOMAIN calls /\ calls[Root].state = "answered" /\ AllExplored /\ (Reported => Found)
    BY DEF Done, In, ExploredInv, Exhaustive
  <2>2. calls[Root] \in Call /\ Explored(Root, calls[Root])
    BY <2>1, PathType DEF BoundInv, AllExplored
  <2>3. calls[Root].ttl \in Int /\ calls[Root].delivered \in BOOLEAN
    BY <2>2 DEF Call
  <2>4. Len(Root) = 1 /\ Last(Root) = Origin
    BY DEF Root, Last
  <2>5. calls[Root].delivered => Found
    BY <2>1 DEF Reported
  <2>6. ASSUME ~calls[Root].delivered, Found PROVE FALSE
    <3>1. Origin # Dest /\ (calls[Root].spent < calls[Root].budget => ~Trail(Root, calls[Root].ttl))
      BY <2>1, <2>2, <2>4, <2>6 DEF Explored
    <3>2. PICK n \in 1..calls[Root].ttl : Hops(n)
      BY <2>6, <3>1 DEF Found
    <3>3. Trail(Root, calls[Root].ttl)
      BY <2>3, <3>1, <3>2, ShortestIsTrail
    <3>4. calls[Root].ttl > 0
      BY <2>3, <3>2
    <3> QED
      BY <3>1, <3>3, <3>4
  <2> QED
    BY <2>3, <2>5, <2>6
<1> QED
  BY <1>1, ExploredHolds, PTL
=============================================================================
