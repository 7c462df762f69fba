-------------------------------- MODULE Routing --------------------------------
(***************************************************************************)
(* The routing engine (routing.js): one message searched for its           *)
(* destination over the graph of admitted peers.                           *)
(*                                                                         *)
(* Every machine that is asked either delivers or asks its own neighbours, *)
(* one after the other, until one reports a delivery.  A machine believes  *)
(* the answers it gets only as far as it must: some neighbours lie.  An    *)
(* answer may come too late; the search it answers then goes on beside the *)
(* one that gave up on it.                                                 *)
(*                                                                         *)
(* A machine is never asked twice along one path, so the path of machines  *)
(* asked so far tells one call of relay() from another.                    *)
(***************************************************************************)
EXTENDS Integers, FiniteSets, SequencesExt

CONSTANTS
  Nodes,   \* machines
  Origin,  \* where the search starts
  Dest,    \* the destination
  Reports, \* what a liar may report as spent
  Worlds   \* circumstances a search may meet

ASSUME RoutingAssumption ==
  /\ IsFiniteSet(Nodes)
  /\ {Origin, Dest} \subseteq Nodes
  /\ Reports \subseteq Int
  /\ Worlds \subseteq
       [liars : SUBSET (Nodes \ {Origin}),  \* answers of theirs are arbitrary
        loses : BOOLEAN,                    \* an answer may come too late
        dedup : BOOLEAN,                    \* the message carries an id
        ttl : Int, budget : Int,            \* what the first call asks for
        ttlMax : Nat, budgetMax : Nat, fanout : Nat,  \* ceilings, everywhere
        blocked : SUBSET (Nodes \X Nodes),  \* <<who, whom>>, at the start
        blocks : SUBSET (Nodes \X Nodes)]   \* and those that may be added

VARIABLES
  world,      \* the circumstances of this search
  links,      \* pairs of machines that have admitted each other
  blocked,    \* <<n, k>>: n has blocked k
  calls,      \* calls[p]: the call of relay() at the end of the path p
  forwards,   \* forwards made by all machines together
  deliveries  \* how often the destination delivered

vars == <<world, links, blocked, calls, forwards, deliveries>>

-----------------------------------------------------------------------------
(* A call: asked (not received yet), searching, waiting for the neighbour  *)
(* `on`, or answered.                                                      *)
Call == [state : {"asked", "searching", "waiting", "answered"},
         ttl : Int, budget : Int, left : SUBSET Nodes, tried : Nat,
         spent : Int, on : Nodes, delivered : BOOLEAN]

Asked(n, ttl, budget) ==
  [state |-> "asked", ttl |-> ttl, budget |-> budget, left |-> {}, tried |-> 0,
   spent |-> 0, on |-> n, delivered |-> FALSE]

Root == <<Origin>>

TypeOK ==
  /\ world \in Worlds
  /\ links \subseteq SUBSET Nodes
  /\ blocked \subseteq Nodes \X Nodes
  /\ \A p \in DOMAIN calls : p \in Seq(Nodes) /\ p # <<>> /\ calls[p] \in Call
  /\ forwards \in Nat
  /\ deliveries \in Nat

Init ==
  /\ world \in Worlds
  /\ links \in SUBSET {e \in SUBSET Nodes : Cardinality(e) = 2}
  /\ blocked = world.blocked
  /\ calls = [p \in {Root} |-> Asked(Origin, world.ttl, world.budget)]
  /\ forwards = 0
  /\ deliveries = 0

In(p, state) == p \in DOMAIN calls /\ calls[p].state = state

Put(p, c) == [calls EXCEPT ![p] = c]

Answered(c, delivered) == [c EXCEPT !.state = "answered", !.delivered = delivered]

Least(a, b) == IF a <= b THEN a ELSE b

(* Admitted neighbours not on the path and not blocked.                    *)
Candidates(p) ==
  {k \in Nodes : /\ {Last(p), k} \in links
                 /\ \A i \in DOMAIN p : p[i] # k
                 /\ <<Last(p), k>> \notin blocked}

-----------------------------------------------------------------------------
(* A machine takes no call from one it has blocked.                        *)
Refuse(p) ==
  /\ In(p, "asked")
  /\ Len(p) > 1
  /\ <<Last(p), Last(Front(p))>> \in blocked
  /\ calls' = Put(p, Answered(calls[p], FALSE))
  /\ UNCHANGED <<world, links, blocked, forwards, deliveries>>

Arrives(p) ==
  /\ In(p, "asked")
  /\ Len(p) > 1 => <<Last(p), Last(Front(p))>> \notin blocked

(* Plausible bug: the id is not looked at.                                 *)
DeliverAlways(p) ==
  /\ Arrives(p)
  /\ Last(p) = Dest
  /\ deliveries' = deliveries + 1
  /\ calls' = Put(p, Answered(calls[p], TRUE))
  /\ UNCHANGED <<world, links, blocked, forwards>>

Deliver(p) ==
  /\ Arrives(p)
  /\ Last(p) = Dest
  /\ deliveries' = IF world.dedup /\ deliveries > 0 THEN deliveries ELSE deliveries + 1
  /\ calls' = Put(p, Answered(calls[p], TRUE))
  /\ UNCHANGED <<world, links, blocked, forwards>>

(* Clamped on receipt. *)
Clamped(c) ==
  [c EXCEPT !.ttl = Least(@, world.ttlMax), !.budget = Least(@, world.budgetMax)]

(* Plausible bug: the last hop is not made.                                *)
SearchShort(p) ==
  /\ Arrives(p)
  /\ Last(p) \notin world.liars \cup {Dest}
  /\ LET c == Clamped(calls[p]) IN
     calls' = Put(p, IF c.ttl <= 1 \/ c.budget <= 0 THEN Answered(c, FALSE)
                     ELSE [c EXCEPT !.state = "searching", !.left = Candidates(p)])
  /\ UNCHANGED <<world, links, blocked, forwards, deliveries>>

Search(p) ==
  /\ Arrives(p)
  /\ Last(p) \notin world.liars \cup {Dest}
  /\ LET c == Clamped(calls[p]) IN
     calls' = Put(p, IF c.ttl <= 0 \/ c.budget <= 0 THEN Answered(c, FALSE)
                     ELSE [c EXCEPT !.state = "searching", !.left = Candidates(p)])
  /\ UNCHANGED <<world, links, blocked, forwards, deliveries>>

Lie(p) ==
  /\ Arrives(p)
  /\ Last(p) \in world.liars
  /\ \E delivered \in BOOLEAN, spent \in Reports :
       calls' = Put(p, [Answered(calls[p], delivered) EXCEPT !.spent = spent])
  /\ UNCHANGED <<world, links, blocked, forwards, deliveries>>

-----------------------------------------------------------------------------
MayForward(c) ==
  /\ c.left # {}
  /\ c.tried < world.fanout
  /\ c.budget - c.spent - 1 >= 0

Waits(c, k) ==
  [c EXCEPT !.state = "waiting", !.left = @ \ {k}, !.tried = @ + 1, !.on = k]

(* The next neighbour in whatever order the policy puts them.              *)
Forward(p, k) ==
  /\ In(p, "searching")
  /\ MayForward(calls[p])
  /\ k \in calls[p].left
  /\ LET c == calls[p] IN
     calls' = [q \in DOMAIN calls \cup {Append(p, k)} |->
                 IF q = Append(p, k)
                 THEN Asked(k, c.ttl - 1, c.budget - c.spent - 1)
                 ELSE IF q = p THEN Waits(c, k) ELSE calls[q]]
  /\ forwards' = forwards + 1
  /\ UNCHANGED <<world, links, blocked, deliveries>>

(* Plausible bug: whatever the neighbour reports is what it is charged.    *)
ChargeReport(report, allowance) == report

(* A report is believed as far as the neighbour's own allowance goes.      *)
Charge(report, allowance) ==
  IF report \in 0..allowance THEN report ELSE allowance

(* Plausible bug: a forward costs nothing itself. *)
ResumedFree(c, delivered, spent) ==
  [c EXCEPT !.state = IF delivered THEN "answered" ELSE "searching",
            !.spent = @ + spent, !.delivered = delivered]

Resumed(c, delivered, spent) ==
  [c EXCEPT !.state = IF delivered THEN "answered" ELSE "searching",
            !.spent = @ + 1 + spent, !.delivered = delivered]

Answer(p) ==
  /\ In(p, "waiting")
  /\ LET c == calls[p]
         q == Append(p, c.on)
         allowance == c.budget - c.spent - 1 IN
     /\ In(q, "answered")
     /\ calls' = [r \in DOMAIN calls \ {q} |->
                    IF r = p THEN Resumed(c, calls[q].delivered,
                                          Charge(calls[q].spent, allowance))
                             ELSE calls[r]]
  /\ UNCHANGED <<world, links, blocked, forwards, deliveries>>

(* Plausible bug: only a neighbour that has begun to search can be late.   *)
TimeoutBegun(p) ==
  /\ world.loses
  /\ In(p, "waiting")
  /\ ~In(Append(p, calls[p].on), "asked")
  /\ calls' = Put(p, Resumed(calls[p], FALSE, 0))
  /\ UNCHANGED <<world, links, blocked, forwards, deliveries>>

(* No answer in time, or none at all: nothing was delivered or spent.      *)
Timeout(p) ==
  /\ world.loses
  /\ In(p, "waiting")
  /\ calls' = Put(p, Resumed(calls[p], FALSE, 0))
  /\ UNCHANGED <<world, links, blocked, forwards, deliveries>>

NoRoute(p) ==
  /\ In(p, "searching")
  /\ ~MayForward(calls[p])
  /\ calls' = Put(p, Answered(calls[p], FALSE))
  /\ UNCHANGED <<world, links, blocked, forwards, deliveries>>

Block(n, k) ==
  /\ <<n, k>> \in world.blocks \ blocked
  /\ {n, k} \in links
  /\ blocked' = blocked \cup {<<n, k>>}
  /\ UNCHANGED <<world, links, calls, forwards, deliveries>>

Next ==
  \/ \E p \in DOMAIN calls :
       \/ Refuse(p) \/ Deliver(p) \/ Search(p) \/ Lie(p)
       \/ \E k \in Nodes : Forward(p, k)
       \/ Answer(p) \/ Timeout(p) \/ NoRoute(p)
  \/ \E n, k \in Nodes : Block(n, k)

Spec == Init /\ [][Next]_vars

(* The machine that searches goes on and its calls time out (hail.js's     *)
(* callPeer sets a timer); nobody else has to do anything.                 *)
OwnStep(p) ==
  \/ Search(p) \/ (\E k \in Nodes : Forward(p, k)) \/ Answer(p) \/ Timeout(p)
  \/ NoRoute(p)

FairSpec == Spec /\ WF_vars(OwnStep(Root))

-----------------------------------------------------------------------------
(* Properties. *)

Done == In(Root, "answered")

(* A link that neither end blocks. *)
Open(n, k) == {n, k} \in links /\ {<<n, k>>, <<k, n>>} \cap blocked = {}

(* A walk of n open links leads from the origin to the destination.        *)
Hops(n) ==
  \E w \in [0..n -> Nodes] :
    /\ w[0] = Origin /\ w[n] = Dest
    /\ \A i \in 0..(n - 1) : Open(w[i], w[i + 1])

(* Every machine answers truthfully and in time. *)
Truthful == world.liars = {} /\ ~world.loses

(* No fanout and no later block ends a search. *)
Unhindered == world.fanout >= Cardinality(Nodes) - 1 /\ world.blocks = {}

(* There, where no budget ends it either, the search finds the destination *)
(* if and only if that is the origin itself or within the ttl              *)
(* (test/routing.test.mjs 39-72).                                          *)
SearchIsComplete ==
  LET root == calls[Root] IN
  /\ Done /\ Truthful /\ Unhindered
  /\ root.ttl > 0 => root.spent < root.budget
  => (root.delivered <=> Origin = Dest \/ \E n \in 1..root.ttl : Hops(n))

(* There, too, what a search reports as spent is what all machines         *)
(* together forwarded, within the budget it was given (80-198).            *)
SpentIsForwarded ==
  Done /\ Truthful => /\ calls[Root].spent = forwards
                      /\ forwards <= world.budgetMax

(* Backtracking does not deliver again what was delivered: the message's id*)
(* tells, or the search ends with the first delivery (84-106, 199-201).    *)
DeliveredOnce == world.dedup \/ Truthful => deliveries <= 1

(* Whatever a caller asks for, neighbours report and answers do, a machine *)
(* forwards no deeper, wider or more than its own ceilings allow, and no   *)
(* message visits a machine twice (144-172, 189-198).                      *)
EachSearchIsBounded ==
  \A p \in DOMAIN calls :
    /\ Len(p) <= world.ttlMax + 1
    /\ \A i, j \in DOMAIN p : p[i] = p[j] => i = j
    /\ Last(p) \notin world.liars =>
         /\ calls[p].tried <= world.fanout
         /\ calls[p].tried <= world.budgetMax
         /\ calls[p].spent \in 0..world.budgetMax

(* A search whose calls time out ends, whatever its neighbours do.         *)
SearchEnds == world.loses ~> Done

=============================================================================
