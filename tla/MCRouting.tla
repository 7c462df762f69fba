------------------------------- MODULE MCRouting -------------------------------
(* Circumstances for model-checking Routing.                                 *)
EXTENDS Routing

CONSTANT Liar

Pairs == {e \in Nodes \X Nodes : e[1] # e[2]}

(* Nothing ends a search but the ttl; one or two machines have blocked one.  *)
Calm ==
  [liars : {{}}, loses : {FALSE}, dedup : {FALSE}, ttl : {0, 1, 2, 9},
   budget : {99}, ttlMax : {3}, budgetMax : {64}, fanout : {3},
   blocked : {B \in SUBSET Pairs : Cardinality(B) <= 2}, blocks : {{}}]

(* Budgets and fanouts end it, and the origin blocks while it runs.          *)
Tight ==
  [liars : {{}}, loses : {FALSE}, dedup : {FALSE}, ttl : {2, 9},
   budget : {3, 99}, ttlMax : {3}, budgetMax : {5}, fanout : {2},
   blocked : {{}}, blocks : {{e \in Pairs : e[1] = Origin}}]

(* A neighbour lies, answers are late, the first call asks for too much.     *)
Hostile ==
  [liars : {{Liar}}, loses : {TRUE}, dedup : {TRUE}, ttl : {2, 9},
   budget : {-1, 2, 99}, ttlMax : {3}, budgetMax : {4}, fanout : {2},
   blocked : {{}}, blocks : {{}}]

Circumstances == Calm \cup Tight \cup Hostile

(* Numbers no honest machine sends among them.                               *)
Tales == {-1, 1, 9}

=============================================================================
