-------------------------- MODULE MCRouteRetirement --------------------------
(* Symmetry for model-checking RouteRetirement: every constant set is a set *)
(* of interchangeable model values.                                         *)
EXTENDS RouteRetirement, TLC

Symmetry ==
  Permutations(Peers) \cup Permutations(Keys) \cup Permutations(Clis)

=============================================================================
