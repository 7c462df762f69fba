------------------------------- MODULE MCComposer -------------------------------
(* Symmetry for model-checking Composer: launches are interchangeable.       *)
EXTENDS Composer, TLC

Interchangeable == Permutations(Launches)

=============================================================================
