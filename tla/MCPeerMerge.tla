------------------------------ MODULE MCPeerMerge ------------------------------
(* Symmetries for model-checking PeerMerge: identities, sealing keys,        *)
(* profiles and processes are told apart only by being different.  Where     *)
(* nothing is forgotten, a peer that is there at first stays and is never    *)
(* admitted anew: those behaviours are among the ones that may forget, and   *)
(* what may only be admitted starts from an empty file.                      *)
EXTENDS PeerMerge, TLC

MCInit == Init /\ (fate = "admitted" => file = Empty)

MCSpec == MCInit /\ [][Next]_vars

Interchangeable ==
  Permutations(Ids) \cup Permutations(Seals) \cup Permutations(Profiles)
    \cup Permutations(Clis)

=============================================================================
