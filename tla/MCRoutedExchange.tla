--------------------------- MODULE MCRoutedExchange ---------------------------
(* One origin that sends twice through two neighbours of the destination,    *)
(* and a second that sends nothing and may fill the store of markers.  The   *)
(* two sealing keys are alike, so the destination starts with a given one;   *)
(* an origin that comes with a key comes to a destination without markers    *)
(* and, before its first reload, without a floor.                            *)
EXTENDS RoutedExchange

CONSTANTS o1, o2, k1

MCOriginOf == [i \in Ids |-> o1]

MCInit ==
  /\ Init
  /\ sealKey = k1
  /\ entry[o2] = NoEntry /\ o1 \notin onDisk
  /\ onDisk = {} \/ (entry[o1] = NoEntry /\ ~floor)
  /\ floor => entry[o1] = NoEntry

MCSpec == MCInit /\ [][Next]_vars /\ Fairness
=============================================================================
