---------------------------- MODULE MCReplayGuard ----------------------------
(* Manifests for model-checking ReplayGuard: an origin's message, the same  *)
(* id signed again for a later window, another id, another origin's         *)
(* message, and one whose validity is too long.                             *)
EXTENDS ReplayGuard

CONSTANTS o1, o2, a, b

Sign(o, i, iss, end) == [key |-> <<o, i>>, iss |-> iss, exp |-> end]

SomeManifests ==
  {Sign(o1, a, 0, 1), Sign(o1, a, 2, 3), Sign(o1, b, 1, 2), Sign(o2, a, 1, 2),
   Sign(o2, a, 0, 5)}

(* A time that may be past or to come, and one no manifest could justify.    *)
SomeLines == {2, 9}

=============================================================================
