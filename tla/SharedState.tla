----------------------------- MODULE SharedState -----------------------------
(***************************************************************************)
(* What updateState promises its callers: each call applies its change to  *)
(* the state on disk in one atomic step, so no writer's change disappears  *)
(* under another's, for as long as no process has reported that it went    *)
(* ahead without exclusivity.  After such a report a call still lands its  *)
(* own change, and never invents anybody else's, but may lose others'.     *)
(***************************************************************************)
EXTENDS Naturals

CONSTANTS Procs, MaxCalls

VARIABLES
  file,     \* file[p]: the last change of p that the file holds
  calls,    \* calls[p]: calls made by p
  stage,    \* stage[p]: where p's current call is
  reported  \* somebody reported a loss of exclusivity

vars == <<file, calls, stage, reported>>

Init ==
  /\ file = [p \in Procs |-> 0]
  /\ calls = [p \in Procs |-> 0]
  /\ stage = [p \in Procs |-> "idle"]
  /\ reported = FALSE

Call(p) ==
  /\ stage[p] = "idle"
  /\ calls[p] < MaxCalls
  /\ calls' = [calls EXCEPT ![p] = @ + 1]
  /\ stage' = [stage EXCEPT ![p] = "called"]
  /\ UNCHANGED <<file, reported>>

Apply(p) ==
  /\ stage[p] = "called"
  /\ stage' = [stage EXCEPT ![p] = "settled"]
  /\ \/ ~reported /\ file' = [file EXCEPT ![p] = calls[p]]
     \/ /\ reported
        /\ file' \in [Procs -> Nat]
        /\ file'[p] = calls[p]
        /\ \A q \in Procs : file'[q] <= calls[q]
  /\ UNCHANGED <<calls, reported>>

(* The change was refused, or its write failed: the file is as it was.     *)
Refuse(p) ==
  /\ stage[p] = "called"
  /\ stage' = [stage EXCEPT ![p] = "settled"]
  /\ UNCHANGED <<file, calls, reported>>

Return(p) ==
  /\ stage[p] = "settled"
  /\ stage' = [stage EXCEPT ![p] = "idle"]
  /\ UNCHANGED <<file, calls, reported>>

Die(p) ==
  /\ stage[p] \in {"called", "settled"}
  /\ stage' = [stage EXCEPT ![p] = "dead"]
  /\ UNCHANGED <<file, calls, reported>>

Report ==
  /\ reported' = TRUE
  /\ UNCHANGED <<file, calls, stage>>

Next ==
  \/ \E p \in Procs : Call(p) \/ Apply(p) \/ Refuse(p) \/ Return(p) \/ Die(p)
  \/ Report

Spec == Init /\ [][Next]_vars

=============================================================================
