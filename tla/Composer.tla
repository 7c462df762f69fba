-------------------------------- MODULE Composer --------------------------------
(***************************************************************************)
(* Launches of the session composer (composer.js).                         *)
(*                                                                         *)
(* A launch acquires what it needs one await at a time: a temporary home,  *)
(* for a remote worker a service on its node and perhaps a forwarded seat, *)
(* the T3 server, and perhaps a gate in front of it.  A control session    *)
(* acquires a grant, a forward of the remote T3, and perhaps a T3 here.    *)
(* Any of these may fail, others run meanwhile, and each may be stopped as *)
(* soon as it is listed, a launch while its gate is still coming up.       *)
(*                                                                         *)
(* A T3 leads a process group of its own.  Killing it is a SIGTERM, which  *)
(* it takes its time over or ignores, and a SIGKILL three seconds later,   *)
(* if it still runs and the daemon does.  When the daemon is told to end   *)
(* it stops what is listed and exits, whatever is still under way.  What a *)
(* launch asks of its node is as the fabric reports it: done, refused, or  *)
(* done with the answer lost.                                              *)
(***************************************************************************)
EXTENDS Naturals, FiniteSets

CONSTANTS
  Launches,     \* launches and control sessions in a behaviour
  MaxLaunches,  \* MAX_LAUNCHES
  Remotes,      \* whether a worker may be on another node
  Gates,        \* whether a launch may be gated
  Controls,     \* whether there are control sessions
  Loses,        \* whether an answer from a node may be lost
  Faults        \* whether a file operation in a home may fail

ASSUME ComposerAssumption ==
  /\ IsFiniteSet(Launches)
  /\ MaxLaunches \in Nat
  /\ {Remotes, Gates, Controls, Loses, Faults} \subseteq BOOLEAN

VARIABLES
  launches,
  daemon     \* up, closing (closeAll() has run) or gone

composerVars == <<launches, daemon>>

-----------------------------------------------------------------------------
(* A launch or control session: how far launch() or controlRemote() is,    *)
(* how far stop() is, whether `launches` or `controls` lists it, what was  *)
(* asked for, and what it holds: `t3` is the leader of T3's group,         *)
(* `strays` what of the group runs on after it, `forward` a local port     *)
(* that leads to a node (a worker's seat, or the T3 under control).        *)
(* `signalled`: T3 was sent a SIGTERM, and the timer of the SIGKILL is set.*)
(* History: `spoiled` if its home could not be written or removed, `raced` *)
(* if the launch was stopped before its gate listened, `late` if it was    *)
(* under way, not yet listed, when the daemon closed.                      *)
Phases == {"none", "remote", "seat", "mint", "forward", "t3", "gate", "up",
           "failed", "ungated"}

Launch ==
  [phase : Phases, stop : {"no", "remote", "done"}, listed : BOOLEAN,
   control : BOOLEAN, away : BOOLEAN, gated : BOOLEAN, seated : BOOLEAN,
   home : BOOLEAN, t3 : BOOLEAN, strays : BOOLEAN, signalled : BOOLEAN,
   service : BOOLEAN, forward : BOOLEAN, gate : BOOLEAN,
   spoiled : BOOLEAN, raced : BOOLEAN, late : BOOLEAN]

LaunchTypes ==
  /\ launches \in [Launches -> Launch]
  /\ daemon \in {"up", "closing", "gone"}

ComposerInit ==
  /\ launches = [l \in Launches |->
       [phase |-> "none", stop |-> "no", listed |-> FALSE,
        control |-> FALSE, away |-> FALSE, gated |-> FALSE, seated |-> FALSE,
        home |-> FALSE, t3 |-> FALSE, strays |-> FALSE, signalled |-> FALSE,
        service |-> FALSE, forward |-> FALSE, gate |-> FALSE,
        spoiled |-> FALSE, raced |-> FALSE, late |-> FALSE]]
  /\ daemon = "up"

(* `launches` and `controls`. *)
Listed == {l \in Launches : launches[l].listed /\ ~launches[l].control}
Controlled == {l \in Launches : launches[l].listed /\ launches[l].control}

At(l, phase) == launches[l].phase = phase

SetLaunch(l, r) ==
  /\ launches' = [launches EXCEPT ![l] = r]
  /\ UNCHANGED daemon

(* What the daemon does while it is there, with one outcome of several.    *)
PutLaunch(l, outcomes) ==
  /\ daemon # "gone"
  /\ \E r \in outcomes : SetLaunch(l, r)

-----------------------------------------------------------------------------
(* What becomes of a home and of a T3. *)

(* removeHome(): its failure is swallowed. *)
Removed(r) ==
  {[r EXCEPT !.home = FALSE]}
    \cup (IF Faults /\ r.home THEN {[r EXCEPT !.spoiled = TRUE]} ELSE {})

(* A launch or control session throws; only the second has its forward     *)
(* closed.  It removes the home, unless it throws for want of writing it.  *)
Thrown(r) == [r EXCEPT !.phase = "failed", !.forward = @ /\ ~r.control]
Failed(r) == Removed(Thrown(r))
Unwritten(r) == IF Faults THEN {[Thrown(r) EXCEPT !.spoiled = TRUE]} ELSE {}

(* The home is written and `t3 serve` spawned in it. *)
T3Spawned(r) == {[r EXCEPT !.t3 = TRUE, !.phase = "t3"]} \cup Unwritten(r)

(* kill(): nothing happens to a group whose leader has exited. *)
T3Killed(r) == [r EXCEPT !.signalled = @ \/ r.t3]

-----------------------------------------------------------------------------
(* launch() *)

(* Up to the first await. *)
Begin(l) ==
  /\ At(l, "none")
  /\ daemon = "up"
  /\ Cardinality(Listed) < MaxLaunches
  /\ \E away, gated, seated \in BOOLEAN :
       /\ away => Remotes
       /\ gated => Gates
       /\ seated => away
       /\ LET r == [launches[l] EXCEPT !.home = TRUE, !.away = away,
                                       !.gated = gated, !.seated = seated] IN
          PutLaunch(l, IF away THEN {[r EXCEPT !.phase = "remote"]} \cup Unwritten(r)
                               ELSE T3Spawned(r))

(* startRemote(): the node's answer. *)
RemoteStarts(l) ==
  /\ At(l, "remote")
  /\ LET r == [launches[l] EXCEPT !.service = TRUE] IN
     \/ PutLaunch(l, IF r.seated THEN {[r EXCEPT !.phase = "seat"]} ELSE T3Spawned(r))
     \/ Loses /\ PutLaunch(l, Failed(r))

RemoteRefuses(l) ==
  /\ At(l, "remote")
  /\ PutLaunch(l, Failed(launches[l]))

(* forwardSeat(): without it the worker runs unsupervised.                 *)
SeatAnswers(l) ==
  /\ At(l, "seat")
  /\ \E forwarded \in BOOLEAN :
       PutLaunch(l, T3Spawned([launches[l] EXCEPT !.forward = forwarded]))

T3Serves(l) ==
  /\ At(l, "t3")
  /\ PutLaunch(l, {[launches[l] EXCEPT !.listed = TRUE,
                                 !.phase = IF launches[l].gated THEN "gate"
                                                                ELSE "up"]})

(* It did not spawn or exited, as T3Dies has it, or reports no origin.     *)
T3Fails(l) ==
  /\ At(l, "t3")
  /\ PutLaunch(l, Failed(T3Killed(launches[l])))

GateListens(l) ==
  /\ At(l, "gate")
  /\ PutLaunch(l, {[launches[l] EXCEPT !.gate = TRUE, !.phase = "up",
                                 !.raced = ~launches[l].listed]})

GateFails(l) ==
  /\ At(l, "gate")
  /\ PutLaunch(l, Removed([T3Killed(launches[l]) EXCEPT !.listed = FALSE,
                                                    !.phase = "ungated"]))

-----------------------------------------------------------------------------
(* controlRemote(): the grant is minted on the node, then its T3 is        *)
(* forwarded, then a T3 already running here is found or one is spawned.   *)

BeginControl(l) ==
  /\ Controls
  /\ At(l, "none")
  /\ daemon = "up"
  /\ Cardinality(Controlled) < MaxLaunches
  /\ PutLaunch(l, {[launches[l] EXCEPT !.control = TRUE, !.phase = "mint"]})

MintAnswers(l) ==
  /\ At(l, "mint")
  /\ PutLaunch(l, {[launches[l] EXCEPT !.phase = phase] : phase \in {"forward", "failed"}})

(* It does not open; it opens and there is a T3 here, or none, or a new    *)
(* one is wanted.                                                          *)
ForwardAnswers(l) ==
  /\ At(l, "forward")
  /\ LET r == launches[l] IN
     \/ PutLaunch(l, Failed(r))
     \/ PutLaunch(l, {[r EXCEPT !.forward = TRUE, !.listed = TRUE, !.phase = "up"]})
     \/ PutLaunch(l, T3Spawned([r EXCEPT !.forward = TRUE, !.home = TRUE]))

-----------------------------------------------------------------------------
(* stop() and stopControl() *)

(* Plausible bug: the T3 of a stopped control session runs on.             *)
StoppedButRunning(r) ==
  LET closed == [(IF r.control THEN r ELSE T3Killed(r)) EXCEPT
                   !.listed = FALSE, !.gate = FALSE, !.forward = FALSE] IN
  IF r.away THEN {[closed EXCEPT !.stop = "remote"]}
            ELSE Removed([closed EXCEPT !.stop = "done"])

(* Up to stop()'s first await. *)
Stopped(r) ==
  LET closed == [T3Killed(r) EXCEPT !.listed = FALSE, !.gate = FALSE,
                                  !.forward = FALSE] IN
  IF r.away THEN {[closed EXCEPT !.stop = "remote"]}
            ELSE Removed([closed EXCEPT !.stop = "done"])

StopLaunch(l) ==
  /\ daemon = "up"
  /\ launches[l].listed
  /\ PutLaunch(l, Stopped(launches[l]))

(* stopRemote(): its failure is swallowed. *)
RemoteStops(l) ==
  /\ launches[l].stop = "remote"
  /\ \E service \in {FALSE} \cup (IF Loses THEN {launches[l].service} ELSE {}) :
       PutLaunch(l, Removed([launches[l] EXCEPT !.service = service, !.stop = "done"]))

-----------------------------------------------------------------------------
(* The processes of T3, which are there when the daemon is gone, too. *)

(* It exits, by itself or for a SIGTERM, and may leave others of its group *)
(* behind; only a starting launch notices.                                 *)
T3Dies(l) ==
  /\ launches[l].t3
  /\ \E strays \in BOOLEAN :
       SetLaunch(l, [launches[l] EXCEPT !.t3 = FALSE, !.strays = strays])

StraysDie(l) ==
  /\ launches[l].strays
  /\ SetLaunch(l, [launches[l] EXCEPT !.strays = FALSE])

(* The timer of kill(): the group gets a SIGKILL if its leader still runs. *)
Escalates(l) ==
  /\ launches[l].signalled
  /\ launches[l].t3
  /\ PutLaunch(l, {[launches[l] EXCEPT !.t3 = FALSE]})

-----------------------------------------------------------------------------
(* The daemon's end: its listeners are closed, closeAll() starts every     *)
(* stop, and the process exits without waiting for them or for a timer.    *)
(* What it held in memory, gates and forwards, goes with it; a T3 is a     *)
(* process of its own.                                                     *)
Closed(r) ==
  IF r.listed THEN Stopped(r)
  ELSE {[r EXCEPT !.late = r.phase \notin {"none", "up", "failed", "ungated"}]}

CloseAll ==
  /\ daemon = "up"
  /\ \E closed \in [Launches -> UNION {Closed(launches[l]) : l \in Launches}] :
       /\ \A l \in Launches : closed[l] \in Closed(launches[l])
       /\ launches' = closed
  /\ daemon' = "closing"

Exit ==
  /\ daemon = "closing"
  /\ launches' = [l \in Launches |->
                    [launches[l] EXCEPT !.gate = FALSE, !.forward = FALSE]]
  /\ daemon' = "gone"

(* The daemon is gone, or every launch of the behaviour is over. *)
Rest ==
  /\ \/ daemon = "gone"
     \/ \A l \in Launches :
          \/ launches[l].phase \in {"failed", "ungated"}
          \/ launches[l].phase = "up" /\ launches[l].stop = "done"
  /\ UNCHANGED composerVars

ComposerNext ==
  \/ \E l \in Launches :
       \/ Begin(l) \/ RemoteStarts(l) \/ RemoteRefuses(l) \/ SeatAnswers(l)
       \/ T3Serves(l) \/ T3Fails(l) \/ GateListens(l) \/ GateFails(l)
       \/ BeginControl(l) \/ MintAnswers(l) \/ ForwardAnswers(l)
       \/ StopLaunch(l) \/ RemoteStops(l)
       \/ T3Dies(l) \/ StraysDie(l) \/ Escalates(l)
  \/ CloseAll
  \/ Exit
  \/ Rest

ComposerSpec == ComposerInit /\ [][ComposerNext]_composerVars

-----------------------------------------------------------------------------
(* Properties. *)

(* While the daemon runs, a T3 that runs is one that is listed, so that it *)
(* can be stopped, one its launch is waiting for, or one that was sent a   *)
(* SIGTERM and will be sent a SIGKILL; a temporary home belongs to a launch*)
(* that is under way, listed or being stopped, unless it could not be      *)
(* written or removed (composer.js 152-160, 236-263, 464-469).             *)
LocalsAreTracked ==
  daemon # "gone" =>
    \A l \in Launches :
      LET r == launches[l] IN
      /\ r.t3 => r.listed \/ r.phase = "t3" \/ r.signalled
      /\ r.home => \/ r.listed
                   \/ r.phase \in {"remote", "seat", "t3"}
                   \/ r.stop = "remote"
                   \/ r.spoiled

(* A local launch or control session that failed or was stopped holds      *)
(* nothing, whatever failed and whichever of the awaits it was stopped in, *)
(* but for a T3 that has its SIGTERM, a home whose files failed and a gate *)
(* that listens after the stop (111-121, 289-313, 384-430).                *)
EndedLocalsHoldNothing ==
  \A l \in Launches :
    LET r == launches[l] IN
    /\ ~r.away
    /\ ~r.raced
    /\ \/ r.phase \in {"failed", "ungated"}
       \/ r.phase = "up" /\ r.stop = "done"
    => /\ ~r.service /\ ~r.forward /\ ~r.gate
       /\ r.t3 => r.signalled
       /\ r.home => r.spoiled

(* A T3 that outlives the daemon is one whose launch was still under way   *)
(* when it closed, or one that has not obeyed its SIGTERM yet; a home is   *)
(* that of such a launch, of one whose node was still to answer, or could  *)
(* not be written or removed (server.js 1470, bin/hail.js 1320-1322).      *)
LittleOutlives ==
  daemon = "gone" =>
    \A l \in Launches :
      LET r == launches[l] IN
      /\ r.t3 => r.late \/ r.signalled
      /\ r.home => r.late \/ r.stop = "remote" \/ r.spoiled

(* No T3 is left on this machine that neither can be stopped nor has been  *)
(* told to end, and no directory nobody would remove: while the daemon     *)
(* runs, when a launch is over or when the daemon is, the launches apart   *)
(* that its end overtakes.                                                 *)
LocalsAreHeld ==
  LocalsAreTracked /\ EndedLocalsHoldNothing /\ LittleOutlives

(* "Strand nothing: tear the T3 down and forget the launch before failing" *)
(* (composer.js 258): a launch whose gate failed holds nothing, if its T3  *)
(* has obeyed the SIGTERM.  A remote one does.                             *)
UngatedHoldsNothing ==
  \A l \in Launches :
    LET r == launches[l] IN
    At(l, "ungated") /\ ~r.t3 => ~r.home /\ ~r.service /\ ~r.forward /\ ~r.gate

(* "so `stop` does not report success over a process that is still alive"  *)
(* (465-466): a stopped launch has no process left.  It has: the answer    *)
(* does not wait for the timer, and what outlives its leader is spared.    *)
StoppedIsGone ==
  \A l \in Launches :
    LET r == launches[l] IN r.stop = "done" => ~r.t3 /\ ~r.strays

=============================================================================
