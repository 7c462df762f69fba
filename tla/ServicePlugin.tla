----------------------------- MODULE ServicePlugin -----------------------------
(***************************************************************************)
(* Long-running processes started for peers (builtin/servicePlugin.js).    *)
(*                                                                         *)
(* A start reserves a slot, then either waits for the machine to allocate  *)
(* a port and spawns (claim mode), or spawns and waits for the child to    *)
(* announce the port it bound (report mode).  Meanwhile other peers start, *)
(* services are stopped, polled, reaped or end by themselves, and the host *)
(* may discard the plugin (a reload) while a start is still waiting.       *)
(*                                                                         *)
(* A slot stands for one service id; once the processes and events of an   *)
(* id are over it stands for the next service.                             *)
(***************************************************************************)
EXTENDS Naturals, FiniteSets

CONSTANTS
  Peers,        \* callers, told apart by key
  Slots,        \* service ids
  MaxServices,  \* MAX_SERVICES
  MaxPerPeer,   \* MAX_PER_PEER
  Reporting,    \* declared modes: TRUE for reportsPort, FALSE for claim
  Forks,        \* whether a declared line may leave processes behind its shell
  Discards      \* whether the host may discard the plugin

ASSUME ServiceAssumption ==
  /\ Peers # {}
  /\ IsFiniteSet(Slots)
  /\ MaxServices \in Nat
  /\ MaxPerPeer \in Nat
  /\ Reporting \subseteq BOOLEAN
  /\ Forks \in BOOLEAN
  /\ Discards \in BOOLEAN

VARIABLES
  slots,     \* slots[i]: the service of an id, and the start that made it
  discarded  \* stop() has run: no new request reaches this instance

vars == <<slots, discarded>>

-----------------------------------------------------------------------------
(* A service: `held` while it is in `running`; `shell` is the child, whose *)
(* exit event is handled when it is "gone"; `group` while any process of   *)
(* its group runs; `wired` once wireLifecycle() listens; `reports` in      *)
(* report mode; `age` against IDLE_MS and MAX_LIFETIME_MS.                 *)
Slot == [req : {"none", "allocating", "announcing", "started", "refused"},
         peer : Peers, held : BOOLEAN,
         shell : {"none", "up", "ended", "gone"}, group : BOOLEAN,
         wired : BOOLEAN, reports : BOOLEAN,
         age : {"fresh", "idle", "old"}]

TypeOK ==
  /\ slots \in [Slots -> Slot]
  /\ discarded \in BOOLEAN

(* Nothing under an id. *)
Blank ==
  [req |-> "none", peer |-> CHOOSE p \in Peers : TRUE, held |-> FALSE,
   shell |-> "none", group |-> FALSE, wired |-> FALSE, reports |-> FALSE,
   age |-> "fresh"]

Init ==
  /\ slots = [i \in Slots |-> Blank]
  /\ discarded = FALSE

(* kill(): the whole group, if a child was spawned at all.                 *)
Killed(s) ==
  IF s.shell = "none" THEN s
  ELSE [s EXCEPT !.group = FALSE, !.shell = IF @ = "up" THEN "ended" ELSE @]

Dropped(s) == [s EXCEPT !.held = FALSE]

(* Plausible bug: only idleness is looked at, so polling keeps a service.  *)
LapsedIdle(s) == s.held /\ s.age = "idle"

(* reap(). *)
Lapsed(s) == s.held /\ s.age # "fresh"
Reaped ==
  [i \in Slots |-> IF Lapsed(slots[i]) THEN Dropped(Killed(slots[i]))
                                       ELSE slots[i]]

Running(t) == {i \in Slots : t[i].held}

(* Plausible bug: a start that is still waiting is not counted.            *)
MineStarted(t, p) == {i \in Running(t) : t[i].peer = p /\ t[i].req = "started"}

Mine(t, p) == {i \in Running(t) : t[i].peer = p}

Full(t, p) ==
  \/ Cardinality(Running(t)) >= MaxServices
  \/ Cardinality(Mine(t, p)) >= MaxPerPeer

(* Nothing of the service or of its start is left.                         *)
Over(s) ==
  /\ s.req \in {"started", "refused"}
  /\ ~s.held
  /\ ~s.group
  /\ s.shell \in {"none", "gone"}

Reserved(p, r) ==
  [req |-> r, peer |-> p, held |-> TRUE, shell |-> "none", group |-> FALSE,
   wired |-> FALSE, reports |-> r = "announcing", age |-> "fresh"]

Spawned(s) == [s EXCEPT !.shell = "up", !.group = TRUE]
Refused(s) == [Dropped(s) EXCEPT !.req = "refused"]

Put(i, s) ==
  /\ slots' = [slots EXCEPT ![i] = IF Over(s) THEN Blank ELSE s]
  /\ UNCHANGED discarded

-----------------------------------------------------------------------------
(* POST /service/<name>/start *)

StartRefused(p) ==
  /\ ~discarded
  /\ Full(Reaped, p)
  /\ slots' = Reaped
  /\ UNCHANGED discarded

StartClaim(p, i) ==
  /\ ~discarded
  /\ FALSE \in Reporting
  /\ ~Full(Reaped, p)
  /\ slots[i].req = "none"
  /\ slots' = [Reaped EXCEPT ![i] = Reserved(p, "allocating")]
  /\ UNCHANGED discarded

(* Up to the await: the child is spawned, or cannot be, and nothing stays. *)
StartReport(p, i) ==
  /\ ~discarded
  /\ TRUE \in Reporting
  /\ ~Full(Reaped, p)
  /\ slots[i].req = "none"
  /\ \E s \in {Spawned(Reserved(p, "announcing")),
               Blank} :
       slots' = [Reaped EXCEPT ![i] = s]
  /\ UNCHANGED discarded

(* The port is allocated: the line is spawned, or cannot be.               *)
Allocated(i) ==
  /\ slots[i].req = "allocating"
  /\ \/ Put(i, [Spawned(slots[i]) EXCEPT !.wired = TRUE, !.req = "started"])
     \/ Put(i, Refused(slots[i]))

NoPort(i) ==
  /\ slots[i].req = "allocating"
  /\ Put(i, Refused(slots[i]))

(* readAnnouncedPort(): a line with a port, read before the exit event.    *)
Announced(i) ==
  /\ slots[i].req = "announcing"
  /\ slots[i].shell \in {"up", "ended"}
  /\ Put(i, [slots[i] EXCEPT !.wired = TRUE, !.req = "started"])

(* Plausible bug: the child that stayed silent is left running.            *)
SilentKept(i) ==
  /\ slots[i].req = "announcing"
  /\ Put(i, Refused(slots[i]))

(* No port in time, or output that is no announcement.                     *)
Silent(i) ==
  /\ slots[i].req = "announcing"
  /\ Put(i, Refused(Killed(slots[i])))

-----------------------------------------------------------------------------
(* stop and status, for the peer that started the service *)

Owns(p, i) ==
  /\ ~discarded
  /\ slots[i].req = "started"
  /\ slots[i].held
  /\ slots[i].peer = p

Stop(p, i) ==
  /\ Owns(p, i)
  /\ Put(i, Dropped(Killed(slots[i])))

Status(p, i) ==
  /\ Owns(p, i)
  /\ slots[i].age = "idle"
  /\ Put(i, [slots[i] EXCEPT !.age = "fresh"])

-----------------------------------------------------------------------------
(* Processes, their events, time and the host *)

ProcessesEnd(i) ==
  /\ slots[i].group
  /\ Put(i, Killed(slots[i]))

ShellEnds(i) ==
  /\ Forks
  /\ slots[i].shell = "up"
  /\ Put(i, [slots[i] EXCEPT !.shell = "ended"])

(* The child's exit (or error) event.                                      *)
ExitEvent(i) ==
  /\ slots[i].shell = "ended"
  /\ LET s == [slots[i] EXCEPT !.shell = "gone"] IN
     Put(i, IF s.req = "announcing" THEN Refused(Killed(s))
            ELSE IF s.wired THEN Dropped(s) ELSE s)

(* A service nobody touches, and one that has had its time.                *)
Idle(i) ==
  /\ slots[i].held
  /\ slots[i].req = "started"
  /\ slots[i].age = "fresh"
  /\ Put(i, [slots[i] EXCEPT !.age = "idle"])

Old(i) ==
  /\ slots[i].held
  /\ slots[i].req = "started"
  /\ slots[i].age # "old"
  /\ Put(i, [slots[i] EXCEPT !.age = "old"])

Sweep ==
  /\ ~discarded
  /\ Reaped # slots
  /\ slots' = Reaped
  /\ UNCHANGED discarded

(* The plugin's own stop(). *)
Discard ==
  /\ Discards
  /\ ~discarded
  /\ slots' = [i \in Slots |-> IF slots[i].held THEN Dropped(Killed(slots[i]))
                                                ELSE slots[i]]
  /\ discarded' = TRUE

Next ==
  \/ \E p \in Peers :
       \/ StartRefused(p)
       \/ \E i \in Slots :
            StartClaim(p, i) \/ StartReport(p, i) \/ Stop(p, i) \/ Status(p, i)
  \/ \E i \in Slots :
       \/ Allocated(i) \/ NoPort(i) \/ Announced(i) \/ Silent(i)
       \/ ProcessesEnd(i) \/ ShellEnds(i) \/ ExitEvent(i)
       \/ Idle(i) \/ Old(i)
  \/ Sweep
  \/ Discard

Spec == Init /\ [][Next]_vars

(* Timers fire, time passes and the host delivers events; nobody has to    *)
(* stop a service and no process has to end.                               *)
Fairness ==
  /\ WF_vars(Sweep)
  /\ \A i \in Slots :
       /\ WF_vars(Silent(i))
       /\ WF_vars(ExitEvent(i))
       /\ WF_vars(Old(i))

FairSpec == Spec /\ Fairness

-----------------------------------------------------------------------------
(* Properties. *)

(* However many starts wait at once, the table stays within both ceilings  *)
(* (servicePlugin.js 303-319: a slot is reserved before the first await).  *)
CapsHold ==
  /\ Cardinality(Running(slots)) <= MaxServices
  /\ \A p \in Peers : Cardinality(Mine(slots, p)) <= MaxPerPeer

(* "Everything below is about not leaking or leaving one running" (26-28): *)
(* a process that runs is one the table holds, which its owner can stop    *)
(* and the reaper will find, whatever start it came from.                  *)
EveryProcessIsHeld ==
  \A i \in Slots : slots[i].group => slots[i].held

(* That is so of a line whose shell still runs, unless the plugin was      *)
(* discarded while the start waited for a port.                            *)
Watched(s) == s.group /\ s.shell = "up" /\ (discarded => s.reports)

NothingIsStranded ==
  \A i \in Slots : Watched(slots[i]) => slots[i].held

(* "A service never lives past this, touched or not" (44-45): a peer that  *)
(* keeps polling, or a child that never speaks, does not keep it alive.    *)
NothingRunsForever ==
  \A i \in Slots : Watched(slots[i]) ~> ~Watched(slots[i])

=============================================================================
