-------------------------------- MODULE Runtime --------------------------------
(***************************************************************************)
(* A daemon's runtime and its reloads: doReload(), applyReload(),          *)
(* applyChange() and the SIGHUP handler of bin/hail.js, buildRuntime() of  *)
(* runtime.js, the plugin sets of plugins.js, reload() and the dispatch of *)
(* plugin routes in server.js.                                             *)
(*                                                                         *)
(* Commands write the state file in processes of their own.  The daemon    *)
(* serves from what it took on last: a directory, a set of plugins and the *)
(* profiles that the two make together.  A reload loads the file, builds   *)
(* plugins while other things go on, and puts all three in force at once.  *)
(* A request has its route looked up before its body is read.              *)
(*                                                                         *)
(* One peer calls one plugin, which keeps something running for it between *)
(* requests (a tunnel's socket, a shell).  How writers share the file is   *)
(* StateLock's question, and a key bound by a hail PeerMerge's.            *)
(***************************************************************************)
EXTENDS Naturals, Sequences

CONSTANTS
  Requests,     \* requests of the peer
  MaxVersions,  \* bound: states the file goes through
  MaxReloads,   \* bound: reloads asked for
  MaxFailures   \* bound: reloads that fail

ASSUME RuntimeAssumption == {MaxVersions, MaxReloads, MaxFailures} \subseteq Nat

VARIABLES
  disk,       \* the state file
  dir,        \* what the daemon's directory took on of it
  plugs,      \* the plugin set that serves, and what it was built from
  known,      \* the peer's profile is one of the profiles in force
  gen,        \* directory.generation()
  chain,      \* reloadChain: reloads asked for, the first one running
  build,      \* the reload that runs, between its snapshot and its commit
  failures,   \* bound: reloads that have failed
  signalled,  \* history: the file's version when SIGHUP was last sent
  reqs,       \* the peer's requests
  running,    \* plugin instances that keep something running
  retired,    \* instances whose stop() is queued
  stopped     \* instances whose stop() has run

fileVars == <<disk, signalled>>
serveVars == <<dir, plugs, known, gen>>
reloadVars == <<chain, build, failures>>
instVars == <<running, retired, stopped>>
runtimeVars == <<fileVars, serveVars, reloadVars, reqs, instVars>>

-----------------------------------------------------------------------------
(* Of the file: whether it blocks the peer, defines the profile the peer is *)
(* assigned, declares what the plugin serves (a tunnel), and lists an       *)
(* external plugin that suggests the same profile.                          *)
Switches == {"blocked", "stored", "tunnel", "module"}
File == [ver : Nat, blocked : BOOLEAN, stored : BOOLEAN,
         tunnel : BOOLEAN, module : BOOLEAN]

Changed(f, switch) ==
  [ver     |-> f.ver + 1,
   blocked |-> f.blocked # (switch = "blocked"),
   stored  |-> f.stored # (switch = "stored"),
   tunnel  |-> f.tunnel # (switch = "tunnel"),
   module  |-> f.module # (switch = "module")]

(* A plugin set: built from which version, as which build.  The plugins of  *)
(* the program are built anew; an external one is the object its module     *)
(* exports, the same in every set.                                          *)
Set(f, n) == [ver |-> f.ver, tunnel |-> f.tunnel, module |-> f.module, build |-> n]
External == 0
Instances(p) == (IF p.tunnel THEN {p.build} ELSE {})
                  \cup (IF p.module THEN {External} ELSE {})

(* mergeProfiles(): what the plugins suggest, and what the file stores.     *)
Suggested(p) == p.module
Merged(p, f) == Suggested(p) \/ f.stored

Idle == [on |-> FALSE]
Unasked == [state |-> "unasked"]

RuntimeInit ==
  /\ disk = [ver |-> 0, blocked |-> FALSE, stored |-> TRUE, tunnel |-> TRUE, module |-> TRUE]
  /\ dir = disk
  /\ plugs = Set(disk, 1)
  /\ known = Merged(plugs, disk)
  /\ gen = 0
  /\ chain = <<>> /\ build = Idle /\ failures = 0
  /\ signalled = 0
  /\ reqs = [r \in Requests |-> Unasked]
  /\ running = {} /\ retired = {} /\ stopped = {}

-----------------------------------------------------------------------------
(* What the daemon's directory is given. *)

(* adopt(): everything but the profiles.                                    *)
Adopt(f) == dir' = f /\ gen' = gen + 1

UseProfiles(p, f) == known' = Merged(p, f)

-----------------------------------------------------------------------------
(* Writers. *)

(* A command of the CLI, in another process.                                *)
Command(switch) ==
  /\ disk.ver < MaxVersions
  /\ disk' = Changed(disk, switch)
  /\ UNCHANGED <<signalled, serveVars, reloadVars, reqs, instVars>>

(* A build turns the event loop only while external plugins are loaded;     *)
(* without any, nothing of this process comes between snapshot and commit.  *)
Turns == build.on => build.of.module

(* applyChange(), for the page and for a hail: the file changes under its   *)
(* lock, and the directory takes on what was written.                       *)
ApplyChange(switch) ==
  /\ Turns
  /\ switch \in {"blocked", "stored"}
  /\ disk.ver < MaxVersions
  /\ disk' = Changed(disk, switch)
  /\ Adopt(disk')
  /\ UseProfiles(plugs, disk')
  /\ UNCHANGED <<signalled, plugs, reloadVars, reqs, instVars>>

-----------------------------------------------------------------------------
(* Reloads. *)

(* Reloads asked for: those in force by now, those that failed, and those   *)
(* on the chain.                                                            *)
Asked == plugs.build - 1 + failures + Len(chain)

(* Plausible bug: who asks while one runs is given the result of that one.  *)
AskTogether ==
  /\ Turns
  /\ Asked < MaxReloads
  /\ chain' = IF chain = <<>> THEN <<[by |-> "api", since |-> disk.ver]>>
              ELSE [chain EXCEPT ![1].since = disk.ver]
  /\ UNCHANGED <<fileVars, serveVars, build, failures, reqs, instVars>>

(* POST /api/reload: applyReload() puts one more on the chain.              *)
AskReload ==
  /\ Turns
  /\ Asked < MaxReloads
  /\ chain' = Append(chain, [by |-> "api", since |-> disk.ver])
  /\ UNCHANGED <<fileVars, serveVars, build, failures, reqs, instVars>>

(* SIGHUP: nothing while an earlier one is not through.                     *)
Reloading == \E k \in DOMAIN chain : chain[k].by = "hup"

HangUp ==
  /\ Turns
  /\ Asked < MaxReloads
  /\ signalled' = disk.ver
  /\ IF Reloading THEN UNCHANGED chain
     ELSE chain' = Append(chain, [by |-> "hup", since |-> disk.ver])
  /\ UNCHANGED <<disk, serveVars, build, failures, reqs, instVars>>

(* doReload(): a snapshot, and a build that awaits its plugins.             *)
Snapshot == [on |-> TRUE, gen |-> gen, of |-> disk]

StartReload ==
  /\ chain # <<>> /\ ~build.on
  /\ build' = Snapshot
  /\ UNCHANGED <<fileVars, serveVars, chain, failures, reqs, instVars>>

(* The fence: something was adopted while the plugins were being built.     *)
Overtaken == build.gen # gen

(* Plausible bug: the loop takes a new snapshot under the old generation.   *)
RebuildSameGen ==
  /\ build.on /\ Overtaken
  /\ build' = [Snapshot EXCEPT !.gen = build.gen]
  /\ UNCHANGED <<fileVars, serveVars, chain, failures, reqs, instVars>>

Rebuild ==
  /\ build.on /\ Overtaken
  /\ build' = Snapshot
  /\ UNCHANGED <<fileVars, serveVars, chain, failures, reqs, instVars>>

(* Only those that the new set does not hold.                               *)
Retired(old, new) == Instances(old) \ Instances(new)

(* Plausible bug: what was built goes into force whatever happened.         *)
CommitRegardless ==
  /\ build.on
  /\ retired = {}
  /\ LET new == Set(build.of, plugs.build + 1) IN
     /\ UseProfiles(new, build.of)
     /\ Adopt(build.of)
     /\ plugs' = new
     /\ retired' = Retired(plugs, new)
  /\ chain' = Tail(chain) /\ build' = Idle
  /\ UNCHANGED <<fileVars, failures, reqs, running, stopped>>

(* reload() of the daemon: profiles, directory, plugins and routes in one   *)
(* step; the retired plugins are stopped in turns of their own, which come  *)
(* before any later reload's.                                               *)
Commit ==
  /\ build.on /\ ~Overtaken
  /\ retired = {}
  /\ LET new == Set(build.of, plugs.build + 1) IN
     /\ UseProfiles(new, build.of)
     /\ Adopt(build.of)
     /\ plugs' = new
     /\ retired' = Retired(plugs, new)
  /\ chain' = Tail(chain) /\ build' = Idle
  /\ UNCHANGED <<fileVars, failures, reqs, running, stopped>>

(* A plugin cannot be built, and the old runtime goes on; or a record of a  *)
(* file edited by hand cannot, when the profiles are in force already.  The *)
(* next reload of the chain has its turn.                                   *)
Fail ==
  /\ build.on /\ failures < MaxFailures
  /\ \/ UNCHANGED known
     \/ /\ ~Overtaken /\ retired = {}
        /\ UseProfiles(Set(build.of, plugs.build), build.of)
  /\ failures' = failures + 1
  /\ chain' = Tail(chain) /\ build' = Idle
  /\ UNCHANGED <<fileVars, dir, plugs, gen, reqs, instVars>>

Stop(n) ==
  /\ n \in retired
  /\ retired' = retired \ {n}
  /\ stopped' = stopped \cup {n}
  /\ running' = running \ {n}
  /\ UNCHANGED <<fileVars, serveVars, reloadVars, reqs>>

-----------------------------------------------------------------------------
(* Requests of the peer. *)

(* The route is looked up, and the body awaited.                            *)
Arrive(r, grant) ==
  /\ Turns
  /\ reqs[r] = Unasked
  /\ \E n \in Instances(plugs) :
       reqs' = [reqs EXCEPT ![r] = [state |-> "reading", inst |-> n, grant |-> grant]]
  /\ UNCHANGED <<fileVars, serveVars, reloadVars, instVars>>

Blocked == dir.blocked

(* The profile assigned to the peer: blocked beats it, and one that is not  *)
(* in force any more allows nothing.                                        *)
Resolves == known
HoldsProfile == ~Blocked /\ Resolves

(* A grant from an issuer that may delegate; blocked beats it too.          *)
GrantAllows(grant) == grant /\ ~Blocked

Allowed(grant) == HoldsProfile \/ GrantAllows(grant)

(* identify(), authenticate() and the handler follow in one turn.           *)
Dispatch(r) ==
  /\ Turns
  /\ reqs[r].state = "reading"
  /\ IF Allowed(reqs[r].grant)
     THEN /\ reqs' = [reqs EXCEPT ![r].state = "handled"]
          /\ running' = running \cup {reqs[r].inst}
     ELSE /\ reqs' = [reqs EXCEPT ![r].state = "refused"]
          /\ UNCHANGED running
  /\ UNCHANGED <<fileVars, serveVars, reloadVars, retired, stopped>>

(* What ran ends, or its plugin's sweep ends it; stop() clears the sweep.   *)
End(n) ==
  /\ Turns
  /\ n \in running \ stopped
  /\ running' = running \ {n}
  /\ UNCHANGED <<fileVars, serveVars, reloadVars, reqs, retired, stopped>>

RuntimeNext ==
  \/ \E switch \in Switches : Command(switch) \/ ApplyChange(switch)
  \/ AskReload \/ HangUp \/ StartReload \/ Rebuild \/ Commit \/ Fail
  \/ \E n \in retired : Stop(n)
  \/ \E n \in running : End(n)
  \/ \E r \in Requests : Dispatch(r) \/ \E grant \in BOOLEAN : Arrive(r, grant)

(* A build ends one way or the other, and a queued turn comes.              *)
Fairness ==
  /\ WF_runtimeVars(StartReload) /\ WF_runtimeVars(Rebuild) /\ WF_runtimeVars(Commit)
  /\ \A n \in 0..(MaxReloads + 1) : WF_runtimeVars(Stop(n))

RuntimeSpec == RuntimeInit /\ [][RuntimeNext]_runtimeVars /\ Fairness

-----------------------------------------------------------------------------
(* Properties. *)

(* The fence of doReload(): a reload that was overtaken by applyChange()    *)
(* never puts the older file, nor plugins of it, back in force.             *)
NeverGoesBack == [][dir'.ver >= dir.ver /\ plugs'.ver >= plugs.ver]_runtimeVars

(* While no reload has failed, the profiles in force are those of the       *)
(* plugins in force and of the file taken on, whoever of applyChange() and  *)
(* reload() moved either.                                                   *)
ProfilesAgree == failures = 0 => known = Merged(plugs, dir)

(* POST /api/reload is answered when everything the file said when it was   *)
(* asked is in force, plugins and directory alike, or with an error.        *)
AnsweredIsInForce ==
  [][chain # <<>> /\ chain' = Tail(chain) /\ failures' = failures =>
       /\ dir'.ver >= chain[1].since
       /\ plugs'.ver = dir'.ver]_runtimeVars

(* No reload keeps those behind it waiting for good, failed ones included.  *)
ReloadsEnd == []<>(chain = <<>>)

(* bin/hail.js: "`kill -HUP <pid>` reloads in place", so that a block made  *)
(* by a command comes into force.                                           *)
HangUpTakesEffect == \A v \in 1..MaxVersions : signalled = v ~> dir.ver >= v

(* server.js: "a tunnel whose endpoint was removed should not survive the   *)
(* removal".                                                                *)
StoppedHoldsNothing == (running \ {External}) \cap stopped = {}
=============================================================================
