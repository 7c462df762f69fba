------------------------------ MODULE PeerMerge ------------------------------
(***************************************************************************)
(* Several writers of one peer's record (directory.js, bin/hail.js).       *)
(*                                                                         *)
(* A CLI process reads directory.json when it starts, works on that copy   *)
(* for as long as it likes (a walk waits for the network) and in the end   *)
(* reconciles it with whatever the file holds by then, three ways: file,   *)
(* copy, and the baseline both came from.  The daemon applies a page's     *)
(* change to the file itself.  Both do so under the state lock (StateLock),*)
(* so a persist is one step.                                               *)
(*                                                                         *)
(* The merge goes name by name; this is the file as one name sees it.      *)
(* Generations of tombstones are RouteRetirement's subject, here a         *)
(* tombstone is a member of a set.  The elevation triple is one value,     *)
(* `profile`, and conflicts are kept without their counts and times: where *)
(* a list is cut to its newest entries, any may be the newest that is not  *)
(* dated now.                                                              *)
(***************************************************************************)
EXTENDS Naturals, FiniteSets

CONSTANTS
  Clis,        \* CLI processes that may run at the same time
  Ids,         \* identity keys
  Seals,       \* sealing keys
  Profiles,    \* profiles a peer may be given
  Name,        \* the peer's name, as an entry of the blocklist
  None,        \* no record, no key
  Fates,       \* what may become of the peer's presence
  MaxConflicts,  \* MAX_CONFLICTS
  MaxChanges   \* bound: commands, page changes and answers in a behaviour

ASSUME ConstantsAssumption ==
  /\ None \notin Ids \cup Seals
  /\ Name \notin Ids
  /\ Fates \subseteq {"admitted", "forgotten", "both"}
  /\ MaxConflicts \in Nat \ {0}
  /\ MaxChanges \in Nat

VARIABLES
  file,     \* directory.json
  base,     \* base[c]: what c read at startup
  mine,     \* mine[c]: c's copy, as its command has changed it
  phase,    \* phase[c]: off, ready, walking (the peer yet to answer or
            \* already heard), or done and about to persist
  live,     \* the record the daemon last adopted
  fate,     \* whether the peer may be admitted, forgotten, or both
  vouched,  \* history: <<i, s>> where s was verified or accepted for i
  overtaken,  \* history: CLI processes another of which has persisted
              \* since they started
  changes   \* changes made so far (bound)

history == <<vouched, overtaken>>
vars == <<file, base, mine, phase, live, fate, history, changes>>

Admissions == fate # "forgotten"
Forgets == fate # "admitted"

-----------------------------------------------------------------------------
(* Data. *)

Peer == [id : Ids \cup {None}, seal : Seals \cup {None}, seen : BOOLEAN,
         conf : Seals \cup {None}, req : BOOLEAN, binds : BOOLEAN,
         rivals : SUBSET Ids, profile : Profiles, rev : Nat]

ASSUME NoneAssumption == None \notin Peer

Directory == [peer : Peer \cup {None}, blocked : SUBSET (Ids \cup {Name}),
              retired : SUBSET Ids]

Phases == {"off", "ready", "walking", "answered", "done"}

TypeOK ==
  /\ file \in Directory
  /\ base \in [Clis -> Directory]
  /\ mine \in [Clis -> Directory]
  /\ phase \in [Clis -> Phases]
  /\ live \in Peer \cup {None}
  /\ fate \in Fates
  /\ vouched \subseteq Ids \X Seals
  /\ overtaken \subseteq Clis
  /\ changes \in 0 .. MaxChanges

(* admit() of a name nobody held: a sealing key in it is a mere claim.     *)
Newcomer(i, s, prof) ==
  [id |-> i, seal |-> s, seen |-> FALSE, conf |-> None, req |-> FALSE,
   binds |-> FALSE, rivals |-> {}, profile |-> prof, rev |-> 1]

Empty == [peer |-> None, blocked |-> {}, retired |-> {}]

(* sealState(name). *)
Posture(p) ==
  CASE p = None                                       -> "unverified"
    [] p # None /\ p.conf # None                      -> "conflict"
    [] p # None /\ p.conf = None /\ p.seen            -> "verified"
    [] p # None /\ p.conf = None /\ ~p.seen /\ p.req  -> "reverify"
    [] OTHER                                          -> "unverified"

-----------------------------------------------------------------------------
(* Operations on a directory; the daemon applies them to the file, a CLI   *)
(* process to its copy.                                                    *)

Keyed(p) == {p.id} \ {None}

(* commit(): every deliberate change bumps the record's revision.          *)
Commit(d, p) == [d EXCEPT !.peer = [p EXCEPT !.rev = @ + 1]]

(* admit(): a key that is held is never replaced, nor is a sealing key.    *)
Admit(d, i, s, prof) ==
  IF d.peer = None
  THEN [d EXCEPT !.peer = Newcomer(i, s, prof)]
  ELSE Commit(d, [d.peer EXCEPT !.id = IF @ = None THEN i ELSE @,
                                !.profile = prof])

Forget(d) ==
  [d EXCEPT !.peer = None, !.retired = @ \cup Keyed(d.peer)]

(* rotateKey(): what was verified of the old identity goes, `req` stays.   *)
Rotate(d, i) ==
  Commit([d EXCEPT !.retired = @ \cup Keyed(d.peer)],
         [d.peer EXCEPT !.id = i, !.seal = None, !.seen = FALSE,
                        !.conf = None, !.rivals = {}])

(* keepOurs(): a record made anew from what its peer says of itself has a  *)
(* key and a claimed sealing key; the rest is ours and carried over.       *)
KeepOurs(rebuilt, previous) ==
  [previous EXCEPT !.id = rebuilt.id, !.seal = rebuilt.seal]

Remade(d, i) == Commit(d, KeepOurs(Newcomer(i, d.peer.seal, None), d.peer))

BindKey(d, i) == IF d.peer.id = None THEN Remade(d, i) ELSE d

NoteBinding(d) ==
  IF d.peer.binds THEN d ELSE Commit(d, [d.peer EXCEPT !.binds = TRUE])

(* The newest of a list of competing keys, `fresh` dated now: what a cut   *)
(* may leave of it.                                                        *)
Newest(rivals, fresh) ==
  {kept \in SUBSET rivals :
     IF Cardinality(rivals) <= MaxConflicts
     THEN kept = rivals
     ELSE Cardinality(kept) = MaxConflicts /\ fresh \cap rivals \subseteq kept}

(* A directory whose record has had its list cut. *)
Capped(d, fresh) ==
  IF d.peer = None THEN {d}
  ELSE {[d EXCEPT !.peer = [d.peer EXCEPT !.rivals = kept]]
          : kept \in Newest(d.peer.rivals, fresh)}

(* Its list is cut to the newest where it is called, in Answer.            *)
NoteKeyConflict(d, i) ==
  Commit(d, [d.peer EXCEPT !.rivals = @ \cup {i}])

(* bindSealKey(): s was verified against i.  The first disagreeing key     *)
(* stays the pending one.                                                  *)
BindSeal(d, s, i) ==
  LET p == d.peer IN
  CASE p.id = i /\ ~p.seen ->
         Commit(d, [p EXCEPT !.seal = s, !.seen = TRUE, !.req = TRUE])
    [] p.id = i /\ p.seen /\ p.seal # s /\ p.conf = None ->
         Commit(d, [p EXCEPT !.conf = s])
    [] OTHER -> d

Chosen(p, s) == IF s # None THEN s ELSE IF p.conf # None THEN p.conf ELSE p.seal

AcceptSeal(d, s) ==
  LET k == Chosen(d.peer, s) IN
  IF k = None THEN d
  ELSE Commit(d, [d.peer EXCEPT !.seal = k, !.seen = TRUE, !.conf = None,
                                !.req = TRUE])

(* mergePeerRecord() of what another peer says: it may fill a blank key.   *)
Hear(d, i) == Remade(d, IF d.peer.id = None THEN i ELSE d.peer.id)

(* blockPeer(): by key where one is held, else by name.                    *)
Block(d) ==
  [d EXCEPT !.blocked = @ \cup
     (IF d.peer # None /\ d.peer.id # None THEN {d.peer.id} ELSE {Name})]

Unblock(d) ==
  [d EXCEPT !.blocked = @ \ ({Name} \cup
     (IF d.peer # None THEN Keyed(d.peer) ELSE {}))]

(* One peer of a walk has answered, holding i and naming s and v.          *)
Reachable(d) == Remade(d, d.peer.id)
Answered(d, i, s, v) ==
  LET reached == BindKey(Reachable(d), i)
      noted   == IF v THEN NoteBinding(reached) ELSE reached IN
  IF Keyed(d.peer) \subseteq {i}
  THEN IF s = None THEN noted ELSE BindSeal(noted, s, i)
  ELSE NoteKeyConflict(d, i)

(* What earlier commands may have left: nothing, a record with or without  *)
(* a key, one a walk has sealed to, and one with a dispute pending.        *)
Walked(p, s) == Answered([Empty EXCEPT !.peer = p], p.id, s, FALSE).peer

Init ==
  /\ fate \in Fates
  /\ \/ /\ fate # "forgotten"
        /\ file = Empty
        /\ vouched = {}
     \/ \E i \in Ids \cup {None}, prof \in Profiles :
          LET p == Newcomer(i, None, prof) IN
          \/ file = [Empty EXCEPT !.peer = p] /\ vouched = {}
          \/ /\ i # None
             /\ \E s, t \in Seals :
                  /\ file = [Empty EXCEPT !.peer = Walked(Walked(p, s), t)]
                  /\ vouched = {i} \X {s, t}
  /\ base = [c \in Clis |-> Empty]
  /\ mine = [c \in Clis |-> Empty]
  /\ phase = [c \in Clis |-> "off"]
  /\ live = file.peer
  /\ overtaken = {}
  /\ changes = 0

-----------------------------------------------------------------------------
(* The merge of one record: `disk` is the file's, `own` the writer's, `was`*)
(* the baseline's.                                                         *)

Rotated(p, was) == p.id # None /\ p.id # was.id

WithSeal(p, q) == [p EXCEPT !.seal = q.seal, !.seen = q.seen, !.conf = q.conf]
SameSeal(p, q) == WithSeal(p, q) = p

(* Plausible bug: the sealing floor follows the winner. *)
FlooredBinding(p, q) == [p EXCEPT !.binds = @ \/ q.binds]

Floored(p, q) ==
  [p EXCEPT !.req = @ \/ q.req, !.binds = @ \/ q.binds]

(* The sealing key of two records of one identity; disagreeing changes     *)
(* leave a dispute.                                                        *)
MergedSeal(disk, own, was) ==
  CASE SameSeal(disk, was) -> WithSeal(disk, own)
    [] /\ ~SameSeal(disk, was) /\ ~SameSeal(own, was)
       /\ None \notin {disk.seal, own.seal} /\ disk.seal # own.seal ->
         [disk EXCEPT !.seen = TRUE, !.conf = own.seal]
    [] OTHER -> disk

(* mergeSecurityUnit(): whose identity, with which sealing key.            *)
SecuredByRevision(disk, own, was) ==
  MergedSeal(IF own.rev > disk.rev THEN own ELSE disk, own, was)

Secured(disk, own, was) ==
  CASE was.id = None -> disk
    [] was.id # None /\ Rotated(own, was) /\ ~Rotated(disk, was) -> own
    [] was.id # None /\ Rotated(disk, was) /\ own.id # disk.id -> disk
    [] OTHER -> MergedSeal(disk, own, was)

BothRotated(disk, own, was) ==
  /\ was.id # None
  /\ Rotated(disk, was)
  /\ Rotated(own, was)
  /\ own.id # disk.id

Appended(disk, own, was) ==
  IF None \notin {disk, own, was} /\ BothRotated(disk, own, was) THEN {own.id} ELSE {}

(* What one side alone changed is that side's; else `both` decides.        *)
OneSided(disk, own, was, both) ==
  IF own = was THEN disk ELSE IF disk = was THEN own ELSE both

(* unionConflicts(), appendConflict(): cut where the merge is stored, in   *)
(* Persist; the second dates what it appends.                              *)
UnionRivals(a, b) == a \cup b
AppendRival(rivals, i) == rivals \cup {i}

(* mergeConflictsField(): a rotation's list stands.                        *)
MergedRivals(disk, own, was) ==
  CASE was.id # None /\ Rotated(own, was) /\ ~Rotated(disk, was) -> own.rivals
    [] BothRotated(disk, own, was) -> AppendRival(disk.rivals, own.id)
    [] was.id # None /\ Rotated(disk, was) /\ ~BothRotated(disk, own, was) ->
         disk.rivals
    [] OTHER -> OneSided(disk.rivals, own.rivals, was.rivals,
                         UnionRivals(disk.rivals, own.rivals))

(* mergeFields(): only one side changed it, that side; else the file.      *)
MergedProfile(disk, own, was) ==
  OneSided(disk.profile, own.profile, was.profile, disk.profile)

Higher(m, n) == IF m >= n THEN m ELSE n

MergedFields(disk, own, was) ==
  [Secured(disk, own, was) EXCEPT
     !.rivals  = MergedRivals(disk, own, was),
     !.profile = MergedProfile(disk, own, was),
     !.rev     = Higher(disk.rev, own.rev)]

(* mergeRecord(): a side has advanced if its revision is not the           *)
(* baseline's; without a baseline the higher revision wins.                *)
MergeByRev(disk, own, was) ==
  IF own.rev > disk.rev THEN Floored(own, disk) ELSE Floored(disk, own)

MergeRecord(disk, own, was) ==
  CASE was = None -> MergeByRev(disk, own, was)
    [] was # None /\ own.rev = was.rev -> Floored(disk, own)
    [] was # None /\ own.rev # was.rev /\ disk.rev = was.rev ->
         Floored(own, disk)
    [] OTHER -> Floored(Floored(MergedFields(disk, own, was), disk), own)

(* mergeByRevision(): what this writer forgot goes, what another forgot    *)
(* stays away, what this writer added comes.                               *)
MergedPeer(disk, own, was) ==
  CASE own = None /\ was = None -> disk
    [] own = None /\ was # None -> None
    [] own # None /\ disk = None -> IF was = None THEN own ELSE None
    [] OTHER -> MergeRecord(disk, own, was)

(* reconcilePersist(). *)
Reconcile(onDisk, baseline, current) ==
  [peer    |-> MergedPeer(onDisk.peer, current.peer, baseline.peer),
   blocked |-> IF current.blocked = baseline.blocked THEN onDisk.blocked
               ELSE current.blocked,
   retired |-> onDisk.retired \cup current.retired]

-----------------------------------------------------------------------------
(* A CLI process. *)

Change ==
  /\ changes < MaxChanges
  /\ changes' = changes + 1
  /\ UNCHANGED <<fate, overtaken>>

Vouch(i, s) ==
  vouched' = vouched \cup
    (IF s = None THEN {} ELSE (IF i = None THEN Ids ELSE {i}) \X {s})

Start(c) ==
  /\ phase[c] = "off"
  /\ base' = [base EXCEPT ![c] = file]
  /\ mine' = [mine EXCEPT ![c] = file]
  /\ phase' = [phase EXCEPT ![c] = "ready"]
  /\ UNCHANGED <<file, live, fate, history, changes>>

(* A command changes the process's copy and goes on to persist.            *)
Command(c, d) ==
  /\ phase[c] = "ready"
  /\ Change
  /\ mine' = [mine EXCEPT ![c] = d]
  /\ phase' = [phase EXCEPT ![c] = "done"]
  /\ UNCHANGED <<file, base, live>>

CliAdd(c) ==
  /\ Admissions \/ mine[c].peer # None
  /\ \E i \in Ids \cup {None}, prof \in Profiles :
       Command(c, Admit(mine[c], i, None, prof))
  /\ UNCHANGED vouched

CliForget(c) ==
  /\ Forgets
  /\ mine[c].peer # None
  /\ Command(c, Forget(mine[c]))
  /\ UNCHANGED vouched

CliRotate(c) ==
  /\ mine[c].peer # None
  /\ \E i \in Ids : Command(c, Rotate(mine[c], i))
  /\ UNCHANGED vouched

Acceptable(p, s) ==
  \/ Posture(p) = "conflict"
  \/ Posture(p) = "reverify" /\ s # None

CliAccept(c) ==
  /\ mine[c].peer # None
  /\ \E s \in Seals \cup {None} :
       /\ Acceptable(mine[c].peer, s)
       /\ Command(c, AcceptSeal(mine[c], s))
       /\ Vouch(mine[c].peer.id, Chosen(mine[c].peer, s))

CliBlock(c) ==
  /\ Command(c, Block(mine[c])) \/ Command(c, Unblock(mine[c]))
  /\ UNCHANGED vouched

(* hail walk: the peer answers, once, or another peer mentions it.         *)
Walking(c, before, after, d) ==
  /\ phase[c] \in before
  /\ mine[c].peer # None
  /\ Change
  /\ mine' = [mine EXCEPT ![c] = d]
  /\ phase' = [phase EXCEPT ![c] = after]
  /\ UNCHANGED <<file, base, live>>

Answer(c) ==
  /\ mine[c].peer # None
  /\ \E i \in Ids, s \in Seals \cup {None}, v \in BOOLEAN :
       /\ \E d \in Capped(Answered(mine[c], i, s, v), {i}) :
            Walking(c, {"ready", "walking"}, "answered", d)
       /\ IF Keyed(mine[c].peer) \subseteq {i} THEN Vouch(i, s)
                                               ELSE UNCHANGED vouched

Mention(c) ==
  /\ \E i \in Ids \cup {None} :
       \/ Walking(c, {"ready", "walking"}, "walking", Hear(mine[c], i))
       \/ Walking(c, {"answered"}, "answered", Hear(mine[c], i))
  /\ UNCHANGED vouched

Leave(c) ==
  /\ base' = [base EXCEPT ![c] = Empty]
  /\ mine' = [mine EXCEPT ![c] = Empty]
  /\ phase' = [phase EXCEPT ![c] = "off"]
  /\ UNCHANGED <<live, fate, vouched, changes>>

(* persist(). *)
Persist(c) ==
  /\ phase[c] \in {"walking", "answered", "done"}
  /\ file' \in Capped(Reconcile(file, base[c], mine[c]),
                      Appended(file.peer, mine[c].peer, base[c].peer))
  /\ overtaken' = (overtaken \cup {d \in Clis : phase[d] # "off"}) \ {c}
  /\ Leave(c)

(* A command that refuses, or a process that is killed.                    *)
Quit(c) ==
  /\ phase[c] # "off"
  /\ overtaken' = overtaken \ {c}
  /\ Leave(c)
  /\ UNCHANGED file

-----------------------------------------------------------------------------
(* The daemon: applyChange() applies a change to the file and adopts it.   *)
(* Its guards look at what it adopted last.                                *)

Apply(d) ==
  /\ Change
  /\ file' = d
  /\ live' = d.peer
  /\ UNCHANGED <<base, mine, phase>>

PageAdmit ==
  /\ Admissions \/ file.peer # None
  /\ \E i \in Ids \cup {None}, s \in Seals \cup {None}, prof \in Profiles :
       Apply(Admit(file, i, s, prof))
  /\ UNCHANGED vouched

PageForget ==
  /\ Forgets
  /\ file.peer # None
  /\ Apply(Forget(file))
  /\ UNCHANGED vouched

PageAccept ==
  /\ file.peer # None
  /\ \E s \in Seals \cup {None} :
       /\ Acceptable(live, s)
       /\ Apply(AcceptSeal(file, s))
       /\ Vouch(file.peer.id, Chosen(file.peer, s))

PageBlock ==
  /\ Apply(Block(file)) \/ Apply(Unblock(file))
  /\ UNCHANGED vouched

(* A caller's first verified hail binds its key; a target it named is noted*)
CallerProvesKey ==
  /\ live # None /\ file.peer # None
  /\ live.id = None
  /\ \E i \in Ids : Apply(BindKey(file, i))
  /\ UNCHANGED vouched

CallerBinds ==
  /\ live # None /\ file.peer # None
  /\ ~live.binds
  /\ Apply(NoteBinding(file))
  /\ UNCHANGED vouched

(* A reload adopts the file. *)
Reload ==
  /\ live' = file.peer
  /\ UNCHANGED <<file, base, mine, phase, fate, history, changes>>

Next ==
  \/ \E c \in Clis :
       \/ Start(c) \/ Persist(c) \/ Quit(c)
       \/ CliAdd(c) \/ CliForget(c) \/ CliRotate(c) \/ CliAccept(c) \/ CliBlock(c)
       \/ Answer(c) \/ Mention(c)
  \/ PageAdmit \/ PageForget \/ PageAccept \/ PageBlock
  \/ CallerProvesKey \/ CallerBinds
  \/ Reload

Spec == Init /\ [][Next]_vars

-----------------------------------------------------------------------------
(* Properties. *)

(* A sealing key a message may be sealed to was verified against the       *)
(* identity the record now holds, or accepted for it: no merge pairs one   *)
(* writer's identity with another's sealing key (directory.js 586-649,     *)
(* 1233-1263, 1312-1325).                                                  *)
Coherent(p) ==
  Posture(p) = "verified" =>
    /\ p.seal # None
    /\ \A i \in Ids : p.id \in {i, None} => <<i, p.seal>> \in vouched

SealBelongsToIdentity ==
  /\ Coherent(file.peer)
  /\ \A c \in Clis : Coherent(mine[c].peer)

(* A persist replaces a value only as a swap: the file still held what the *)
(* writer had read, and the writer itself put the new value there.         *)
Swaps(disk, new, was, own) == new = disk \/ (was = disk /\ new = own)

Both(c) == Persist(c) /\ file.peer # None /\ file'.peer # None

IdentitySwapped(c) ==
  Swaps(file.peer.id, file'.peer.id, base[c].peer.id, mine[c].peer.id)

(* The identity key is swapped, never undone by a slow writer: "a          *)
(* concurrent identity rotation on disk that this writer never saw must    *)
(* not be undone by its stale snapshot's inflated revision" (292-294).  It *)
(* can be, by way of a third writer: see Sound.                            *)
NoRotationUndone ==
  [][\A c \in Clis : Both(c) /\ base[c].peer # None => IdentitySwapped(c)]_vars

(* What the merge does achieve it achieves for a writer with an ancestor   *)
(* that no other process has merged since it started: a merge leaves the   *)
(* higher of two revisions, which can be the one a third writer read.      *)
Sound(c) == Both(c) /\ base[c].peer # None /\ c \notin overtaken

(* While the identity stays, the sealing key and a dispute over it are     *)
(* swapped too, or two disagreeing changes become a dispute: "neither a    *)
(* stale writer nor a concurrent higher-rev edit can restore a retired key"*)
(* (634-637), nor settle or revive a dispute (1251-1254).                  *)
SealSwapped(c) ==
  file'.peer.id = file.peer.id =>
    /\ Swaps(file.peer.seal, file'.peer.seal, base[c].peer.seal, mine[c].peer.seal)
    /\ \/ Swaps(file.peer.conf, file'.peer.conf, base[c].peer.conf, mine[c].peer.conf)
       \/ /\ file'.peer.conf = mine[c].peer.seal
          /\ file'.peer.seal # mine[c].peer.seal

(* Another writer's profile, and the competing keys it saw, are not lost to*)
(* a writer that did not touch them, or to one that merely pushes older    *)
(* keys off a full list (414-418, 520-563, 678-710).                       *)
EditsSwapped(c) ==
  /\ Swaps(file.peer.profile, file'.peer.profile,
           base[c].peer.profile, mine[c].peer.profile)
  /\ file'.peer.id = file.peer.id =>
       \/ file.peer.rivals \ file'.peer.rivals
            \subseteq base[c].peer.rivals \ mine[c].peer.rivals
       \/ Cardinality(file'.peer.rivals) = MaxConflicts

(* A persist brings in only what its writer added and takes away only what *)
(* its writer forgot (424-430).                                            *)
PresenceSwapped(c) ==
  Persist(c) /\ (file.peer = None) # (file'.peer = None) =>
    IF file.peer = None
    THEN base[c].peer = None /\ mine[c].peer # None
    ELSE base[c].peer # None /\ mine[c].peer = None

(* A slow writer's persist is a swap of every part it changed, and leaves  *)
(* the parts it did not change to who did: the peer's presence, identity,  *)
(* sealing key and dispute, profile and rivals.                            *)
ChangesAreSwapped ==
  [][\A c \in Clis :
       /\ PresenceSwapped(c)
       /\ Sound(c) => IdentitySwapped(c) /\ SealSwapped(c) /\ EditsSwapped(c)]_vars

(* While a peer stays admitted it never drops a safety floor: to have been *)
(* sealed to, to have bound its target (418, 1053-1056, 1355-1360).        *)
FloorsStay ==
  [][file.peer # None /\ file'.peer # None =>
       /\ file.peer.req => file'.peer.req
       /\ file.peer.binds => file'.peer.binds]_vars

=============================================================================
