--------------------------- MODULE RouteRetirement ---------------------------
(***************************************************************************)
(* Retirement of Tier-1 (discovered, operator-approved) sealing keys.      *)
(*                                                                         *)
(* Two files and three kinds of process meet here.  directory.json is      *)
(* written by every CLI command and by the daemon's page/API handlers,     *)
(* always as a read-modify-write under the state lock (StateLock models    *)
(* the lock).  route-keys.json is owned by the daemon.  Forgetting or      *)
(* rotating a peer leaves a tombstone in directory.json; the daemon's      *)
(* startup applies the tombstones to its key store, makes the result       *)
(* durable and only then consumes them.                                    *)
(*                                                                         *)
(* No peer of this model has been walked, so every admitted record has the *)
(* Tier-0 posture "unverified" and the posture sweep at the end of startup *)
(* drops nothing.                                                          *)
(***************************************************************************)
EXTENDS Naturals, FiniteSets

CONSTANTS
  Peers,          \* names in the directory
  Keys,           \* identities (keyId of a public key)
  Conflicts,      \* whether a destination ever shows a second sealing key
  Clis,           \* CLI processes that may run at the same time
  None,           \* no record, no entry, no view
  MaxEntries,     \* ceiling of the routed key store
  MaxRetirements, \* bound: retirements committed in a behaviour
  MaxFaults,      \* bound: failed sidecar writes in a behaviour
  PowerLosses,    \* whether the machine may lose power
  OrderedFS       \* whether writes reach the platter in the order made

ASSUME ConstantsAssumption ==
  /\ IsFiniteSet(Keys)
  /\ None \notin Keys \cup Peers \cup Clis
  /\ MaxEntries \in Nat \ {0}
  /\ {MaxRetirements, MaxFaults} \subseteq Nat
  /\ {Conflicts, PowerLosses, OrderedFS} \subseteq BOOLEAN

VARIABLES
  disk,         \* directory.json as a process reads it now
  dirPlatter,   \* directory.json as a power loss would leave it
  keys,         \* route-keys.json as a process reads it now
  keysPlatter,  \* route-keys.json as a power loss would leave it
  cli,          \* cli[c]: the view c loaded at startup (its baseline), or None
  phase,        \* where the daemon is: down, in startup, or serving
  dir,          \* the daemon's live directory
  store,        \* the daemon's live routed key store
  degraded,     \* a restricting sidecar write has not landed; retry armed
  faults,       \* failed sidecar writes so far (bound)
  serial        \* history: retirements committed to directory.json so far

fileVars   == <<disk, dirPlatter, keys, keysPlatter>>
daemonVars == <<phase, dir, store, degraded>>
vars == <<disk, dirPlatter, keys, keysPlatter, cli, phase, dir, store,
          degraded, faults, serial>>

-----------------------------------------------------------------------------
(* Data. *)

Record == [id : Keys, rev : Nat]

(* A directory view.  tomb[k] is the finalized generation of k's tombstone *)
(* (0: none); prov holds the keys whose tombstone is provisional, that is  *)
(* `gen: null`.  log is history: the serial of the last committed          *)
(* retirement of each key this view knows of.                              *)
View == [routeGen : Nat, applied : Nat, tomb : [Keys -> Nat],
         prov : SUBSET Keys, admitted : [Peers -> Record \cup {None}],
         log : [Keys -> Nat]]

(* A routed key store entry.  gen is the generation its claim was stamped  *)
(* with; saw is history: the last retirement of that key the daemon had    *)
(* adopted when the claim was made.  Its sealing key is left out: a record *)
(* that comes in repeats it or conflicts with it.                          *)
Entry == [st : {"pending", "approved", "conflict"}, gen : Nat, saw : Nat]

Store == [Keys -> Entry \cup {None}]
EmptyStore == [k \in Keys |-> None]
EmptyView(recs) ==
  [routeGen |-> 0, applied |-> 0, tomb |-> [k \in Keys |-> 0], prov |-> {},
   admitted |-> recs, log |-> [k \in Keys |-> 0]]
NoView == EmptyView([p \in Peers |-> None])

MaxOf(S) == CHOOSE n \in S : \A m \in S : m <= n
Gens(tomb) == {tomb[k] : k \in Keys}

(* Drop consumed tombstones.  A provisional one has no number: it stays.   *)
PruneTombstones(tomb, applied) ==
  [k \in Keys |-> IF tomb[k] <= applied THEN 0 ELSE tomb[k]]

(* createDirectory: the counter is loaded as the maximum of all evidence.  *)
Load(d) ==
  [d EXCEPT !.routeGen = MaxOf({d.routeGen, d.applied} \cup Gens(d.tomb)),
            !.tomb = PruneTombstones(d.tomb, d.applied)]

(* tombstone(): mint, or reset to, a provisional tombstone.                *)
Tombstone(d, k) ==
  [d EXCEPT !.tomb = [@ EXCEPT ![k] = 0], !.prov = @ \cup {k}]

Holds(d, p) == d.admitted[p] # None

Forget(d, p) ==
  [Tombstone(d, d.admitted[p].id) EXCEPT
     !.admitted = [@ EXCEPT ![p] = None]]

RotateKey(d, p, k) ==
  [Tombstone(d, d.admitted[p].id) EXCEPT
     !.admitted = [@ EXCEPT ![p] = [id |-> k, rev |-> d.admitted[p].rev + 1]]]

Admit(d, p, k) ==
  [d EXCEPT !.admitted = [@ EXCEPT ![p] = [id |-> k, rev |-> 1]]]

-----------------------------------------------------------------------------
(* Writing directory.json. *)

(* The orders in which the provisionals of one write may be numbered.      *)
Orders(S) ==
  {o \in [S -> 1..Cardinality(S)] : \A a, b \in S : o[a] = o[b] => a = b}

(* Mutant: numbering starts at the base instead of above it.               *)
FinalizeFromBase(d, order, stamp) ==
  LET base == MaxOf({d.routeGen, d.applied} \cup Gens(d.tomb)) IN
  IF d.prov = {} THEN d ELSE
  [d EXCEPT
     !.tomb = [k \in Keys |-> IF k \in d.prov THEN base + order[k] - 1 ELSE @[k]],
     !.prov = {},
     !.routeGen = base + Cardinality(d.prov) - 1,
     !.log = [k \in Keys |-> IF k \in d.prov THEN stamp ELSE @[k]]]

(* finalizeRouteGens: number each provisional above everything d records.  *)
(* stamp is the serial of this commit (history only).                      *)
FinalizeRouteGens(d, order, stamp) ==
  LET base == MaxOf({d.routeGen, d.applied} \cup Gens(d.tomb)) IN
  IF d.prov = {} THEN d ELSE
  [d EXCEPT
     !.tomb = [k \in Keys |-> IF k \in d.prov THEN base + order[k] ELSE @[k]],
     !.prov = {},
     !.routeGen = base + Cardinality(d.prov),
     !.log = [k \in Keys |-> IF k \in d.prov THEN stamp ELSE @[k]]]

(* Mutant: the writer's own list stands, as its other keys do.             *)
MergeTombstonesMine(a, b) ==
  [k \in Keys |-> IF k \in a.prov \cup b.prov THEN 0 ELSE b.tomb[k]]

(* mergeTombstones: a provisional supersedes, otherwise the highest        *)
(* generation of each key wins.                                            *)
MergeTombstones(a, b) ==
  [k \in Keys |-> IF k \in a.prov \cup b.prov THEN 0
                  ELSE MaxOf({a.tomb[k], b.tomb[k]})]

(* mergeRecord, for the identity a record binds: classified by rev against *)
(* the writer's baseline; when both sides moved, the side that alone       *)
(* rotated carries the identity, otherwise the committed side does.        *)
MergeRecord(onDisk, mine, base) ==
  LET diskMoved == onDisk.rev # base.rev
      mineMoved == mine.rev # base.rev IN
  CASE base = None        -> IF mine.rev > onDisk.rev THEN mine ELSE onDisk
    [] base # None /\ diskMoved /\ mineMoved ->
         [id  |-> IF mine.id # base.id /\ onDisk.id = base.id
                    THEN mine.id ELSE onDisk.id,
          rev |-> MaxOf({onDisk.rev, mine.rev})]
    [] base # None /\ ~diskMoved /\ mineMoved -> mine
    [] OTHER -> onDisk

MergeByRevision(onDisk, mine, base) ==
  [p \in Peers |->
     CASE mine[p] = None /\ base[p] # None -> None
       [] mine[p] = None /\ base[p] = None -> onDisk[p]
       [] mine[p] # None /\ onDisk[p] = None ->
            IF base[p] = None THEN mine[p] ELSE None
       [] OTHER -> MergeRecord(onDisk[p], mine[p], base[p])]

(* Mutant: the counter is taken from this writer, as its other keys are.   *)
ReconcileCounterMine(onDisk, base, mine) ==
  LET applied == MaxOf({onDisk.applied, base.applied, mine.applied}) IN
  [routeGen |-> mine.routeGen,
   applied  |-> applied,
   tomb     |-> PruneTombstones(MergeTombstones(onDisk, mine), applied),
   prov     |-> onDisk.prov \cup mine.prov,
   admitted |-> MergeByRevision(onDisk.admitted, mine.admitted, base.admitted),
   log      |-> onDisk.log]

(* reconcilePersist, before the provisionals are numbered.                 *)
ReconcilePersist(onDisk, base, mine) ==
  LET applied == MaxOf({onDisk.applied, base.applied, mine.applied}) IN
  [routeGen |-> MaxOf({onDisk.routeGen, base.routeGen, mine.routeGen}),
   applied  |-> applied,
   tomb     |-> PruneTombstones(MergeTombstones(onDisk, mine), applied),
   prov     |-> onDisk.prov \cup mine.prov,
   admitted |-> MergeByRevision(onDisk.admitted, mine.admitted, base.admitted),
   log      |-> onDisk.log]

(* Write d under the state lock, numbering what it retires.                *)
WriteDirectory(d) ==
  /\ d.prov # {} => serial < MaxRetirements
  /\ \E order \in Orders(d.prov) :
       disk' = FinalizeRouteGens(d, order, serial + 1)
  /\ serial' = IF d.prov = {} THEN serial ELSE serial + 1

-----------------------------------------------------------------------------
(* CLI processes: load at startup, apply one command, persist, exit.       *)

CliLoad(c) ==
  /\ cli[c] = None
  /\ cli' = [cli EXCEPT ![c] = Load(disk)]
  /\ UNCHANGED <<fileVars, daemonVars, faults, serial>>

CliPersist(c, mine) ==
  /\ WriteDirectory(ReconcilePersist(disk, cli[c], mine))
  /\ cli' = [cli EXCEPT ![c] = None]
  /\ UNCHANGED <<dirPlatter, keys, keysPlatter, daemonVars, faults>>

CliForget(c, p) ==
  /\ cli[c] # None
  /\ Holds(cli[c], p)
  /\ CliPersist(c, Forget(cli[c], p))

CliRotate(c, p, k) ==
  /\ cli[c] # None
  /\ Holds(cli[c], p)
  /\ CliPersist(c, RotateKey(cli[c], p, k))

CliAdd(c, p, k) ==
  /\ cli[c] # None
  /\ ~Holds(cli[c], p)
  /\ CliPersist(c, Admit(cli[c], p, k))

(* A command that fails, is interrupted, or only reads.                    *)
CliExit(c) ==
  /\ cli[c] # None
  /\ cli' = [cli EXCEPT ![c] = None]
  /\ UNCHANGED <<fileVars, daemonVars, faults, serial>>

-----------------------------------------------------------------------------
(* The sidecar.  A restricting write is durable, and its failure arms a    *)
(* retry that only a durable success disarms; any other write is best      *)
(* effort.                                                                 *)

(* Mutant: any write that lands clears the degraded flag.                  *)
WriteSidecarAnyHeals(entries, restricting, ok) ==
  /\ ok \/ faults < MaxFaults
  /\ faults' = IF ok THEN faults ELSE faults + 1
  /\ keys' = IF ok THEN entries ELSE keys
  /\ keysPlatter' = IF ok /\ restricting THEN entries ELSE keysPlatter
  /\ dirPlatter' = IF ok /\ restricting /\ OrderedFS THEN disk' ELSE dirPlatter
  /\ degraded' = IF ok THEN FALSE ELSE restricting \/ degraded

WriteSidecar(entries, restricting, ok) ==
  /\ ok \/ faults < MaxFaults
  /\ faults' = IF ok THEN faults ELSE faults + 1
  /\ keys' = IF ok THEN entries ELSE keys
  /\ keysPlatter' = IF ok /\ restricting THEN entries ELSE keysPlatter
  /\ dirPlatter' = IF ok /\ restricting /\ OrderedFS THEN disk' ELSE dirPlatter
  /\ degraded' = IF restricting THEN ~ok ELSE degraded

NoSidecarWrite == UNCHANGED <<faults, keys, keysPlatter, dirPlatter, degraded>>

-----------------------------------------------------------------------------
(* Daemon startup. *)

(* Mutant: a tie forgets.                                                  *)
OutrankedOnTie(e, k, d) ==
  /\ e # None
  /\ \/ k \in d.prov
     \/ d.tomb[k] # 0 /\ e.gen <= d.tomb[k]

Outranked(e, k, d) ==
  /\ e # None
  /\ \/ k \in d.prov
     \/ e.gen < d.tomb[k]

Retired(s, d) == {k \in Keys : Outranked(s[k], k, d)}
Without(s, gone) == [k \in Keys |-> IF k \in gone THEN None ELSE s[k]]
Pending(d) == d.prov \cup {k \in Keys : d.tomb[k] # 0}

(* createDirectory over directory.json, the store over route-keys.json.    *)
BootLoad ==
  /\ phase = "down"
  /\ phase' = "loaded"
  /\ dir' = Load(disk)
  /\ store' = keys
  /\ degraded' = FALSE
  /\ UNCHANGED <<fileVars, cli, faults, serial>>

(* applyTombstones, with its one best-effort persist if anything dropped.  *)
BootApply ==
  LET gone == Retired(store, dir) IN
  /\ phase = "loaded"
  /\ UNCHANGED <<disk, cli, dir, serial>>
  /\ store' = Without(store, gone)
  /\ phase' = IF gone # {} THEN "dropped" ELSE "kept"
  /\ IF gone # {} THEN \E ok \in BOOLEAN : WriteSidecar(store', FALSE, ok)
                  ELSE NoSidecarWrite

(* Mutant: what the best-effort write was to remove is taken for removed.  *)
MustPersistMatching == \E k \in Pending(dir) : store[k] # None

(* The durable sidecar write that must precede consumption, skipped when   *)
(* nothing was dropped and no pending tombstone matches an entry.          *)
MustPersist ==
  \/ phase = "dropped"
  \/ \E k \in Pending(dir) : store[k] # None

BootPersist ==
  /\ phase \in {"dropped", "kept"}
  /\ UNCHANGED <<disk, cli, dir, store, serial>>
  /\ IF MustPersist
       THEN \E ok \in BOOLEAN :
              /\ WriteSidecar(store, TRUE, ok)
              /\ phase' = IF ok THEN "durable" ELSE "serving"
       ELSE NoSidecarWrite /\ phase' = "durable"

(* Consume what this boot processed, in the file and in the live view.     *)
ConsumeOn(d, processed, through) ==
  [d EXCEPT
     !.applied = MaxOf({@, through}),
     !.tomb = [k \in Keys |->
                 IF k \in processed /\ @[k] <= through THEN 0 ELSE @[k]],
     !.prov = @ \ processed]

MarkTombstonesApplied(d, through) ==
  LET applied == MaxOf({d.applied, through}) IN
  [d EXCEPT !.applied = applied, !.tomb = PruneTombstones(@, applied)]

BootConsume ==
  /\ phase = "durable"
  /\ phase' = "serving"
  /\ IF Pending(dir) # {}
       THEN /\ disk' = ConsumeOn(disk, Pending(dir), dir.routeGen)
            /\ dir' = MarkTombstonesApplied(dir, dir.routeGen)
       ELSE UNCHANGED <<disk, dir>>
  /\ UNCHANGED <<dirPlatter, keys, keysPlatter, cli, store, degraded, faults,
                 serial>>

(* The consuming update of directory.json throws: tombstones stay.         *)
BootConsumeFails ==
  /\ phase = "durable"
  /\ Pending(dir) # {}
  /\ faults < MaxFaults
  /\ faults' = faults + 1
  /\ phase' = "serving"
  /\ UNCHANGED <<fileVars, cli, dir, store, degraded, serial>>

-----------------------------------------------------------------------------
(* The serving daemon: discovery and approval. *)

(* Mutant: a claim stamped with the next generation.                       *)
ClaimAhead(st, k) ==
  [st |-> st, gen |-> dir.routeGen + 1, saw |-> dir.log[k]]

Claim(st, k) ==
  [st |-> st, gen |-> dir.routeGen, saw |-> dir.log[k]]

SetEntry(k, e, restricting) ==
  /\ phase = "serving"
  /\ UNCHANGED <<disk, cli, phase, dir, serial>>
  /\ store' = [store EXCEPT ![k] = e]
  /\ \E ok \in BOOLEAN : WriteSidecar(store', restricting, ok)

Tracked == {k \in Keys : store[k] # None}

(* observe(), a destination not tracked yet and room for it.               *)
ObserveNew(k) ==
  /\ store[k] = None
  /\ Cardinality(Tracked) < MaxEntries
  /\ SetEntry(k, Claim("pending", k), FALSE)

(* observe(), at capacity: a pending entry makes room.  Which one is the   *)
(* oldest is left open.                                                    *)
ObserveEvicting(k, victim) ==
  /\ phase = "serving"
  /\ store[k] = None
  /\ Cardinality(Tracked) >= MaxEntries
  /\ store[victim] # None
  /\ store[victim].st = "pending"
  /\ UNCHANGED <<disk, cli, phase, dir, serial>>
  /\ store' = [store EXCEPT ![victim] = None, ![k] = Claim("pending", k)]
  /\ \E ok \in BOOLEAN : WriteSidecar(store', FALSE, ok)

(* Mutant: the void is persisted like an addition.                         *)
ObserveConflictBestEffort(k) ==
  /\ Conflicts
  /\ store[k] # None
  /\ store[k].st # "conflict"
  /\ SetEntry(k, Claim("conflict", k), FALSE)

(* observe(), a different sealing key: the approval is void.               *)
ObserveConflict(k) ==
  /\ Conflicts
  /\ store[k] # None
  /\ store[k].st # "conflict"
  /\ SetEntry(k, Claim("conflict", k), TRUE)

Approve(k) ==
  /\ store[k] # None
  /\ store[k].st = "pending"
  /\ SetEntry(k, Claim("approved", k), FALSE)

(* forget() on the store: the operator discards the entry.                 *)
Discard(k) ==
  /\ store[k] # None
  /\ SetEntry(k, None, TRUE)

(* Mutant: the retry writes without asking for durability.                 *)
RetryPersistBestEffort ==
  /\ phase = "serving"
  /\ degraded
  /\ UNCHANGED <<disk, cli, phase, dir, store, serial>>
  /\ \E ok \in BOOLEAN : WriteSidecar(store, FALSE, ok)

RetryPersist ==
  /\ phase = "serving"
  /\ degraded
  /\ UNCHANGED <<disk, cli, phase, dir, store, serial>>
  /\ \E ok \in BOOLEAN : WriteSidecar(store, TRUE, ok)

-----------------------------------------------------------------------------
(* The serving daemon: directory changes. *)

Identities(d) == {d.admitted[p].id : p \in {q \in Peers : Holds(d, q)}}

Adopted(d, next) ==
  LET applied == MaxOf({d.applied, next.applied}) IN
  [routeGen |-> MaxOf({d.routeGen, next.routeGen} \cup Gens(next.tomb)),
   applied  |-> applied,
   tomb     |-> PruneTombstones(next.tomb, applied),
   prov     |-> next.prov,
   admitted |-> next.admitted,
   log      |-> next.log]

(* adopt(): swap the live view in; the seal-posture listener forgets the   *)
(* entries of identities that disappeared, each with a restricting persist.*)
Adopt(next) ==
  LET gone == {k \in Identities(dir) \ Identities(next) : store[k] # None} IN
  /\ dir' = Adopted(dir, next)
  /\ store' = Without(store, gone)
  /\ IF gone # {} THEN \E ok \in BOOLEAN : WriteSidecar(store', TRUE, ok)
                  ELSE NoSidecarWrite
  /\ UNCHANGED <<cli, phase>>

(* applyChange: mutate a fresh directory over the file as it is now, write *)
(* the result and adopt it.                                                *)
ApplyChange(mutated) ==
  /\ phase = "serving"
  /\ WriteDirectory(mutated)
  /\ Adopt(disk')

DaemonForget(p) == Holds(disk, p) /\ ApplyChange(Forget(Load(disk), p))
DaemonAdd(p, k) == ~Holds(disk, p) /\ ApplyChange(Admit(Load(disk), p, k))
(* Any handler whose change touches nothing modelled here still writes and *)
(* adopts.                                                                 *)
DaemonTouch == ApplyChange(Load(disk))

(* SIGHUP or the reload handler.                                           *)
Reload ==
  /\ phase = "serving"
  /\ UNCHANGED <<disk, serial>>
  /\ Adopt(disk)

-----------------------------------------------------------------------------
(* Crashes. *)

DaemonDown ==
  /\ phase' = "down"
  /\ dir' = NoView
  /\ store' = EmptyStore
  /\ degraded' = FALSE

DaemonStops ==
  /\ phase # "down"
  /\ DaemonDown
  /\ UNCHANGED <<fileVars, cli, faults, serial>>

(* The kernel writes back.  An ordered file system commits a prefix of the *)
(* writes made; otherwise each file reaches the platter on its own.        *)
Writeback ==
  /\ PowerLosses
  /\ \/ dirPlatter' = disk /\ keysPlatter' = keys
     \/ ~OrderedFS /\ dirPlatter' = disk /\ UNCHANGED keysPlatter
     \/ ~OrderedFS /\ keysPlatter' = keys /\ UNCHANGED dirPlatter
  /\ UNCHANGED <<disk, keys, cli, daemonVars, faults, serial>>

PowerLoss ==
  /\ PowerLosses
  /\ disk' = dirPlatter
  /\ keys' = keysPlatter
  /\ cli' = [c \in Clis |-> None]
  /\ DaemonDown
  /\ UNCHANGED <<dirPlatter, keysPlatter, faults, serial>>

-----------------------------------------------------------------------------
(* A directory with any initial set of peers, nothing discovered yet.      *)
Init ==
  /\ disk \in {EmptyView(recs) :
                 recs \in [Peers -> [id : Keys, rev : {1}] \cup {None}]}
  /\ dirPlatter = disk
  /\ keys = EmptyStore
  /\ keysPlatter = EmptyStore
  /\ cli = [c \in Clis |-> None]
  /\ phase = "down"
  /\ dir = NoView
  /\ store = EmptyStore
  /\ degraded = FALSE
  /\ faults = 0
  /\ serial = 0

Cli ==
  \E c \in Clis :
    \/ CliLoad(c)
    \/ CliExit(c)
    \/ \E p \in Peers : CliForget(c, p)
    \/ \E p \in Peers, k \in Keys : CliRotate(c, p, k) \/ CliAdd(c, p, k)

Boot == BootLoad \/ BootApply \/ BootPersist \/ BootConsume

Discovery ==
  \/ \E k \in Keys : ObserveNew(k) \/ ObserveConflict(k)
  \/ \E k, victim \in Keys : ObserveEvicting(k, victim)
  \/ \E k \in Keys : Approve(k) \/ Discard(k)

DirectoryChange ==
  \/ \E p \in Peers : DaemonForget(p) \/ (\E k \in Keys : DaemonAdd(p, k))
  \/ DaemonTouch
  \/ Reload

Next ==
  \/ Cli
  \/ Boot
  \/ BootConsumeFails
  \/ Discovery
  \/ RetryPersist
  \/ DirectoryChange
  \/ DaemonStops
  \/ Writeback
  \/ PowerLoss

Spec == Init /\ [][Next]_vars

(* The retry timer fires as long as the daemon runs.                       *)
FairSpec == Spec /\ WF_vars(RetryPersist)

-----------------------------------------------------------------------------
(* Properties. *)

TypeOK ==
  /\ disk \in View
  /\ dirPlatter \in View
  /\ dir \in View
  /\ keys \in Store
  /\ keysPlatter \in Store
  /\ store \in Store
  /\ cli \in [Clis -> View \cup {None}]
  /\ phase \in {"down", "loaded", "dropped", "kept", "durable", "serving"}
  /\ degraded \in BOOLEAN
  /\ faults \in Nat
  /\ serial \in Nat

(* The causal rule behind every comparison of generations: an entry whose  *)
(* claim was made without knowing the last retirement of its key.          *)
Unseen(e, k, d) == e # None /\ e.saw < d.log[k]

(* A directory file whose generations order retirements.                   *)
Sound(d) ==
  /\ d.prov = {}
  /\ d.applied <= d.routeGen
  /\ \A k \in Keys : d.tomb[k] # 0 =>
       d.applied < d.tomb[k] /\ d.tomb[k] <= d.routeGen
  /\ \A j, k \in Keys : d.tomb[j] = d.tomb[k] => d.tomb[j] = 0 \/ j = k

(* Whatever is in directory.json is finalized, numbered once, above what   *)
(* has been consumed and within the counter: finalizeRouteGens, reached    *)
(* from both write paths and interleaved with the daemon's consumption.    *)
GenerationsSound == Sound(disk)

(* A view loaded earlier, against the file as it is now: every tombstone   *)
(* it holds is still on file at that number or a higher one, or consumed.  *)
Behind(v, d) ==
  /\ v.prov = {}
  /\ v.routeGen <= d.routeGen
  /\ v.applied <= d.applied
  /\ \A k \in Keys : v.tomb[k] <= d.tomb[k] \/ v.tomb[k] <= d.applied

(* During startup the file has moved away from the loaded view only by     *)
(* retirements numbered above everything the startup will consume.         *)
BootingBehind ==
  phase \notin {"down", "serving"} =>
    /\ dir.routeGen <= disk.routeGen
    /\ \A k \in Keys : dir.routeGen < disk.tomb[k] \/ disk.tomb[k] = dir.tomb[k]

(* The inductive form of GenerationsSound.                                 *)
GenerationInv ==
  /\ Sound(disk)
  /\ Sound(dirPlatter)
  /\ \A c \in Clis : cli[c] # None => Behind(cli[c], disk)
  /\ BootingBehind

(* "No crash can lose BOTH a tombstone and the forget it drove"            *)
(* (bin/hail.js startup reconcile): as long as the sidecar a restart would *)
(* read holds a claim made before its key's last retirement, the tombstone *)
(* of that retirement is still in the file the restart would read.         *)
NeitherLost ==
  \A k \in Keys : Unseen(keys[k], k, disk) => disk.tomb[k] # 0

(* "A tie means the approval was made with the tombstone already known"    *)
(* (routedKeyStore.applyTombstones): a pending tombstone strictly outranks *)
(* every claim made without having seen it.                                *)
PendingOutranksUnseen ==
  \A k \in Keys :
    Unseen(keys[k], k, disk) /\ disk.tomb[k] # 0 => keys[k].gen < disk.tomb[k]

(* A conflict cannot be shed by a restart: once the daemon no longer       *)
(* reports a degraded sidecar, the file a restart reads holds it, and so   *)
(* does the platter unless an earlier write failed (a restart before the   *)
(* retry forgets that the platter lags, the residual the roadmap names).   *)
ConflictSurvives ==
  \A k \in Keys :
    /\ phase = "serving" /\ ~degraded
    /\ store[k] # None /\ store[k].st = "conflict"
    => /\ keys[k] # None /\ keys[k].st = "conflict"
       /\ faults = 0 => keysPlatter[k] # None /\ keysPlatter[k].st = "conflict"

(* The degraded report clears only on a durable write of the whole store:  *)
(* a best-effort write landing must not disarm the retry.                  *)
RecoveredMeansDurable ==
  [][phase = "serving" /\ phase' = "serving" /\ degraded /\ ~degraded' =>
       keysPlatter' = store']_vars

(* A daemon that has adopted a retirement, by reload or by its own change, *)
(* does not keep the key approved before it usable.                        *)
AdoptedRetirementDrops ==
  phase = "serving" =>
    \A k \in Keys : store[k] # None /\ store[k].st = "approved"
                       => ~Unseen(store[k], k, dir)

(* What startup serves: no entry whose claim had not seen a retirement the *)
(* startup loaded.                                                         *)
StartupServesNoRetired ==
  [][phase # "serving" /\ phase' = "serving" =>
       \A k \in Keys : ~Unseen(store'[k], k, dir')]_vars

(* And it drops nothing else: an approval made with the retirement already *)
(* known survives the restart.                                             *)
StartupKeepsSeen ==
  [][phase = "loaded" /\ phase' \in {"dropped", "kept"} =>
       \A k \in Keys : store[k] # None /\ store'[k] = None
                          => Unseen(store[k], k, dir)]_vars

(* No writer, however stale, loses or lowers another writer's tombstone,   *)
(* takes a counter back, or issues a generation already issued; a          *)
(* tombstone leaves the file only when the daemon has applied it.          *)
RetirementsOnlyAdvance ==
  [][/\ disk'.routeGen >= disk.routeGen
     /\ disk'.applied >= disk.applied
     /\ \A k \in Keys : disk'.tomb[k] # disk.tomb[k] =>
          \/ disk'.tomb[k] > disk.routeGen
          \/ disk'.tomb[k] = 0 /\ disk.tomb[k] <= disk'.applied]_vars

(* A sidecar write that failed is retried until it lands.                  *)
DegradedHeals == degraded ~> ~degraded

=============================================================================
