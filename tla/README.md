# Peerhailer in TLA+

Models of Peerhailer's stateful parts, checked with TLC on small instances and
proved about with TLAPS where a theorem holds for every value of the constants.
Paths are relative to the repository's root; `PROJECT.json` maps each definition
to the lines it models.

Contents: [the system](#the-system) · [the modules](#the-modules) ·
[the runs](#the-runs) · [disagreements](#disagreements-with-the-documentation) ·
[the proofs](#the-proofs) · [limits](#limits) · [plan](#plan) · [running](#running)

## The system

Peerhailer introduces machines to each other: each runs a daemon that answers
signed *hails*, keeps a directory of peers with keys and profiles, and offers
capabilities (plugins) to peers according to their profile. Routed messages reach
machines that are not neighbours. A CLI and a control page work on the same
state. Everything is one Node process per daemon (run-to-completion handlers
with awaits between) plus any number of CLI processes, sharing a few JSON files.

| Part | State it keeps | Operations | What makes it hard |
| --- | --- | --- | --- |
| Directory (`directory.js`) | peers by name, candidates, blocklist, tombstones of retired identities, baseline | admit, forget, rotate, bind, noteSealKey, acceptSeal, block, note a target; `reconcileState`, `adopt` | many writers with stale copies; three-way merge by revision; fields that belong together |
| State file (`state.js`) | `directory.json`, a lock file | `loadState`, `saveState`, `updateState` | processes that stall or die with the lock; power loss |
| Routed keys (`routedKeyStore.js`, `bin/hail.js`) | Tier-1 sealing keys with generation, conflict flag, `route-keys.json`, retry timer | observe, approve, discard, applyTombstones, startup reconcile, retry | two files without a transaction; crash between any two steps; eviction; failing writes |
| Replay guard (`routeReplayGuard.js`) | reservations, per-origin counts, high-water time, `route-replay.json` | check, admit, sweep, restore | wall clocks that move back; ceilings; restarts; a damaged sidecar |
| Routing engine (`routing.js`) | per message: ttl, budget, visited path, what a neighbour reported | relay, send | recursion across machines, lying or silent neighbours, late answers |
| Routed exchange (`routePlugin.js`, `routedMessage.js`, manifests, receipts) | relay slots, rate windows, per-origin observations | send, deliver, relay, settle a response, receipts, refusals | relays that drop or swap answers; state read before a search and used after it |
| Hail and daemon (`server.js`, `hail.js`) | routes, policy, mounts | answer a hail, dispatch to a plugin, control API, reload; call a peer at its addresses | bindings learned while others change the record; a call whose answer is lost is made again |
| Reload (`runtime.js`, `plugins.js`, `doReload`) | generation, routes, plugins, profiles, the chain of reloads | load, build, commit; SIGHUP; stop what was replaced | plugins built across awaits from a state that moves; requests looked up before and served after |
| Services (`servicePlugin.js`) | table of running children | start (claim or report), stop, status, reap, exit | awaits between reservation and spawn; events of ended children; discarded plugins |
| Composer (`composer.js`) | launches and control sessions | launch, control, stop, closeAll | six resources acquired across awaits, failure anywhere, a daemon that exits meanwhile |
| Tunnels, shells (`tunnelPlugin.js`, `shellPlugin.js`) | sessions with buffers and offsets | open, write, poll, close, reap | lost poll answers; exit before the last poll |
| Commands, chat, gate | one child with a deadline; inboxes with caps; a limiter of failed logins | run; send, read; log in | a timer that races a close |
| Trust, profiles, grants | capability sets, time-bound elevation, signed grants | evaluate, attenuate, elevate, expire | pure, but security relevant |
| Identity, sealing, certificates, files, UI, diagnostics, CLI parsing | key files, none, or a log | cryptography, encoding, I/O | no interleaving |

**Interactions.** CLI processes and the daemon meet only in `directory.json`, under
the state lock. The daemon adopts a file (`adopt`), which tells the routed key store
whose identities left. The routed key store is also told by tombstones, at startup.
The routing engine calls the fabric (`callPeer`) and the destination's opener, which
asks the guard. The composer calls a remote node's service plugin; a reload discards
plugins, which stop what they hold.

**What makes each part correct** is listed under the runs below; the hazards those
properties are for, each at its line, are in `PROJECT.json` under `hazards`. The few that no
property covers say why there.

## The modules

| Module | Models | Composes |
| --- | --- | --- |
| `RouteRetirement` | retirement of Tier-1 keys: both files, their platters, CLI processes, the daemon's startup, its live store and directory | directory, key store, sidecar durability |
| `StateLock` | `updateState`: the lock file and the read-modify-write under it | any number of processes |
| `SharedState` | what `updateState` promises: an atomic update | refined by `StateLock` |
| `PeerMerge` | one peer's record, written by CLI processes and the daemon | directory, CLI, page, hails, walks |
| `ReplayGuard` | the guard, the opener's use of it, its sidecar, a clock | `routedMessage.js`, daemon wiring |
| `ServicePlugin` | children started for peers | peers, processes, timers, the host |
| `Composer` | launches and control sessions | composer, node answers, the daemon's end |
| `Routing` | one message's search over the whole graph | all machines of a network |
| `RoutedExchange` | sealed and clear sends, what the destination does with them, answers and what the origin makes of them | route plugin, sealing keys, records, receipts, observation store, relays |
| `RoutedPromise` | what a routed send promises its caller | refined by `RoutedExchange` |
| `Runtime` | the daemon's directory, plugins and profiles across reloads | commands, page, SIGHUP, requests, plugins |
| `Sessions` | a byte stream through a tunnel or a shell | client, calls, plugin, far side, reaper |

`MC<Module>`, where there is one, gives values, symmetry and a choice of initial states to TLC;
the other modules are checked as they are. `<Module>Proofs` holds theorems. Each module states
its abstractions in its header; the correspondence follows.

**RouteRetirement.** `disk`/`keys` are the two files as a process reads them,
`dirPlatter`/`keysPlatter` what a power loss would leave: `saveState` renames, and
only with `{durable: true}` syncs. With `OrderedFS` a write or sync also carries all earlier
ones to the platter. A CLI command is `CliLoad` (read at start) and one of `CliForget`,
`CliRotate`, `CliAdd` (change and reconciling persist under the lock, which
finalizes provisional generations). The daemon's startup is four steps,
`BootLoad`, `BootApply`, `BootPersist`, `BootConsume`, as `bin/hail.js` 890-960 orders
them, with a crash possible between any two. `ObserveNew`/`ObserveEvicting`/
`ObserveConflict`/`Approve`/`Discard` are the store's operations with the persist
each ends in; `RetryPersist` is the back-off timer. `DaemonForget`, `DaemonAdd`
and `DaemonTouch` are `applyChange`; `Adopt` includes its listener. `serial`, `log`
and `saw` are history.

**StateLock.** One `pc` per process. `TryOpen` is the exclusive create, `Stat` the
age check, `Steal` the removal of a stale lock, `Read`/`Write`/`Throw`/`Unlock` the
section with its `finally`. `Age` makes a lock stale and `Deadline` lets a wait
expire at any moment, so no relation between the speeds of processes is assumed.
`file`, `acked` and `view` are abstracted to who wrote last, which is what a lost
update is about.

**PeerMerge.** A directory is seen as one name sees it, the merge being name by name.
`Start` copies the file to `base` and `mine`; commands work on `mine`. In a walk the peer may
answer (`Answer`: its keys and what they prove) and another may mention it under
another key (`Mention`). `Persist` is the three-way merge with whatever
the file holds by then. Page changes and hails apply to the file and are adopted. Every append or
union of recorded rivals is cut to `MaxConflicts`; what the cut leaves may be any that includes what was dated now (`Newest`).
`vouched` is history.

**ReplayGuard.** `Check` and `Admit`/`BadBody` are the two calls of `openRouted`;
`opening` holds the message between. `Now` is `currentTime` with its high-water
mark. `Start` restores the sidecar: file order decides what fits, hence a choice
among maximal fitting sets. `Tick`, `SetBack` and `Edit` are the environment.

**ServicePlugin.** A slot is a service id. The steps end where the code awaits:
`StartClaim` reserves and awaits a port (`Allocated`/`NoPort`), `StartReport` spawns
and awaits an announcement (`Announced`/`Silent`). The shell and its process group
end separately (`ShellEnds`, `ProcessesEnd`) and `ExitEvent` is delivered later.
`Sweep` is the reaper, which every start also runs first. Time is an age:
fresh, idle, old.

**Composer.** A record per launch with one flag for each thing it holds. Each await
of `launch()` and `controlRemote()` is a phase; `Stop` may come as soon as a launch is
listed. A node may refuse, or act and have its answer lost. The daemon's end is `CloseAll`, which
stops what is listed and waits for none of it, then `Exit`, which takes along gates and
forwards, but not a T3, a process of its own; `late` marks what was under way. A T3 is killed by a SIGTERM
(`signalled`), which it obeys when it likes or never (`T3Dies`), and by `Escalates`, the SIGKILL three seconds later,
a timer that ends with the daemon. A T3 leads a process group: what it leaves of it (`strays`) `kill()` spares, as its
leader has exited. With `Faults` a home may fail to be written, where the code throws past the removal, or to
be removed (`spoiled`).

**Routing.** `calls[p]` is the call of `relay()` at the end of path `p`; a path identifies
it because a machine never appears twice on one. `Forward` is one iteration of the loop
up to its await, `Answer` and `Timeout` what follows it. A late answer's search goes on
as an orphan beside the caller's next. `Lie` is a machine that answers anything.
Ranking is any order. Links are symmetric: an edge means each accepts the other's forward.

**RoutedExchange.** `Send` is `composeRouted` and the plugin's send up to its await: it resolves the
sealing key (`ResolvedSeal`: a walked key, else an approved entry of the store) when it sends, and `Answer`
looks at what has become of the origin meanwhile. `Refuse` and `Accept` are the opener and the plugin's
deliver, up to the call of the consumer; `Reply`, `ConsumerFails` are its end, which gives the slot
back. The relays are an environment: whatever crossed them once may be
delivered again by any neighbour, and any receipt, record, refusal or reply seen
may be part of any answer. `tier0`/`entry` are the directory's and the key store's idea of an
origin; `marked`/`onDisk` the observation store in memory and in its file, `RetryPersist` the retry of
a write that failed. `Crash` restarts the destination, perhaps with another key; `Reload` replaces the plugin, with
the requests of the old one still running. `seen`, `blessed`, `uncovered` are history.

**Runtime.** `Command` is a CLI process that writes the file; `ApplyChange` a page's change, which the
daemon adopts at once. `AskReload` and `AskTogether` put a caller on the chain of
`applyReload`, `HangUp` is the signal, which joins a signal's reload that is already on it. `StartReload`, `Rebuild` and
`Commit` are `doReload` between its awaits, `Fail` its rejection, before or after the profiles are set.
`Stop` is the later stop of a replaced plugin set. `Arrive` looks up a route, `Dispatch` decides and
calls the handler after the body. A plugin set is identified by the build it came from; `External` is a plugin
that came from a module and is the same object in every build. `ver` counts the states of the file.

**Sessions.** A client of either kind: `pipeTunnel` with its two loops, or `execShell`. A call is
`Asked`, `Serve`d, and then answered, `CutOff` (served or not, no answer) or `TurnedAway`; after a cut
the same request goes to the next address (`TriedNext`), while the first may still be served (`ServeStray`). A session is a
record: what the endpoint has read (`got`), what it wrote (`made`) and what of that waits
(`chunks`), whether it is in the table, its age, and whether its end is recorded. `log` is the shell plugin's
history: `Recorded` is `record()`, which cuts it to `MaxLog` entries. `PrintsOn` is output of a shell that was forgotten,
which overflows the kept buffer and is recorded again. `Deliver`, `TunnelData`,
`ShellData`, `EndEvent` are the child's or socket's events; `Age`, `GrowOld`, `Sweep` the reaper; `Stop`
the plugin's stop, which records nothing and takes the history with the plugin, and `Die` the client's death.

## The runs

Eleven runs finish without error; the one of the next section is refuted.

| Run | Question | Distinct states, time with two workers |
| --- | --- | --- |
| `retirement_races` | Two stale CLI processes, the page and the startup, stopped anywhere: generations stay unique, a tombstone leaves the file only when it is applied, a pending one outranks every claim made without it, and the startup drops nothing approved since. | 1 205 000, 100 s |
| `retirement_faults` | A failing write and a power loss that keeps the order of writes: no crash loses both a tombstone and what it drove, startup serves nothing retired, a conflict is not shed, the degraded report clears only on a durable write and does clear. | 297 000, 35 s |
| `state_lock` | Processes that stall, die or give up: exclusion and no lost update until a loss is logged; every call returns; the lock refines the atomic update of `SharedState`. | 86 000, 30 s |
| `replay_guard` | One delivery in a process under any clock; one ever while clock and disk behave; exact counts; no refusal for the sake of what has ended; a damaged sidecar reserves nothing for longer than a message could. | 1 169 000, 80 s |
| `merge_writers` | Two slow CLI processes and the daemon on one record: no identity is paired with another's sealing key, no floor is lowered, nobody is brought back or dropped that the writer did not add or forget; identity, sealing key, dispute and profile change only as a swap. | 368 000, 95 s |
| `service_slots` | Starts of both modes beside stops, polls, the reaper, exits and a reload: ceilings hold, what runs is in the table, and ends. | 234 000, 123 s |
| `composer_locals` | Launches and control sessions stopped or failing at any await, T3s that ignore a SIGTERM, homes whose files fail, and a daemon that exits: no T3 is left that neither can be stopped nor was told to end, no home but one whose files failed; what has ended holds nothing else; the end leaves behind only what it overtook. | 924 000, 25 s |
| `routing_search` | One message on every graph of four machines: found iff within the ttl, spent equals forwarded, one delivery, ceilings hold beside liars and late answers, the search ends. | 349 000, 35 s |
| `routed_exchange` | Two sends through relays that keep, drop, spoil and mix everything: reports are true (`PromiseKept`: the refinement of `RoutedPromise`), a machine that has sealed is not heard in the clear again, payloads are sealed to nothing a relay chose, slots come back. | 360 000, 135 s |
| `runtime_reload` | Commands, page changes, signals and reloads, one of which fails: nothing older than what is served comes back, an answered reload is in force, the chain empties. | 818 000, 60 s |
| `sessions` | A tunnel or a shell over calls that are lost, repeated or overtaken: streams arrive without gaps while no call is made twice, what ends is complete, the history tells what it lists to its end, and sessions do end. | 425 000, 95 s |

Runs of one module are apart only where their constants differ: `retirement_races` needs two
retirements and two CLI processes without faults, `retirement_faults` one of each with faults,
conflicting sealing keys and liveness.

### Bounds, and why they are enough

* *Processes.* Two CLI processes beside the daemon: a merge is of a file and one copy, so
  one writer makes a conflict and a second makes the file itself the result of
  a merge. Three for the lock: a holder, one that steals or gives up, and one that enters after it.
* *Identities and keys.* Three identities (old, new, unrelated), two sealing keys (agreeing or not), two
  profiles, one recorded rival (`MaxConflicts`), so that the cut binds. The retirement runs use two identities for one name: a retirement of one must be
  told from the other's.
* *Retirements* (`MaxRetirements` 1 or 2): a second one is what a reused or
  reordered generation collides with. *Faults* (`MaxFaults` 1): a failed write, then its retry.
* *Changes* (`MaxChanges` 3) cut a behaviour of `PeerMerge` after that many
  commands, page changes and answers, with persists, reloads and starts free. `Init` offers
  records that have already been walked, sealed or disputed, so that the three changes are spent on conflict.
* *Fates.* A behaviour of `merge_writers` either admits peers or forgets them; see
  the exclusions below for one that does both. `MCPeerMerge` starts the first kind from an empty file: with a
  record at first they are among the second.
* *Calls* (`MaxCalls` 1): a process that calls again is another process to the lock.
* *Clock* to 5 with validity and skew 1: a window of a manifest, the skew on both sides, its end, and time after it.
  A ceiling of one per origin and two in all, so that either may be what is full.
* *Slots* exceed the ceiling by one and the ceiling of all exceeds one peer's.
* *Launches* two with a ceiling of one of each kind: a launch and a control session may be listed together, and a second
  launch begins while the first is not yet listed. `HeldInv` is about each launch alone.
* *Routing.* Four machines have every shape that matters to a depth-first search: a chain at
  the ttl, a diamond, a triangle beside the path, a dead end, a disconnected
  destination. `MCRouting` lists the circumstances: `Calm` (ttl below and above its ceiling,
  up to two blocks), `Tight` (budgets, fanout and a block during the search), `Hostile` (a
  liar, late answers, negative and oversized asks).
* *Routed exchange.* Two messages of one origin through two neighbours: an answer to one may be made of pieces of
  the other's, a clear one may follow a sealed one. A second origin only fills the marker store,
  whose ceiling is one. Two sealing keys, alike: `MCRoutedExchange` fixes which the destination starts with. One
  event (restart, reload, walk, discard) beside everything relays do.
* *Runtime.* Three reloads: one in flight, one waiting, one to overtake; two more states of the file, so that a
  reload can be behind by one and by two; one request, which meets every stage of a reload.
* *Sessions.* Two addresses, so that a call is repeated; a buffer of two chunks and three to write, so
  that it overflows; two sessions and a ceiling of one; a history of three entries, which two sessions exceed; two polls for a line of output in three chunks, so
  that the sentinel may be missed; one loss.
* *Symmetry* is used only in runs without liveness, over values the modules compare for equality only.

### Fairness

* `StateLock`: a live process keeps running (the wait is a synchronous loop) and
  time passes. The calls are bounded, as with unlimited callers one may be overtaken
  forever: a lock that vanishes between the failed open and the stat is retried at once.
* `RouteRetirement`: the retry timer keeps running. Faults are finite in number.
* `ServicePlugin`: timers fire and events are delivered. No process has to end by itself
  and no peer has to stop.
* `RoutedExchange`: a consumer that was handed a message returns or throws (the code awaits it without a
  deadline). Nothing is assumed of relays, callers or the retry.
* `Runtime`: the daemon goes on with a reload it has begun or has waiting, and plugins finish stopping.
* `Sessions`: a client that lives takes its next step, calls are served or time out, events of ended children are
  delivered, time passes, the reaper runs. Nothing is assumed of what a client has to send, nor
  of the far side.
* `Routing`: the origin's own steps and its timeouts. Nothing is assumed of other machines.

### Deadlock

TLC checks deadlock except where a system may stop: after the last call of every
process (`state_lock`), a discarded plugin with nothing left (`service_slots`), a finished search
(`routing_search`), when all messages are answered (`routed_exchange`), when the file has had its versions and
the reloads are over (`runtime_reload`), when the stream is over (`sessions`, `call_repeated`). `Composer`
has an explicit step for the end.

## Disagreements with the documentation

One run is refuted; `PROJECT.json` quotes the sentence it disagrees with.

| Run | What happens |
| --- | --- |
| `call_repeated` | `callPeer` makes a call again at the peer's next address when no answer came in time, also when the first address has served it; a tunnel's `send` has no sequence number, and the endpoint reads the same bytes twice (`StreamIsUnchanged`; `src/src/hail.js` 140, `src/src/tunnelClient.js` 31). |

The modules also state what a comment or the shape of the code says elsewhere and the code does not do. These
definitions are kept beside the properties, no run of the project lists them, and each is refuted within a minute with
a configuration of the specification and constants given here.

| Definition | What it says, and where | What happens instead | Refuted with |
| --- | --- | --- | --- |
| `AdoptedRetirementDrops` of `MCRouteRetirement` | "the live path: a running daemon drops the Tier-1 key now" (`directory.js` 1073, 1718-1724) | A peer added at a terminal and forgotten from the page before a reload: `adopt()` sees no identity leave, the key stays usable until a restart. | `Peers = {p}`, `Keys = {k1, k2}`, `Clis = {c1}`, `Conflicts = FALSE`, `MaxEntries = 2`, `MaxRetirements = 2`, `MaxFaults = 0`, `PowerLosses = FALSE`, `OrderedFS = TRUE`, an invariant |
| `NoRotationUndone` of `MCPeerMerge` | A rotation "must not be undone by its stale snapshot's inflated revision" (`directory.js` 293-294) | A merged record keeps the higher of two revisions, which can equal a third writer's baseline; its stale record then wins. | as `merge_writers.cfg`, with `Fates = {"forgotten"}`, a property |
| `EveryProcessIsHeld` of `ServicePlugin` | A stopped plugin's children are stopped (`server.js` 1327-1328, `servicePlugin.js` 26-27, 359) | A claim-mode start resumes after the plugin was discarded and spawns a child nothing tracks. | as `service_slots.cfg`, with `Forks = FALSE`, `Discards = TRUE`, `MaxServices = 2`, an invariant |
| `UngatedHoldsNothing` of `MCComposer` | "Strand nothing" (`composer.js` 258) | A failed gate leaves a remote service and a forwarded seat. | as `composer_locals.cfg`, with `Controls = FALSE`, `Loses = FALSE`, `Faults = FALSE`, an invariant |
| `StoppedIsGone` of `Composer` | The escalation is there "so `stop` does not report success over a process that is still alive" (`composer.js` 465-466) | `stop` answers without waiting for the timer, so a T3 that ignores SIGTERM is alive when success is reported; and what outlives its leader is never signalled (452). | as `composer_locals.cfg`, on `MCComposer`, an invariant |
| `HangUpTakesEffect` of `Runtime` | `kill -HUP` reloads in place (`bin/hail.js` 1331) | A signal that comes while another signal's reload is past its load is dropped: a block made between the two is not in force. | as `runtime_reload.cfg`, with `MaxReloads = 2`, `MaxFailures = 0`, a property |
| `StoppedHoldsNothing` of `Runtime` | A tunnel does not survive the removal of its endpoint (`server.js` 1327-1328) | A request looked up before a reload is dispatched after it (`server.js` 710) and opens a session in a plugin that was stopped. | the same, an invariant |
| `PipeReturns` of `Sessions` | "When either the local stream ends or the endpoint closes, the tunnel is closed once and both loops stop" (`tunnelClient.js` 58-59) | The endpoint closes; the reader waits for input that does not come, and the pipe with it (114). | `Kinds = {"tunnel"}`, `Addresses = 1`, `MaxPerPeer = 1`, `Buffered = 2`, `InLen = 1`, `OutLen = 1`, `MaxPolls = 2`, `MaxLog = 1`, `MaxOpens = 1`, `MaxLosses = 0`, a property |

The passing properties leave out the following behaviours, which the models have and the
code does. Each is named with what leaves it out.

| Left out | By | What happens there |
| --- | --- | --- |
| Power loss that reorders writes | `OrderedFS = TRUE` | A boot that crashes after the un-synced removal lets the next boot skip the synced write and consume the tombstone; a power loss then brings back the retired key. |
| Power loss beside generations | `PowerLosses = FALSE` in `retirement_races`, an assumption of `RetirementsNeverRegress` | `directory.json` is never synced: a power loss takes its counter back, and generations are issued again. Where writes reach the platter in order no claim that carries them survives either, so `PendingOutranks` holds; out of order the sidecar keeps its claim, and the next retirement only ties with it. |
| What follows a logged overlap | `~logged` in `LossIsAnnounced`, `UpdatesSurvive`; `SharedState!reported` | A process that gave up removes the live holder's lock on its way out; the next overlaps with the holder and logs nothing itself. |
| A clock set back, a failed write or an edited file, for what a restart keeps | `faithful` in `AtMostOnce`, `StartKeepsReservations` | A start under a clock set back discards genuine reservations as damaged (`docs/routing-security-roadmap.md` 275-283 says replay protection does not outlive it). |
| A writer another process has overtaken | `Sound(c)` in the swaps of `PeerMerge` | As in `NoRotationUndone` above. |
| Forget and admit in one behaviour | `Fates` without `"both"` | A peer forgotten and admitted anew restarts at revision 1 and is taken for its predecessor; admitted without a key it does not count as rotated and inherits a sealing key verified for the former identity. |
| Tombstones and the blocklist beside a slow writer | no property states them | A forget that races a rotation leaves no tombstone for the identity the file held; the blocklist is written as a whole, so a concurrent block is rolled back. |
| A line whose shell ends first | `Watched` in `ServicePlugin` | The shell's exit drops the entry while its background processes run on. |
| A gate that listens after its launch was stopped | `raced` in `LocalsAreHeld` | The gate stays open. |
| Remote launches | `~r.away` in `LocalsAreHeld` | As in `UngatedHoldsNothing` above, and a node's answer may be lost. |
| What the daemon's end overtakes | `late` in `LocalsAreHeld` | `closeAll` starts the stops and stops only what is listed; a launch that is still starting, a remote service and its seat outlive the daemon. |
| A T3 that ignores its SIGTERM when the daemon ends | `signalled` in `LocalsAreHeld` | `process.exit` follows `closeAll` (`bin/hail.js` 1320-1322), so the timer of the SIGKILL never fires: the T3 outlives the daemon, listed or not. |
| What a T3 leaves of its process group | `strays`, of which only `StoppedIsGone` speaks | `kill()` returns early once the leader has exited (`composer.js` 452): the rest of the group runs on. |
| A home whose files fail | `spoiled` in `LocalsAreHeld` | `mkdirSync` or `writeFileSync` throws after `mkdtempSync` and past the removal (`composer.js` 154-162, 222-233, 360-363), or the removal itself fails and is swallowed: the directory stays. |
| Launches that have begun but are not listed | no property states it | The ceiling counts listed launches only, so concurrent ones exceed it. |
| A block while a search waits | no property states it; `blocks` in `SearchIsComplete` | Candidates are chosen before the first await; a peer blocked meanwhile is still forwarded to. |
| Late or false answers | `Truthful` in `SpentIsForwarded` | A routing budget is soft when an answer is lost (`docs/routing.md` says so). |
| Calls made twice | `~repeated` in `StreamsAreKept`, `EndsAreWhole` | As in `call_repeated`; a repeated poll drains the buffer twice and one answer is lost, and a line of a shell runs twice. |
| Overflow of a buffer | `~error` in `StreamsAreKept`, `EndsAreWhole` | The session is cut with an error, which the client is told; what was buffered past it is gone. |
| Markers that were not written | `uncovered` in `FloorHolds` | The observation store is full, or the process dies after a failed write and before its retry: the next clear message is accepted. |
| Changes without end | `MaxVersions` in `ReloadsEnd` | `doReload` starts over whenever a page's change overtook it; changes that never cease keep it, and all behind it, from ending. |
| A reload that fails half way | `failures` in `ProfilesAgree` | The profiles are set before the directory is adopted (`server.js` 1345-1346): if adopting throws, the new profiles judge by the old directory. |
| An unreadable file | the file of `Runtime` is always readable | `loadState` takes it for an empty one, which a reload then adopts without a word: `doReload` passes no log (`bin/hail.js` 1138-1139). |
| A plugin from a module | `External` in `StoppedHoldsNothing` | The module is cached, so the same object is stopped as the old plugin and serves as the new one. |
| An overflow after a shell's end | `"limit"` in `EndsAreRecorded` | Output of a forgotten shell that overflows its buffer is recorded as a limit although the shell has another end in the history. |
| A history cut at its limit | `EndsAreRecorded` is about what is listed | The plugin keeps the newest 200 entries (`shellPlugin.js` 156-159) and starts empty when it is replaced: an end can be gone, and a stopped plugin records none. |
| What a shell writes last | `Ends` of a shell in `Sessions` | Its exit forgets the session: output not yet polled is lost. |
| A shell's `error` event, and its closed stdin | `EndsAreWhole` looks at `error` first | `execShell` ignores the flag and reports `complete: true` for what it has; a write to a child that is gone raises on a stream nobody listens to. |
| Grants near their expiry | not modelled | A grant lives a second at least, so one attenuated in its parent's last second outlives the parent (`grants.js` 116, 198). |
| The rate of relays | not modelled | Windows per neighbour, changed in one turn. |

## The proofs

Eight modules hold the theorems, for every value of the constants. They assume only the named
assumptions on the constants (`ConstantsAssumption` and the like), which TLC evaluates in the
runs. `tlapm` checks them with Z3, Zenon and LS4. `StateProofs` is about two modules, `StateLock` and
`Runtime`, and `ChildrenProofs` about two, `ServicePlugin` and `Composer` (the second of each has a specification
with a name of its own for that reason, `RuntimeSpec` and `ComposerSpec`); each of the others is about the
module it is named for.

| Module | Theorem | States |
| --- | --- | --- |
| `RouteRetirementProofs` | `TypeCorrect`, `ViewsStayBehind` | `TypeOK`, `GenerationInv` |
| | `GenerationsAlwaysSound` | Every tombstone on file has a number of its own, above what is consumed, within the counter. |
| | `RetirementsNeverRegress` | `RetirementsOnlyAdvance`, without power losses. |
| | `GenerationsTellHistory` | `ClaimInv`, without power losses or on a file system that orders writes; from it: |
| | `NoCrashLosesBoth`, `PendingOutranks` | `NeitherLost`, `PendingOutranksUnseen` |
| | `StartupDropsRetired`, `StartupKeepsTheRest` | `StartupServesNoRetired`, `StartupKeepsSeen` |
| | `ConflictsSurvive`, `RecoveryIsDurable` | `ConflictSurvives`, `RecoveredMeansDurable`, under either order of writes. |
| `StateProofs` | `TypeCorrect`, `ExclusiveUntilReported`, `UpdatesSurvive` | `TypeOK`, `LossIsAnnounced`, that no update is lost until then |
| | `UpdateStateIsAtomic` | `Spec => UpdatesAreAtomic`: the refinement of `SharedState`. |
| | `ReloadsAreFenced` | `ReloadInv` |
| | `NeverGoesBackHolds`, `AnsweredIsInForceHolds`, `ProfilesAgreeHolds` | `NeverGoesBack`, `AnsweredIsInForce`, `ProfilesAgree` |
| `ReplayGuardProofs` | `TypeCorrect`, `CeilingsHold`, `NothingIsReservedForever` | `TypeOK`, `Accounted`, `ReservationsEnd` |
| | `LiveOnesRefuse` | `RefusedForLiveOnes` |
| | `OncePerRun`, `OnceAcrossRestarts`, `RestartsKeepReservations` | `AtMostOncePerRun`, `AtMostOnce`, `StartKeepsReservations` |
| `ChildrenProofs` | `TypeCorrect`, `CapsAlwaysHold`, `NothingIsEverStranded` | `TypeOK`, `CapsHold`, `NothingIsStranded` |
| | `HoldingsAreAccounted`, `LocalsAreAlwaysHeld` | `HeldInv`, `LocalsAreHeld` |
| `PeerMergeProofs` | `TypeCorrect`, `FloorsNeverLowered` | `TypeOK`, `FloorsStay` |
| | `SealsBelongToIdentities`, `ChangesSwapped` | `SealBelongsToIdentity`, `ChangesAreSwapped`, where no behaviour both forgets and admits. |
| `RoutedExchangeProofs` | `EntriesHoldTheOnlyKey`, `WireIsTruthful` | `SealInv`, `DestInv`: the two inductive invariants. |
| | `DataIsSealedHolds`, `FloorHoldsAlways` | `DataIsSealed`, `FloorHolds` |
| | `ExchangeKeepsPromise` | `Spec => PromiseKept`: the refinement of `RoutedPromise`. |
| `RoutingProofs` | `SearchesAreBounded`, `DeliversOnce` | `EachSearchIsBounded`, `DeliveredOnce` |
| | `SpentIsWhatWasForwarded`, `SearchesAreComplete` | `SpentIsForwarded`, `SearchIsComplete` |
| `SessionsProofs` | `SpecIInv` | `IInv`: both streams of a client, and the sessions. |
| | `StreamsKept`, `EndsWhole`, `EndsRecorded` | `StreamsAreKept`, `EndsAreWhole`, `EndsAreRecorded` |

**RouteRetirement.** That generations are sound is not inductive: a CLI process writes from a view it
loaded any time ago, the startup consumes by one. `GenerationInv` adds that every such view is *behind* the
file: its counters are no higher, and each tombstone it holds is still on file with that number
or a higher one, or has been consumed; during startup, the file differs from the loaded
view only by tombstones numbered above everything the startup consumes. The merge of a view that is behind
with the file is an *edit* of the file (a tombstone added provisionally, or one replaced), and
`finalizeRouteGens` of an edit is a growth: the lemmas `ReconcileEdits` and `FinalizeFacts` say so, and
`GrownKeepsInv` that every view stays behind a grown file. A power loss takes all views with it. The
action property then follows from the same invariant, action by action.

That no crash loses both a tombstone and the forget it drove is about two files and two histories. `ClaimInv`
says that the generations tell the history: an entry is below its key's tombstone exactly if it was claimed before
that key's last retirement (`Matches`), in the sidecar against `directory.json`, in the daemon's store against it, and
on the platter against the platter; that a claim made now would be right as well, as the daemon's view is below a
tombstone exactly if it has not seen that retirement; and what each stage of a startup has established
(`StartupMatches`): when it consumes, the sidecar is the store, and nothing in it is unseen. A write *stamps* the keys
it retires above the old counter (`WriteStamps`), which keeps every `Matches` (`StampedMatches`); a power loss keeps it
if the two platters match, hence the assumption that a durable write of the sidecar brings the
directory with it. Without that assumption `NeitherLost` and `PendingOutranksUnseen` are false: TLC finds the two
behaviours that the table of what is left out describes.
`ConflictInv` is separate and needs no assumption: every conflict in memory is on disk unless the degraded report
stands, and on the platter too unless a write has failed.

**StateLock.** `IInv` says of the time before the first logged loss that at most one process is inside, with the
lock there; that a process about to steal has logged it; that a view about to be
written is the file; and of all times that no process writes a change nobody made, which is what
the abstract specification still promises after a report. Under the refinement mapping a step maps
to a step of `SharedState` or to a stutter.

**ReplayGuard.** `RunInv` is that a manifest delivered in this run is *covered*: either its key is reserved until
the manifest's own end or later, or the high-water mark has passed the end. Either way `Check` and `Admit` refuse it,
and no step uncovers it, as the mark never falls within a run and a reservation is swept only once the
mark has passed it. `EverInv` says the same of all deliveries and of the sidecar, as long as `faithful`
holds: the sidecar's reservations fit the ceilings, so a start takes all of those that have not ended
(`StartTakesAll`). The counts need facts about finite sets (`FitsLess`, `SweptAccounted`).

**ServicePlugin.** `IInv` says of each slot how its flags go together in each phase (`Sound`): a shell that runs
is held, unless a discarded plugin's start spawned it, and a start that waits while the plugin is in place
is held too. The ceilings stay within (`Within`) because a reservation is made in the
same step as the comparison, and every other step leaves the table with fewer or the same.

**PeerMerge.** A record is *paired* (`Paired`) if a sealing key in use was vouched for with its identity. Every
operation keeps that, the floors, and grows the revision (`Kept`, one lemma per operation); the merge keeps the
floors of any three records (`MergeKeepsFloors`), which proves `FloorsStay` from the types alone. Pairing
needs more: a merge that compares a writer's record and the file's with a baseline is right only if
both are later states of it (`Since`: no lower revision, and a first identity has a higher one), and a
writer without a baseline has admitted the peer itself, at revision 1 (`Writer`). `MergeInv` says so of every
writer. It is kept where a peer is not both forgotten and admitted anew, the assumption of
`SealsBelongToIdentities` and `ChangesSwapped`; the exclusions above say what happens otherwise.
The swaps rest on what the merge believes, that a side whose revision is the baseline's has not changed
(`Same`): every operation leaves a record alone or gives it a higher revision (`Advances`, a lemma each), so `SwapInv` has
it of a writer's copy always, and of the file until another process merges. `MergeSwaps` then goes through the
outcomes of `mergeRecord()`. The cut of the recorded rivals disturbs neither: it leaves the identity and its keys (`CutSwapped`).

**Composer.** `HeldInv` says of each launch alone what it may hold where (`HoldsWhere`), that what is not yet listed has
not been stopped (`StartsUnlisted`), what kinds hold what (`KindOf`), that a home without a launch to remove it is one whose
files failed (`HomeWhere`), and that once the daemon closes nothing
but what is late is starting or listed (`ClosedIsOver`). As a step changes one launch, or all of them
independently, each action is checked once, for one record (`PutHeld`).

**RoutedExchange.** `SealInv` is the origins': the key an entry holds is the only one shown since the entry was
last dropped, and an approved one was approved by a person; walking, contradicting and discarding keep it, and no
replayed record can break it. `DestInv` adds the destination's: what is on the wire has a cause (`WireInv`: a receipt, a
refusal or a reply belongs to a message that was sent and met that outcome), and an origin whose
sealed message was accepted is marked, in memory or in what a restart reads, or the
history says why not (`FloorInv`). From it each step of the exchange maps to a step of `RoutedPromise` or to a stutter.

**Runtime.** `ReloadInv` is the argument of the generation fence: what is in force is no newer than the file
(`Behind`); a build whose generation is still the daemon's was loaded from a file no older than what is in force
(`Fenced`), since everything that moves the directory forward also moves the generation; and a caller on the
chain asked before the file got where its build found it.

**Routing.** Nodes are any finite set, links any graph. Four invariants, each resting on those before it.
`BoundInv` is per call and assumes nothing of neighbours: what a call was asked with is its asker's remainder, clamped to
its own ceilings; a waiting call has room in its budget for the forward it has not been charged for, and as `Charge`
believes a report only up to the allowance it handed out, a lie cannot take it past its budget. `ChainInv` is that in a
truthful world (nobody lies, nothing is late) the calls are the prefixes of one path, each waiting for the next
with the allowance the next was given, and that the spent counts along it, with one for each forward awaited, add up to
all forwards (`SumOf`): `ChainGrows` and `ChainShrinks` are the two steps that change its length. `DepthInv` ties a
call's ttl to its depth. `ExploredInv` is the argument for completeness, without recursion over the search tree:
each call answers for a set of *trails*, the ways on to the destination over open links that avoid its own path
(`Explored`). A call that searches has no trail through any neighbour it has already tried; one that answers in the negative
has none at all; and a caller takes over what its neighbour established with one hop less (`ResumedExplored`). What
`NoRouteExplored` adds is that a search that stops for want of candidates has tried them all: it may not have stopped at its
fanout. The two ends are `ShortestIsTrail`, a shortest walk of open links visits nobody twice, so it is a trail of the origin's, and
`DeliveryFindsWalk`, the chain is itself a walk when the destination delivers.
`SearchIsComplete` therefore speaks of walks (`Hops`) and no recursive distance is needed.

**Sessions.** What an end has read says nothing of what is still on the way, so `IInv` follows each stream from end to
end. Into the session (`SendOK`): what the far side read and what waits for it are the chunks 1 to n with nothing
missing; a send that is under way, or was given up and may still arrive, carries the next one, and there is never more
than one of them, since the reader goes on only when the answer is there. Out of it (`PollOK`): what was written
out, what an answer carries and what waits for a poll are, in this order, all that was made, as long as the
client may still ask; a poll that was given up can take chunks with it, and then none is asked again, so what was
written out stays a beginning. Both are claimed while `repeated` is false, which no step takes back, and
the second while the session has no error. `ClientInv` ties the calls and the
requests still on the way to where the client's two loops are, `Settled` says of every session how its flags and its buffers
go together. Most actions touch neither stream: the entry *fades*
(`Fades`: what goes in is cut off as a whole, what comes out is kept or dropped as a whole), a call goes wrong, the
client stops; `SendStays` and `PollStays` cover them, and the steps that send, serve, read, make or take a
chunk have a lemma each, about one entry and one call. That a shell's sentinel means its line ran once rests on
two bounds: it prints only once something was typed, and one line is all that is sent.
`EndsAreRecorded` has an invariant of its own, `LogInv`, which relates the history to the sessions: an end that is listed is of a
recorded session, a recorded session listed as opened has its end after that, and a session that is gone is recorded.
An action records nothing, or appends entries that fit what it does to the sessions (`Noting`); the lemmas
`LogGrows` and `LogCut` are the two halves of `record()`, the append and the cut, which only takes from the front.

## Limits

*Only model-checked*: all liveness (`DegradedHeals`, `EveryCallReturns`, `NothingRunsForever`,
`SearchEnds`, `SlotsComeBack`, `ReloadsEnd`, `SessionsEnd`), as fairness and ENABLED are out of the prover's reach.
Every invariant and every action property of the passing runs is proved.

*Abstracted*: cryptography (a signature, seal or hash is what it says); contents of
messages; names, addresses and times of last contact; the number and time of a recorded conflict;
candidates of the directory, which are replaced as a whole; a CLI's persist at startup, which changes nothing;
the routing dedup window and size (one message). `Atomics.wait`
blocks the whole event loop of a daemon that waits for the lock, up to its deadline: no other step of
that process comes between, which the single `pc` per process already says.

*Not modelled*, with the reason of each in `PROJECT.json`: commands (one child and one timer per request, a count per
window), chat (a smaller guard and marker set of the kind that `ReplayGuard` and
`RoutedExchange` have, in memory), the gate's limiter of failed logins and the relay's rate windows (counts changed
within one turn); attenuation of grants and elevation, which are pure functions of a clock;
files and WebDAV, diagnostics, the page, argument parsing, the bring-up script, cryptography and certificates, which keep
no state that interleaves.

## Plan

Order of importance: what protects keys and messages first, then what may leak or starve.

1. `RouteRetirement`, `StateLock` with `SharedState`, `ReplayGuard`, `PeerMerge` — done.
2. `ServicePlugin`, `Composer` with the daemon's end, `Routing` — done.
3. `RoutedExchange` with `RoutedPromise`, `Runtime`, `Sessions` — done.
4. Proofs of the safety properties of 1-3 that one step's invariant carries, and of both refinements — done.
5. The two files of `RouteRetirement` against each other, `RefusedForLiveOnes`,
   `Routing`'s four invariants, the three of `Sessions`, `ChangesAreSwapped` of `PeerMerge` — proved.
6. Trust as pure operators (profiles, elevation, grants) against a reference definition, and small modules for
   commands, chat and the gate.

## Running

    tlc -workers 2 -config retirement_races.cfg MCRouteRetirement
    tlapm ReplayGuardProofs.tla

A configuration belongs to the module named for it in `PROJECT.json`.
