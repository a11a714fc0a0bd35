# aruna, specified

TLA+ for [aruna](../src/README.md): what the Roblox runtime in
`packages/aruna/roblox` does when servers, players, requests and timers
interleave, how the compiler's watch loop and its contract gate behave over a
sequence of edits and releases; model-checked with TLC on small instances, with
central facts proved for all instances with TLAPS. Line numbers refer to files
of `packages/aruna/roblox/`, `packages/aruna/src/cli/` or
`crates/aruna_compiler/src/`, by the file's name.

## The system

aruna compiles a typed description of a Roblox game's network and data layer
(actions, signals, resources, stores) into bindings, ships the runtime the
bindings call, and guards the contract between one release and the next. In
the runtime things happen concurrently: many servers share one DataStore, many
clients share one server, and every handler may yield. In the tools, a watch
loop runs an incremental compiler over files that go on changing, and a game's
contract is judged release by release, while records and clients outlive both.

| Component | State it keeps | Operations | Talks to |
|---|---|---|---|
| Session-locked documents (`player-store.ts`) | per document: value, what is persisted, age of the lock, a write queue, a heartbeat timer | acquire, stage, save, heartbeat, release | the DataStore, through the request loop |
| Player store maps (`player-store.ts`) | per server: documents, loads, failures, released players, who holds a key, which release is still writing | load, waitFor, release, releaseAll, saveAll, dispose | documents; the server application's join and leave |
| Request loop and record codec (`store.ts`, `datastore.ts`) | attempts, request budget | one retried UpdateAsync; decode, migrate, encode | DataStoreService |
| Plain store (`store.ts`) | none between requests | load, save, update, overwrite, remove | the same records, locks carried along |
| Resource host (`resource.ts`) | per resource and key: subscribers, running load, dirty, last revision sent, cached value, tags of optimistic calls | subscribe, unsubscribe, invalidate, finish a load, forget a player | game code (`load`), the wire |
| Resource client and optimistic calls (`resource.ts`, `optimistic.ts`) | per resource: value, status, floor, pending updates; per call: its record | subscribe, apply an item, overlay, settle | the wire, action responses |
| Action dispatch (`server-runtime.ts`), guard (`request-guard.ts`), rate limit (`rate-limit.ts`), idempotency (`idempotency.ts`) | calls in flight, budgets, outcome per key, departed players | admit, run, settle, forget | handlers, resources, the wire |
| Client runtime (`client-runtime.ts`, `client.ts`, `roblox.ts`) | a promise per call, timers | call, time out, retry, cancel | the wire |
| Wire (`wire.ts`, `roblox.ts`) | an outbox, flushed once a frame; frames on their way | push, replace, flush, read | RemoteEvents |
| Signals (`signal-runtime.ts`, `binary.ts`) | publisher's batches, handlers | publish, batch, read a payload | the wire |
| Server application (`server-app.ts`) | joined players, sessions, owned stores, boot | boot, join, leave, close | everything above |
| Schemas (`schema.ts`, `schema-check.ts`) | none | validate, fill defaults, report issues | everything above |
| UI bindings (`ui-core.ts`, `ui-react.ts`, `ui-vide.ts`) | one shared holder per resource, scheduled drops, snapshots | observe, peek, render, unmount | resource client |
| Network metrics (`network-metrics.ts`) | counters | observe a frame | the wire |
| Compiler (`crates/aruna_compiler`) | caches of file lists, texts, discoveries, resolutions | check, update | the file system |
| Contract diff and gate (`contract-diff.ts`, `contract-gate.ts`) | the committed snapshot | diff, gate a build | compiler's contracts |
| Release orchestrator (`scripts/release.ts`, the publish workflow) | per checkout: `.npm/`; the artifacts of a workflow; what npm serves | prepare, build-native, publish, `--assemble` | npm, the workflow's jobs |
| Watch loop (`cli.ts`, `watch.ts`, `owned-artifacts.ts`) | pending changes, a debounce timer, a queued rebuild, the ledger of generated files | pass, prune, notify | compiler, file system |

What is hard, and where:

- **One record, many writers.** A DataStore key is shared by every server. A
  request may be retried after it succeeded, a server may die holding the lock,
  clocks only tell how old a lock is, and another deployment may write the
  record in a form this one cannot read.
- **One server, many sessions of one user.** A player who rejoins is a new
  `Player` with the same key, and a server's own lock never blocks its own
  claim. Only the maps of the player store keep the two sessions apart.
- **Snapshots that race their invalidations.** A load reads at one time and
  answers at another; in between its subscribers, their permission and the data
  may change.
- **Optimistic updates.** The client removes an update in the step that shows
  the snapshot containing the call: no sooner (a flash back), no later (applied
  twice).
- **Exactly-once bookkeeping.** Timeouts race late answers; duplicates race the
  call they repeat; a leaving player races everything.
- **Hooks that yield.** A player joins before, during or after the boot, leaves
  while their join is still being handled, and the server may close meanwhile.
- **Sequences of releases.** Each release is compared with the one before, and
  must be readable for records and clients of all.
- **Releases that stop half way.** npm replaces nothing, a run may end between any
  two packages, and a checkout keeps what an earlier version staged.
- **Caches under a moving disk.** A check reads files that are being edited; the
  next one must not believe what it concluded.
- **A loop that watches what it writes.** The build's own writes come back as
  changes.

## Modules

| Module | Models |
|---|---|
| `SessionLock` | What a key promises: a single-writer register. Abstract. |
| `StoreDocument` | `acquire`, `writeDocument`, `createDocument`, and `runStoreRequest` under them: sessions of several servers on one key. |
| `KeyedStore` | `createStore` and the persisted format: what a record is read as, migrated, encoded and carried along, by servers of several versions. |
| `PlayerStore` | `createPlayerStore`: the maps over those documents, per server. Composes `StoreDocument`. |
| `ResourceItems`, `ResourceHost`, `ResourceClient`, `Resources` | The items on the wire; the host and what invalidates it; a client, its overlay and its optimistic calls; and the composition of a host and its players' clients over ordered channels. |
| `RateBudget` | What a limit of max calls per window promises a caller. Abstract. |
| `RateLimit` | `rate-limit.ts`: the lazily refilled, purged map of buckets. Refines `RateBudget`. |
| `ActionDispatch`, `ActionCalls` | The server's side of a call: guard, idempotency, dispatch; and calls end to end: the client's invoker and retries over it. |
| `ServerApp` | `createServerApp`: boot, joins, leaves and the close, over stores as it sees them. |
| `WireOutbox`, `SignalChannel` | The outbox of a wire channel and the metrics of its frames; and the channel with what produces items for it and the clients that read it. |
| `ActionState`, `UiBindings` | `observeAction`; and the screens that read a resource and make calls, over `ResourceClient`. |
| `ContractSchema`, `ContractMetadata`, `ContractDiff`, `ContractReport`, `BinaryCodec` | What a schema accepts, fills in and complains of; what the compiler records of it; what the diff says of two of them; and of two entries of a contract; and how payloads are encoded. |
| `ContractGate` | An entry of a game's contract over its life: edited, gated, shipped, with its records and clients. Composes the five above. |
| `ProjectGraph` | What one check concludes from the files of a project. Also the reference for a clean check. |
| `CompilerSession` | The session that keeps its caches from check to check. |
| `WatchBuild` | `aruna build --watch` over the session: the loop, the gate, the ledger, the user. |
| `Release` | The release orchestrator: checkouts, staged packages, the workflow's artifacts and the registry. |
| `StoreDocumentProofs`, `PlayerStoreProofs`, `ResourcesProofs`, `ServerAppProofs`, `UiBindingsProofs` | The theorems, each about the module it is named for. |
| `RuntimeProofs` | The theorems about `KeyedStore`, and about `SignalChannel` with its `WireOutbox`. |
| `ToolingProofs` | The theorems about `WatchBuild`, with its session and graph, and about `Release`. |
| `DispatchProofs` | The theorems about `RateLimit` and about `ActionCalls`: what stands before an action's handler. |
| `MC...` | The instances TLC checks. |

### StoreDocument

One key. A *session* is one document: the load that claims the key, the open
document, its release. `record` is what the DataStore holds: a shape (what this
code's decoder makes of it), a value and the lock. `phase`, `value`,
`persisted`, `lockAge`, `timer` and `queue` are the fields of `DocumentState`
(player-store.ts 281–297); `request[d]` is the UpdateAsync in flight.

| Action | Code |
|---|---|
| `Acquire`, `ClaimLands`, `ClaimRefused`, `Open` | `acquire` 371–444 |
| `Stage`, `Save`, `Release`, `HeartbeatFires` | `createDocument` 575–662 |
| `RunClosed`, `FlushNothing`, `Flush`, `RunRelease` | the queue 555–567 and `flush` 601–616 |
| `WriteLands`, `WriteCancelled`, `WriteAnswered`, `WriteRefused` | `writeDocument` 446–540 |
| `AttemptFails`, `RequestUnavailable` | `runStoreRequest`, store.ts 868–929 |
| `Crash`, `Remove`, `ClaimByOutsider`, `Tick` | the environment |

A request has two halves, as the code has: the transform runs against the record
(`...Lands`, `...Cancelled`), and later the answer arrives (`...Answered`,
`...Refused`, `Open`), or is lost (`AttemptFails` after `reply = "written"`), in
which case the transform runs again on a record it already wrote.

*Time.* The code only ever computes `now - stamp` and compares it with a
threshold. The model keeps the differences, saturated at the threshold, so the
state space is finite with no bound on time. This assumes the clocks of servers
agree (the code assumes it too: it compares another server's timestamp with its
own clock).

*Values* are fingerprints (`fingerprint`, 342–349): the code compares nothing
else. `persisted` and the request's value are compared as the code compares
them.

*A promise chain is a step.* Work at the head of an idle queue starts in the
step that put it there, so `RunWork` precedes everything else (`Quiet`).

*Outsiders.* `ClaimByOutsider` is a server of another deployment: it takes free
or lapsed keys by the same rule and writes a record that this code reads, finds
newer (`ahead`), or cannot decode (`unreadable`).

### KeyedStore

`record` is what is at the key; a call is begun (`Begin`: the key is validated, and
`overwrite`'s value), runs as attempts of `runStoreRequest`, and ends with an
outcome. The contents of a record are abstracted to the version they are at and to
what becomes of them (they pass the schema, fail it, stop a migration, cannot be
stored); `Kind` is `readStoreRecord`, `Refusal` and `Decoded` are `decodeStoreValue`,
`Envelope` and `Rejection` are `encodeStoreValue`.

| Action | Code (store.ts) |
|---|---|
| `Begin` | `validateStoreKey`, the head of `overwrite` |
| `Written`, `Cancelled`, `Loaded` | `load`, `save`, `update`, `overwrite`, `remove` and the transforms they run |
| `Fails`, `Throttled`, `Unavailable` | `runStoreRequest` 868–929 |
| `WrittenByOthers` | a player store, a script, another version of the game or of Aruna |

A DataStore applies a request at once or not at all, and may fail to say so; then
the transform runs again on what it wrote. So does one that objected and whose
answer is lost: its objection stays in `failure`, over all attempts, and is the
answer whatever a later one comes to (`Settle`), a write included; `StoreIsTrue`
takes a refusal for "not written" only where no attempt went before. Backoff delays
are left out, and so are `recordStoreReceipt`, which nothing calls yet, and versions
that are no integers.

### PlayerStore

Extends the state by the maps of `createPlayerStore` (351–366). Sessions are
`<<p, n>>`: the n-th load of player p. A promise that a load waits on is a
reference (`<<"load", q, k>>`, `<<"doc", d>>`), and settling it rewrites the
references (`Follow`). `released` is `createDepartedPlayers` of
`request-guard.ts` (60–97), which forgets after a time (`ForgetReleased`).

| Action | Code |
|---|---|
| `Load`, `WaitFor` | `load` 708–751, `waitFor` 826–848 |
| `Begin`, `LoadOpens`, `LoadRefused`, `LoadRetries`, `RequestFails` | `attempt` 753–801 |
| `Release`, `EndSession`, `ReleaseAfterLoad`, `ReleaseDone` | `release` 669–706 |
| `DocumentCall`, `ReleaseDocument` | the handle the game holds 638–662 |

Two assumptions about the game, each stated as an operator of the module:
`Patient(p)`: it does not load a player again while a `document.release()` of
that player is still writing; `Once(p)`: it does not release a player twice
during one load (the second release replaces the first in `releasing`).
`dispose` (909–916) is not modelled: the store lives as long as its server.

### Resources

One resource, of player or global scope (chosen in `Init`). A *key* is what one
load answers: each player's own value, or `Everyone`'s of a global resource. A
player who rejoins is another player.

*Values.* A value is the set of writes it contains; an optimistic call writes
itself, a push is a write of the server's own. Nothing is overwritten, so every
value tells which writes the load that produced it saw, which is what the
properties are about.

| Variables | Code |
|---|---|
| `subscribers`, `load`, `dirty`, `sent`, `cached`, `tags` | `KeyState`, resource.ts 219–231; `load[k]` is the running load: its revision, the tags it covers, what it read |
| `revision` | the host's counter |
| `outbox[p]`, `down[p]`, `up[p]` | queued this frame, on the way down, on the way up |
| `active`, `status`, `value`, `floor`, `updates` | `LocalResource`, `floors`, the overlay, per client |
| `called[c]`, `ran[c]` | the client's and the server's side of call c |
| `source`, `allowed`, `here` | the game's data, `authorize`, who is connected |
| `last`, `refusedAt`, `untagged`, `cutOff` | history, for the properties only |

| Action | Code |
|---|---|
| `Subscribe`: `Refuse`, `Join`, `AnswerCached`, `LoadFor` | resource.ts 583–613 |
| `Unsubscribe`, `Unlink` | 558–581 |
| `StartLoad`, `Load`, `FinishLoad` | `load` 401–508 |
| `Invalidate` in `Push`, `RunCall` | 616–646; `invalidateForCall` 660–687 |
| `Respond` | roblox.ts 677–691, `pendingTags` |
| `ForgetPlayer`, `ClientGone` in `Leave` | 742–758 |
| `ClientSubscribe`, `Refresh`, `Disconnect` | 1112–1190 |
| `BeginCall`, `RejectCall`, `SettleTimeout` | `invokeOptimistic`, optimistic.ts 34–72; 1291–1343 |
| `HandleState`, `HandleResponse` | 1046–1109; 1346–1370 |
| `Flush`, `Deliver` | the outbox and its frames, wire.ts |

*Synchronous loads.* A load whose function does not yield finishes inside the
call that started it. `StartLoad` chooses whether this one does (`sync`); while
one runs nothing else happens (`Urgent`), except that it fails or succeeds.

*When a load reads.* A load reads its source when it starts. Where `late` a
load that yields may read again later (`LateRead`), as a load function that
awaits something first does.

*History.* `last[k]` is how the last load of k ended, `refusedAt[p]` the revision of
p's last refusal, `untagged` the calls that wrote and were not tagged: their caller
was at the cap or no subscriber, and the code then promises less; `cutOff` those
whose tag a refusal dropped. `CurrentWhenQuiet` uses the first two to leave out
exactly two of the situations listed under "Known divergences"; `NoMissedChange` and
`SubscribersAreAnswered` state them.

Left out: `invalidateAll`, a loop of `invalidate`; `dispose`; listeners and
observers, which only watch; several resources, which share only the revision
counter.

### RateLimit

One map for every action and caller, as in the code: a *bucket* is a pair of the
two, with its strategy and window. `bucket[b]` is the stored entry, refilled only
when it is looked at (`Check`, rate-limit.ts 137–153) and purged with all idle ones
on the way or when asked (`Purged`, 124–135; `Purge`, 154–157). Time counts ticks,
`Ms` to a millisecond; tokens count units of which a call takes `Window[b]`, so
every division of the code is exact but for the two roundings of `retryAfterMs`,
which are modelled.

### ActionDispatch and ActionCalls

A *request* is one envelope, an attempt of a call. It is received (`Receive`:
the departed check, the idempotency cache, admission), checked, run and settled.

| Action | Code |
|---|---|
| `Receive`: `Drop`, `Share`, `TurnAway`, `Start` | `bindRemoteActions`, roblox.ts 624–692; `admitEnvelope` and `withIdempotency` in server-runtime.ts; `run` in idempotency.ts 83–131, `admit` in request-guard.ts |
| `Refuse`, `Run`, `Finish`, `Settle` | `dispatchDefined` 456–595 and its wrappers 641–746, server-runtime.ts |
| `Lapse`, `Refill` | the age of an idempotency entry; the token budget of a player |
| `Leave`: `Forget` | `forgetPlayer` of the guard, the cache and the dispatcher |
| `Invoke`, `Hear`, `TimeOut`, `Cancel` | `invokerOver`, roblox.ts 438–558 |
| `Wake`, `Rejected` | `withRetry`, client-runtime.ts 277–379 |

The server has no timeout of its own: a handler runs for as long as it likes, and
the client's timeout, retry and leave race it. `entries` and `order` are the
cache and its order of eviction; `sharers` the envelopes that wait on another's
outcome; `forgotten` (history) the requests whose entry the cache gave up.

### ServerApp

Handlers run on threads of their own and overlap where the game's code yields: `joining[p]`
and `leaving[p]` say how far p's handlers are. A store is what a server app sees
of it: per player a document that loads, is open, and is released.

| Action | Code |
|---|---|
| `Boot`, `BackfillNext`, `BackfillWaits`, `Booted` | server-app.ts 583–627 |
| `Join`: `Added`, then `SessionMade`, then `JoinHookEnds` | `handlePlayerAdded` 526–557 |
| `Leave`, `Removed` | `handlePlayerRemoving` 559–576 |
| `LoadEnds`, `WriteEnds` | the promises of `load` and `release` |
| `Close`, `Closed`, `GiveUp` | BindToClose 629–651 |

`createSession` and `onPlayerAdded` may yield wherever they are called, in the
backfill too: while the handler of a player of its snapshot waits in one of them
(`BackfillWaits`) players come and go, and loads and writes end; between two
handlers nothing does. Code that does not yield is the case where the handler's next
step comes at once. `late[p]` (history) says that p's whole join, or their session
alone, came after their leave had been handled, which the code does not notice.

### WireOutbox and SignalChannel

`WireOutbox` has no state: the queue, its replacement of items with one key
(`Replaced`), the fires it is grouped into at a flush (`Fires`: item by item, each
`Joins` an earlier fire to its recipient or opens one; a broadcast closes the run
before it), the frames of `MaxFrameItems` a fire leaves in (`Frames`), and what the
metrics count of them. `SignalChannel` has the publishers (`Publish` to one, to a group or to all;
a batch in chunks, `Begins`, `Continues`, `Resumes`; `Respond`; `SendState`), the
`Flush` at the end of the frame, and each client's reading (`Receive`,
`HandlerEnds`). `batching` is whether the channel queues; a fire may fail for a
player who left. A group is a sequence, as in the code, and may name a player
twice, who then gets the item twice; an unreliable signal is one frame, fired at
each of the group. With `yields` a handler may yield, which suspends the rest of its
frame and lets later frames be read: chosen in `Init`, as the properties promise
less there. Any handler may throw, at once or after a yield (`Throw`): no handler is
given what is left of its frame. Such items count as taken (`Take`), so that `read`
stays comparable to what was owed, and their places are in `skipped`; `threw` counts
the throws. These two, `owed` and `pushed` are history.

### UiBindings

`Players` stands for the client apps one process installs one after the other, and
the server is left open: any item may arrive. A reader renders (`Render`, React
only), mounts (`Mount`: `observeResource`), is told of changes and unmounts
(`Unmount`, which schedules a drop); `RunDrops` is the end of a resumption cycle or
of a keep-alive. `ReplaceApp` installs another client: readers of the old one's
holder hear nothing more (`stranded`, and not followed further). `ActionState` is
`observeAction`: `Start`, `Settle`, `Reset`, `Dispose`.

### The contract

A schema is a record by kind; a chain is a sequence of calls, each a bound that is
a number in the source, a bound that code computes, or a predicate. `Accepts` is
the validator's verdict, `Filled` what defaults make of a value, `Issues` where it
is refused. What code computes (`Computed`), what a predicate lets pass (`Passes`),
and which consts and imports there are (`Consts`, `Imports`) are constants.

`ContractMetadata` unwraps a chain into the tightest readable bounds, the count and
hash of what cannot be read, and follows names through consts and imports, as
schema_metadata.rs does. `ContractDiff` and `ContractReport` give the set of
severities `contract diff` reports; `Comparable` is what is left of a snapshot of
version 1. `BinaryCodec` writes a payload as a sequence of cells, each in a format,
behind the fingerprint of its layout; reading a cell in another format is misreading
it. `ContractGate` has the life of an entry: `Edit`, `Ship` (what the gate lets
through), `Save` (a record, by the shipped build), `Build` (a client), `Revert`.

`Ship` models what a project does with a report: a change that makes records
unreadable is refused by the gate; one that is to be looked into is shipped if the
record still loads (`LookedInto`); and calls whose change is reported are changed
together with the clients. `Careful` says that the project also keeps what no diff
looks at: a `migrate` while older records exist, and it does not use a removed name
again. All properties are checked with `Careful = TRUE`.

### The compiler and the watch loop

A file's text is what the check reads from it: whether it parses, what it defines,
what it imports at run time, for types or for schemas, and whether its stores break
records. `Links` resolves specifiers by their candidates, `ModuleKind` and
`BoundaryCode` are the rules, `TransitiveErrors` the chains, `Emitted` what is
generated. `CleanCheck` is a check with no cache.

| Action | Code |
|---|---|
| `BeginCheck`, `Walk`, `ReadAll`, `ReadStops`, `ResolveAll`, `ResolveStops` | session.rs, cache.rs, files.rs, resolver.rs; aruna_napi/src/lib.rs for the updates that wait for the next check |
| `Check`, `CheckEnds`, `Gate`, `Prune`, `WriteLedger`, `EndOfPass` | a pass: `runWatchSession` and the build in cli.ts, owned-artifacts.ts |
| `Reported`, `Debounced`, `TakeChanges` | the watcher and `createRebuildScheduler`, watch.ts |
| `EditFile`, `Move`, `EditTsconfig`, `Kill` | the user |

A check runs in steps, and the disk changes between them. The facts that depend on
one text alone are kept by its hash and are left out: a text has the facts it has.
Whether the watcher leaves out the generated tree is settled by the first pass
(`filtered`, `MayFilter`). `Hasty` is the set of things users do that the loop is not
made for: `early` edits before the watcher is up, `put back` of a file whose absence
a resolution relies on, `revert` of tsconfig.json to exactly what the upkeep wrote.
It is empty in the run; with any of the three TLC refutes `OutputIsClean`, and with
`early` also `ComesToRest`.

### Release

A checkout is a working copy on a machine: of the workflow's jobs, or a developer's.
`native[c][t]` is the package of target t under `.npm/`, `wrapper[c]` the versions
whose modules `.npm/compiler/dist` holds, `run[c]` the command under way with what
it has left to do, `registry[p][v]` the manifest npm serves.

| Action | Code (scripts/release.ts) |
|---|---|
| `StartRelease`, `StartAssemble`, `BuildTarget` | a command's target list, `selectNativeBuildTool`, building and staging a target |
| `Stage`, `Upload` | the TypeScript packages and `validateStagedRelease`; a workflow job's artifact |
| `SkipPackage`, `PublishPackage` | `isAlreadyPublished` and `npm publish`, one package at a time in the order of `PublishOrder` |
| `Stop` | an error or an interruption, in the middle of a target perhaps |
| `Clone`, `Switch`, `Download`, `runBuildNativeTarget` | a new clone, another version in the same checkout, the workflow's artifacts, `build:native` |

`leftovers` are versions assembled from a `.npm/` that held something other than
their release build, and `sets` the target sets of the runs of a version: what the
properties except, see "Known divergences".

## Runs

All runs pass; each asks one question of the system.

| Run | Question |
|---|---|
| `store_document` | Do the record and the documents agree on who may write (`LockInv`), is what is confirmed stored (`AckedIsStored`), is the key a single-writer register (`SingleWriter`, a refinement of `SessionLock`), is a newer version's record left alone (`AheadIsKept`)? Where requests take no time, does the heartbeat alone keep the lock and save every edit within an interval, one more per flush that failed (`HeartbeatSuffices`)? |
| `keyed_store` | With servers of several versions on a key, are migrations run once and answers true (`StoreIsTrue`), and are the lock and the metadata of what is replaced kept (`CarriedForward`)? |
| `player_store` | Do sessions of one server never overlap on the key, whoever leaves and rejoins when (`DocumentSpec`: the maps implement what `StoreDocument` assumes); do loads settle, do departed players' locks go, is no session lost from the maps? |
| `resources` | Does a host answer with what there is, do subscribers end on the current value, is no call shown twice, does an update leave only with its value, and without its timeout? |
| `rate_limit` | Does the limiter give the budget of `RateBudget`, admit every caller who conforms, and is `retryAfterMs` long enough? |
| `calls` | Does a key run once while its entry is kept, and a call that is not idempotent once at all; is the in-flight count exact and everything of a departed player gone; is every admitted request settled? |
| `server_app` | Is nobody missed though they come while the boot yields, nothing left behind by a leave in the middle of a join; is what the close found written; is each join reported once and each leaver released? |
| `contract_gate` | Does what is shipped load what any earlier build saved and serve the clients of every build whose changes were not reported; are binary payloads of another build read as sent or refused; are the issues of a refusal true? |
| `watch_build` | Does the loop end with a clean check's output; does a build that passes keep client and server code apart; is every generated file owned; does the loop come to rest? |
| `ui_bindings` | Is what a mounted screen has rendered what its client shows; does the latest call win; does the shared subscription end, and no sooner than asked? |
| `release` | Can what npm serves be installed, and is it the release build of its version (`ServedIsSound`); has a run that reports success shipped everything (`SuccessMeansShipped`)? |
| `signal_channel` | Does who stays read everything once, but the rest of a frame whose handler throws, and, unless a handler yields, in order; do the metrics account for every item? |

*Bounds*, and why they are enough.

`store_document`: two servers and three sessions (two of one server, so that a
successor meets its predecessor's lock), two values, two attempts per request (an
attempt can land and be retried), TTL three ticks and heartbeat one, and two events,
where an event is a call of the game or a fault; the servers' own steps and time are
unbounded. A stale write after a takeover needs one lost answer and one call; a
second event gives every pair. The other world of this run (`prompt`) has requests
that take no time, edits and releases without bound, and no saves but the
heartbeat's. `keyed_store`: three versions of the store, any two of eleven calls,
each tried twice, one write by others; metadata and values at the edges of
`MaxPreserved = 2`, `MaxBytes = 4` and `MaxReceipts = 1`. What a call does depends
on the record it finds, and a second call and a write between them give every
record this code can leave. `player_store`: one server, two players of one user (a
rejoin), one load each with two acquire attempts, one call and one fault; other
servers are the outsider. `resources`: two worlds. Where loads read when they start,
two players of a global resource (a load with one subscriber may find another, or
none), one call and one push; where they read late, one player with two calls and
a cap of one tag, so the second may be untagged. Four events each, where an event is
a decision of a client or the game or a failed load; the counterexamples listed
below take three to six. In the player scope only p1 acts, as keys of different
players share nothing but the counter. `release`: a workflow's Linux machine and a
developer's macOS one, two targets, two versions, three commands in all; the
natives of version 1 may be there already. A second run that meets what the first
left, and a third that finds both, is every way in which runs meet.

`rate_limit`: a token bucket of 2 per 5 ticks and a fixed window of 2 per 3 in one
map, two ticks to the millisecond (roundings matter), nine ticks and four
admissions: a bucket is used up, refilled in part, purged and used again. `calls`:
four calls of one player; an idempotent one and one that is not, both retried; a
second one with the key of the first, or a one-way one; a cache of one entry, so
that two keys evict each other; two slots; two events (timeout, cancellation,
refusal, failure, lapse, leave). A duplicate run needs one timeout and an eviction,
which the calls cause by themselves. `server_app`: two players, two stores, no
bound: everyone comes and goes once, a rejoin being another player. One player
whose handler yields in the backfill, and one who comes or goes meanwhile, is the
case a second of either would repeat.
`contract_gate`: some hundred schemas of every kind with up to two fields, and
values at the edges of their bounds and formats; the chain of releases is
unbounded. Bounds mix numbers or computed values, not both; see below for what
mixing does. `watch_build`: four files of the four kinds, one specifier with two
candidates, a directory that moves, three tsconfigs, three events: an edit that a
check in progress misses needs one, one coalesced with it another, a kill the
third. `ui_bindings`: a React reader with a keep-alive of two cycles and a Vide one
without, two client apps, two calls, two revisions, four events; mounts are bounded
by four generations, one more than the shortest drop overtaken twice.
`signal_channel`: two players, a group of one and one that names one of them twice,
frames of two items, a batch of three payloads in chunks of two, three items
produced besides: a run of one recipient that does not fit one frame, between
broadcasts.

*Deadlock* is not checked where bounds on events end a behaviour or the process
does (`CHECK_DEADLOCK FALSE`).

*Fairness.* Stores: requests are answered, with a result or an error (UpdateAsync
returns or throws); an armed timer fires; time passes; a promise's continuation
runs. It is strong because `RunWork` and `Continue` disable everything else for the
moment they run, and a heartbeat may make that moment recur for ever; none of these
steps depends on another actor. This is for `player_store`; `store_document` states
no fairness: where requests take no time, time waits for requests and due timers
(`Timely`), and `EditsAreSaved` bounds the ticks an edit waits. The claim is about
the timer logic, not about a service slower than the TTL. `resources`: weak fairness
of `Step` as a whole; what is sent arrives, a frame is sent, a received call runs
and is answered, a load ends, by its promise or its timeout (481–500). Events are
bounded and every step consumes something, so no step is put off for ever. The
settle timeout is not in it, so that `UpdatesLeave` does not hold just because of
it. `calls`: a stream is read, checks and handlers return, and the client's own
timers run, one or another; nothing is asked of the game, and delivery to the client
is not assumed. `server_app`: threads run on and requests to the store are answered.
`watch_build`: weak fairness of `Loop`: the process goes on with its pass, reports
and timers; not of the user. `ui_bindings`: weak fairness of `Onward`: requests are
read, cycles end and time passes. The other runs have no liveness property.

## What is proved

`StoreDocumentProofs`, for any servers, sessions, values, thresholds and
attempts that satisfy the module's assumptions:

- `TypeCorrect`: `Spec => []TypeOK`.
- `LockCorrect`: `Spec => []LockInv`, when every record is legible
  (`OnlyLegible`: `"unreadable" \notin ForeignShapes`; without it the property is
  false, see below). `LockInv` is not inductive: a claim that landed must still be
  the holder's when its document opens, replies must belong to requests, and the
  record must be legible. `LockIInv` adds these three.
- `SingleWriterCorrect`: the specification implements `SessionLock`, under the
  same assumption. The step lemma maps each action to a step of the register or
  a stutter, using `LockIInv`.
- `SavesAreStored`: `[]AckedIsStored`. The strengthening `AckIInv` says the same
  of a write that has landed and is not yet answered, and that a cancelled write
  belongs to a session that no longer holds the lock.
- `AheadIsNeverOverwritten`: the action property, from the guards of the
  transforms.

These assume of the environment what `StoreDocument` assumes: that a server does not
claim a key while another of its sessions can write it (`SoleOnServer`). That the
player store sees to it is the next result.

`PlayerStoreProofs`, for any players, servers, loads and bounds, with crashes,
failing requests and the game's own saves and releases:

- `TypeCorrect`, and `NobodyIsOrphaned`: `[]NoOrphan`.
- `DocumentsAreSound`: `Spec => DocumentSpec`, the maps implement what
  `StoreDocument` assumes. The invariant `IInv` says that the loads of a server
  stand in a line (`Line`): each but the first waits for the release that follows
  the one before it, every one but the last has such a release asked for, and the
  last is the holder's or the one whose release `releasing` keeps. The one session
  of the server that may still write is that of the first load, or the one it waits
  for, and without a load the one the next load will wait for (`Front`). So a load
  at the head of the line with nothing to wait for finds no session that writes,
  which is `SoleOnServer` when it claims. What else it takes: a document somebody
  waits for is closed or will be by its own queue (`RefInv`), a player's entry is
  a session of theirs (`MapInv`), and requests go with phases (`DocInv`). The
  theorem is of `Spec`, where the game is `Patient` and releases a player `Once`.
  The code does not wait in the other cases: a load of a player whose own
  `document.release()` is still writing finds nothing to hand over, and a second
  release of a load in flight is over when the load is.
- `LockHolds`: `[]DocumentInv`, and `SavesAreKept`: `[]SavesStay`, when every record
  is legible. Both are the theorems of `StoreDocumentProofs`, taken through the
  instance and `DocumentsAreSound`: what was shown of documents under an assumption
  holds of the documents of player stores without it.

`ResourcesProofs`, for any players, calls, pushes and cap on tags, both scopes,
with and without late reads, and with no bound on events:

- `TypeCorrect`: `Spec => []TypeOK`, which includes that no client's floor is
  ahead of the host's counter. Inductive with: items in an outbox or on their
  way, and running loads, carry revisions already given (`TypeIInv`).
- `TagsCorrect`: a held tag waits for a load that covers it. Not inductive by
  itself: `TagHome` adds that a tag is of a subscriber of its key, without which
  an invalidation with nobody to tell would leave it stranded. No run checks it.
- `AnswersCorrect`: `[]AnswersAreCurrent`; `PlayerUncached` adds that only global
  keys cache.
- `AppliedOnce`: `[]NoDoubleApplication`. The property is of a client's value and its
  updates; the invariant (`ApartIInv`) follows a call from its request to the item
  that carries its key. A call is requested once, runs after its request, and what a
  client still updates was called after every unsubscription on its way
  (`Requested`), so an unsubscription drops no tag that matters. What is read,
  cached, sent or shown was written (`Written`), so a call that has not run is in
  nothing. An outbox holds one state item (`OneStates`), into which the keys of what
  it replaces are merged. Then, for every call that is updated, has a tag of its own
  and kept it (`KeptApart`): wherever a value with the call can still come from, the
  source, a running load, the cache, an outbox or the way down, the call's key comes
  with it or before it. Trying to prove this without `cutOff` failed at `Refuse`,
  for a reason: see "Known divergences".
- `EndsCurrent`: `[]CurrentWhenQuiet`. The property is of the moment when nothing is
  on its way; the invariant (`EndIInv`) says for every player what will be theirs by
  then. Who holds the resource has a subscribe on its way up that no unsubscription
  follows (`AsksInOrder`), or has been asked for and is `Answered`: a load of their
  key runs that will tell them, or the item with the highest revision on the way
  down says the right thing and will be taken, or they know it and all that is on
  the way is too old to change it (`EndsRight`). That a running load will be taken
  is `AheadOk`: its revision is above the client's floor and above all that was sent
  to them, or they were refused since, which the property excepts. A cached value
  comes of a load that did not fail (`CachedLast`). It stands on the three
  invariants before it: that a load with none to follow has read the current value
  is `AnswerIInv`, that an outbox holds one state item per client is `ApartIInv`.

`RuntimeProofs`, of the store, for any calls, versions, records of others and bounds:
`TypeCorrect`; `StoreHolds`: `[]StoreIsTrue`, where the invariant adds how often a
call may have landed at each stage and that a captured failure is an earlier
attempt's; and `RecordsAreCarriedForward`: the action
property, by what a transform objects to and what `Envelope` leaves out.

And of the channel, for any players, groups, signals, batches, chunk and frame
sizes and ids kept, with handlers that yield or throw, fires that fail and departures:

- `ChannelTypeCorrect`. The invariant `Typed` also says that a queue holds one state
  per recipient (`OneState`), that no frame on the wire is one its reader drops, so
  that splitting loses nothing, and that the metrics keep no more ids than they may
  (`FewIds`).
- `CountsMatchHolds`: `[]CountsMatch`. By kind, what was counted and what waits are
  what was pushed (`Balance`); a state that takes a queued one's place makes it an
  inequality. What a step counts is what its frames carry (`ObserveAllIs`,
  `Counts`), and what is counted per id adds up to what is counted of signals.
- `ReadInOrderHolds`: `[]ReadInOrder`. For each player, what was read, what a
  suspended reading still holds, what is on the wire and what waits in the queue
  agree with what was owed (`Order`): as sequences if no handler yields; if one may,
  as the same items, each as often, and in what the states hold. That a flush keeps
  each player's order is shown of the algorithm: an item that joins a fire overtakes
  nothing its recipient gets (`JoinedIs`, `FiresIs`), a fire's frames are the fire
  (`SplitAllIs`), so what arrives is what waited (`FramesIs`). A replaced state gave
  way to a newer one that holds what it held (`GaveWay`). What throws cost is
  `Losses`: a suspended rest is shorter than a frame, so each throw skips at most
  `MaxFrameItems - 1` items, and nothing else is ever skipped.

`DispatchProofs`, of the limiter, for any limits, windows, callers and order of
calls, purges and ticks:

- `LimiterTypeCorrect`, and `BudgetCorrect`: the limiter implements `RateBudget`. The
  refinement maps a stored entry to what is left of its budget, refilled up to now;
  the invariant is that no entry is of the future (`LimiterInv`), a purge removes only
  entries that stand for a full budget (`IdleSpent`), and the arithmetic of a tick is
  in `TickRefills`.
- `ConformingAdmitted`: `[]ConformingIsAdmitted`, and `RetryAfterIsRight`:
  `[]RetryAfterSuffices`. The invariant `PInv` relates the stored entry to the
  admissions there were: each was paid for (`PaidBy`), the entry is not ahead of the
  last (`NotAhead`).

And of calls, for any players, calls, keys, cache and slots: `TypeCorrect`;
`RunsAtMostOnce`: `[]RunsOnce`; `SlotsAreExact`: `[]InFlightExact`. The invariant
`IInv` says what a run's entry, its sharers, the answers on their way and the slots
have to do with the requests: a request is sent once (`SentOnce`); who shares an
outcome waits for that one (`SharesOne`); a response says what its request settled
to (`AnswersTrue`, `EndsAsRun`); the entry of what runs or ran is there or was given
up (`Remembered`, `OrderedOnce`); the slots taken are the dispatches under way
(`SlotsTaken`); nothing is kept for who left (`NothingForTheGone`); and a call that
is not idempotent is sent again only when no attempt of it ran or will (`NeverRan`).

`ServerAppProofs`, for any players and stores:

- `TypeCorrect`, with an invariant that says what is untouched before a player's
  join and what each document may be at each stage (`Inv`).
- `NobodyIsMissed`: who is in the server is handled or still in the snapshot, though
  they come while the backfill yields (`ReachedInv`).
- `NothingIsLeft`: who left without a leave handler left before the app was
  connected, and is not in its snapshot (`HandlersInv`); a handler that runs after
  the leave is `late`.
- `HeldIsFlushed`: a document held at the close is being written and waited for, or
  gone (`CloseInv`).
- `HookWritesCount`: `[]HookWritesAreFlushed`, no write of a player's starts before
  their leave is handled, so what the leave hook writes is in the release
  (`HooksInv`). No run checks it.

`ToolingProofs`, of the watch loop, for any files, texts, specifiers, directories and
tsconfigs, and any edits and kills:

- `TypeCorrect`. The invariant `BaseInv` also says where the check, the pass, the
  watcher and the scheduler stand to each other (`Stages`, `Scheduled`).
- `QuietOutputIsClean`: assuming `Hasty = {}`, `[]OutputIsClean`. What the session
  holds of a file, its text or its place in the list, is what the disk holds, or a
  change of it is reported, pending or handed over (`HeldTexts`, `HeldFiles`;
  `Dirty`). Discoveries are kept true by what they were made from and not by the
  disk: what was looked at decides what is looked at (`ReadsSame`), so facts whose
  sources are unchanged are those a fresh look would find. A resolution that found
  a file missing on disk has not seen it come back (`HeldResolutions`), which is
  where `"put back"` is excluded. So a check that ends with nothing left to report
  concludes what a clean one does (`ConcludedIsClean`), one that stops has come upon
  a change (`StopsAreUnseen`), and any other end leaves a rebuild due (`LastOutput`).
  That the session has the project's tsconfig, or hears of it, is `HasTsconfig`, and
  where `"revert"` is excluded.
- `PassedSafely`: `[]PassedIsSafe`. An edge without an error is `Allowed`, and that is
  transitive (`AllowedThrough`), so it holds of paths of any length; the proof is by
  induction over the function that collects them (`LoadsExist`, `LoadsAllowed`).
- `NothingStrays`: `[]NoStrays`; `OwnedInv` says that what is on disk is in the
  ledger or known not to be, also while the ledger is rewritten.

And of the release orchestrator, for any targets, machines, checkouts, tools and
versions, and any number of commands: `ReleaseTypeCorrect`; `ServedSoundly`: `[]ServedIsSound`, of which
`ServedIsInstallable` and `ServedIsFaithful` are the halves; `SuccessIsComplete`:
`[]SuccessMeansShipped`. The invariant says of a run under way that it publishes its
version's release build or is on record as assembled from leftovers, that its
targets are in `sets`, and that what it is through with is published; and of the
artifacts that they are release builds of their version. That a package goes out
after all it needs is `PublishOrder` against `Needs`.

`UiBindingsProofs`, for any readers, keep-alives, calls and client apps, whatever the
server sends:

- `TypeCorrect`, and `LatestCallWins`: `[]LatestWins`, which is inductive.
- `ViewsStayCurrent`: `[]ViewsAreCurrent`. What mounted readers of the installed
  client's holder rendered is the holder's view (`ViewIInv`), and that view is what
  the client shows (`Fresh`): a step its listeners do not hear changes neither
  (`UnheardKeeps`). A client that was replaced is never installed again, else an old
  holder's readers would count as current.
- `KeptCorrectly`: `KeptAsAsked`. No drop has seen a later generation, and one that
  nothing overtook has left what the last reader asked for, less the time since
  (`KeepIInv`). With `HoldsEnd`, which is liveness and left to TLC, this is
  `HeldAsAsked`.

Out of the prover's reach and only model-checked: every liveness property, and all
of the contract modules, whose schemas are recursive data and whose operators are
recursive. Also only model-checked: `HeartbeatSuffices` (in part a bound over
the run's own history) and `NoFlashBack`.

Where a definition is a recursive function, the provers have no induction over it as
it stands: the library's theorem takes an operator. `ToolingProofs` and
`RuntimeProofs` derive it from the least element of a set of naturals (`Least`,
`AllNaturals`; for what is built from a sequence, `AllSequences`) and prove first
that the function exists.

## Known divergences

Where the code and what is written about it disagree, or where it promises less
than a reader may expect. Each is left out of the passing runs by a stated
assumption; where the models can show it, the operator that does is named.

Stores.
- `isNew` after a retry: a claim whose answer was lost finds its own record, and
  reports `isNew = false` (`NewMeansNothingHeld`).
- An open document overwrites a record it cannot decode without looking at whose
  lock it carries (`SingleWriter` with `"unreadable"` in `ForeignShapes`;
  player-store.ts 477).
- `document.release()` outside the maps, then a reload on the same server: a save
  of the old session can land on the new one's (`SavesStay` under
  `MCPlayerStore!HastySpec`).
- `releaseAll` waits for the documents and loads of the moment (player-store.ts
  895–908). A document whose release a leave has just begun is in neither map, and
  a second release of one still loading resolves when the load does, so BindToClose
  may return with a write in flight (`ServerApp!ShutdownWaits`); player-store.ts
  197–198 and server-app.ts 255 say otherwise.
- `dispose` "Stops heartbeats" (player-store.ts 201), which it does not.
- A request whose answer was lost is made again: an `update`'s transform then runs on
  its own result (`landed` counts it; store.ts 868–929).
- The plain store's captured `failure` is not reset when the transform runs again
  (store.ts 1239, 1268). A save whose transform objected to the record of the moment,
  whose answer was lost and whose retry writes is answered with the first objection.
  Modelled (`Fails`, `Settle`); `StoreIsTrue` asks nothing of a refusal after a retry.

Resources and UI.
- A global load that answers nobody drops its result while an older value stays
  cached (`NoMissedChange`); a load joined after a refusal with a higher revision
  is stale for who joined (`SubscribersAreAnswered`); a load that reads late may
  send a call's effect untagged (`NoDoubleApplication` asks nothing where `late`).
- A refused refresh drops the tags of calls whose responses already said "pending"
  (resource.ts 558–566, 583–591). If the player is let in again, the next item
  contains the call and does not carry its key, and the client applies the update
  over it until the settle timeout (`NeverShownTwice`; docs/rfcs/ui-bindings.md
  396–397 says "No double application"). `cutOff` excepts these calls. It takes six
  events, more than the run has: the attempt to prove the property found it.
- A view's `pending` may stay true while there is no value; floors survive an
  unsubscribe, though `revision` is documented as 0 before any; `exclusive` and a
  reset allow a second call while the first runs.

Server.
- A backfill that yields handles players who have left meanwhile: their documents
  load and stay locked until the server closes (server-app.ts 604–608, 623–626).
  A `createSession` that yields across its player's leave puts the session into the
  map after the leave deleted it (551–552). `NothingLeftBehind` and
  `PlayersAreSeenThrough` except exactly these, by `late`.
- A handler that ran and throws a public error named like a refusal, or with a
  `retryAfterMs`, is retried by the client's default rule (client-runtime.ts
  277–297). The models' failures are others.
- The fixed window's `retryAfterMs` may be early by less than a millisecond.

Wire and signals.
- A handler that yields suspends its frame's remaining items while later frames are
  read, so order across frames is lost; docs/wire-protocol.md 34–50 has handlers
  run synchronously. `ReadInOrder` asks for the order only without `yields`.
- Handlers are not protected. One that throws ends the callback its frame is read in:
  later items of the frame, responses and resource states included, reach no handler
  (wire.ts 491–509), nor does the item itself the signal's other handlers
  (signal-runtime.ts 339–341). No document says so. `ReadInOrder` bounds what is lost;
  the models above the channel (`resources`, `calls`) take what arrives as handled.
- Unbatched `toMany` stops at the first recipient whose fire fails. A player named
  twice is sent the signal twice.
- A push after the channel's `dispose` is queued for ever. Not modelled.

Contract.
- Over several releases a record may become unreadable though each release passed:
  a later one drops `migrate` at the same version, brings a removed field back with
  another type, or a removed store (`RecordsLoad` with `Careful = FALSE`;
  contract-diff.ts 2489). The same for a field, error or rate limit of a call
  removed and brought back (`ClientsServed` with `Careful = FALSE`).
- The diff does not see: a reader's own constraints across kinds; number formats; a
  predicate or computed bound replaced behind the same text, or when the number of
  predicates also falls; a computed bound under a static one of the same name;
  `unreliable` of a signal; `authorize`, other than as information. In the model the
  first is avoided by the schemas chosen, formats are left out of `ClientsServed`,
  and the code behind a text is constant.
- `rate-limit-loosened` compares max and window only: 2 per second to 5 per 2.4 s is
  "non-breaking" though an old client may be refused; so is a new rate limit.
- Version-1 snapshots are compared without constraints; the report says so, and
  `Doubtful` takes it as to be looked into.
- `.default(v)` with v refused by its own chain makes records without the field
  unreadable; `applyDefaults` does not look inside records, tuples and unions
  (schema-check.ts 39–42 says "every absent defaulted field"); payloads of signals
  and outputs are validated and not filled.
- Binary payloads: the diff reports an added field, a reordered enum or union as
  compatible though the fingerprint changes and old clients drop the payload
  (contract-diff.ts 1883–1926); a tuple with an absent optional that is not last
  decodes shifted; a union writes the first member that validates and drops fields
  of a later one; objects drop undeclared fields; a layout joins an enum's values
  with `|`, so different enums may share a fingerprint; trailing bytes are ignored;
  f32 is rounded (the model's formats are integers). `FramesAreRead` asks of
  payloads the codec carries (`Carried`).

Release.
- `publish --assemble` takes whatever `.npm/` holds: `validateNativePackage` looks at
  files, license, name and platform and not at the version, so a checkout that moved
  on may publish an earlier version's natives, and natives of `build:native`. The
  compiler's modules are copied over what its directory holds, though release.ts
  548–552 warns of exactly that. `leftovers` excepts these versions.
- A re-run with other targets skips the compiler that is published, whose manifest
  names the first run's (`sets` excepts them).
- A tag that is moved between runs mixes sources; not modelled. `zig: always` acts
  as `auto`. `ARUNA_NATIVE_PROFILE=release` for `build:native` is not modelled.

Watch and build.
- Three edits leave a stale output (`OutputIsClean` with `Hasty`): before the
  watcher is up (cli.ts, the first pass against 1006); a file put back that a
  resolution found missing on disk (resolver.rs 162; session.rs 8–11 says otherwise);
  tsconfig.json written back to what the upkeep wrote (cli.ts 943–952).
- The watcher learns generatedDir from the first pass's output, and takes
  `src/.aruna` when that pass ended in an internal error (cli.ts 300–312, 980–983).
  With another directory configured the ledger's write then starts the next pass, for
  ever (`MayFilter`; `ComesToRest` with `"early"` in `Hasty`, which lets a first pass
  fail). An aruna.config.ts that cannot be read makes such a first pass too; it is not
  modelled.
- A code in `diagnostics.ignore` does not count (compiler.rs 440): a project that
  ignores a boundary code builds what mixes the sides. `PassedIsSafe` is of projects
  that ignore none. `strict.sharedSafety` (432) makes no difference to it: the direct
  rules already decide every chain, and the proof holds for both its values.
- A failing build's files are never pruned if later builds do not own them (cli.ts
  550; owned-artifacts.ts, header), nor are those of a pass that was killed before
  the ledger listed them, or all that a ledger listed that was lost while it was
  written. `NoStrays` excepts these (`unlisted`).

## Definitions in no run

`NewMeansNothingHeld`, `NoMissedChange`, `SubscribersAreAnswered`, `SavesStay`,
`ShutdownWaits`, `NeverShownTwice` are refuted by TLC, see above.
`HookWritesAreFlushed`, `TagsAreDue`, `ChannelTypeOK`, `PlayerStore!DocumentInv`, `SavesStay` (of
`Spec`; it is `HastySpec` that refutes it) and most `TypeOK`s are proved. The other
`TypeOK`s document the state.

## Plan

Done: every module above, with the proofs of `StoreDocument`, `PlayerStore`,
`KeyedStore`, the resource host, `NoDoubleApplication` and `CurrentWhenQuiet`,
`RateLimit`, `ActionCalls`, `ServerApp`, `UiBindings`, `WatchBuild`, `Release` and
`SignalChannel`. What would come next: the lemmas of the contract modules that need
no induction over schemas, and the client's outbox.

## Not modelled

`components` in `PROJECT.json` gives the reason for each part. In short:

- Wording of errors and diagnostics, paths, logging; strings are measured once
  (bytes and code points are one size); Roblox value types in schemas.
- Plain store: backoff delays, the schema walk, receipts.
- Dispatch in process and re-entrant calls; a `Player` instance that comes back;
  client and server middleware; custom retry rules.
- `ServerApp`: `dispose`, writes of a release that fail (`StoreDocument` has those).
- Wire: the contract handshake, the client's outbox, protocol errors; the signal
  subscriber's sets of handlers; the metrics' rings, latencies, abuse and report.
- UI: listeners that mount or release while they run, success and error callbacks.
- Compiler: domain boundaries, raw remote and service checks, panics, `extends` of
  tsconfig, virtual modules, a manifest outside the generated directory, hash
  collisions, reads of one file in two steps of a check; the code generator. A
  schema read through a const that contains itself inside a container.
- Command line: the resident rbxtsc, vendoring the runtime, the other commands; of
  the release script `pack`, dry runs, dist-tags and credentials; codemods, project
  generator, native loader; test doubles, which stand for the environment.
