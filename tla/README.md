# A verification of tauri-boilerplate

TLA+ models of the offline-first platform in this repository, checked with TLC on
small instances and proved with TLAPS for all of them. Paths are relative to the
repository (`src/` stands for its root). Line numbers of every definition are in
`PROJECT.json` under `map`, the hazards that led to the properties under `hazards`.

## The system

A Tauri application: a webview running TypeScript packages over one SQLite
database, which Rust crates own. Devices of one organisation replicate signed
operations to each other over QUIC. There is no server.

| Component | State | Operations | Depends on |
|---|---|---|---|
| Task queue (`packages/tasks`, `TaskQueueService`) | table `core_background_tasks` | enqueue, claimNextBatch, markCompleted, markFailed, cancel, recoverHangingTasks, prune | database |
| Task worker (`TaskWorker`) | running flag, poll timer and promise, `inFlight` | start, stop, poll, executeTask, abort timers | task queue, handlers |
| Outbox (`packages/sync`, `OutboxService`) | table `core_sync_outbox` | enqueue, pendingBatch, markSent, markFailed, prune | business transactions |
| Outbox sync worker (`OutboxSyncWorker`) | one batch per run | handle, enqueueSync | task queue, outbox, a host dispatcher |
| Transport (`IrohSyncTransport`, `crates/sync-core`) | connections, inbound channel, listeners | init, connect, send, receive, dispose | QUIC, Tauri events |
| Inbox (`InboxService`) | table `core_sync_inbox` | receive, applyPending, prune | verifier and applyFn of the host |
| Background scheduler (`crates/background-core`) | loop handle, shutdown flag | start, stop, tick | outbox table, events |
| Platform (`packages/platform`) | initialisation promise | init, shutdown | everything |
| Maintenance | handler registry | preview, pruneAll | tables |
| Clock (`HybridLogicalClock`) | latest time and counter | now, update, compare | wall clock |
| Conflicts (`ConflictEngine`, `ConflictRegistry`) | policies by entity and field | register, resolve | clock, inbox's applyFn |
| Tombstones | table `core_sync_tombstones` | record, markReplicated, prune | maintenance |
| Pairing and sync groups | devices, requests, decisions, members, revocations | request, approve, reject, revoke, canSync, requireActiveMembership | authorisation, audit |
| Handshake (`HandshakeValidator`) | set of nonces | validate, requireValid | signatures |
| Authorisation (`AuthorizationEngine`) | roles, grants | can, require, requireForSubject, requireTrusted | sessions |
| Sessions (`UserSessionService`, `crates/native-core/src/session.rs`) | current session, native generation, failures and lockout | authenticate, establish, restore, validate, logout | native commands |
| Device identity (`DeviceIdentityService`, `crates/identity-core`) | key file, `core_devices` | load or create, register, update status | file system, database |
| Database connections | operation lock, transaction and savepoint clients | execute, transaction, savepoint | SQLite |
| Feature system, migrations | registry, applied versions | register, resolve, applyMigrations | platform |
| Import (`ImportEngine`) | audit trail | executeImport | database |
| Feature modules, applications | notes, widgets, organisations, users; React state | create, update, delete; init, login, logout | all of the above |

The rest (scanner, user interface, the feature validator, password hashing, logging)
is listed in `PROJECT.json` with the reason why it has no module.

What is hard in it, and what makes each part correct:

* **Tasks.** Every operation is one or two SQL statements with awaits between
  them; several processes may open the database; a process may die anywhere.
  Right means: one active row per unique key, one holder of each lease attempt,
  attempts that recovery alone takes past their limit, no end without a cause, no
  starvation, and a `stop()` that waits for what it says it waits for.
* **Replication.** At-least-once delivery over a lossy path with two bounded
  buffers, an acknowledgement that precedes persistence, retries counted in two
  places (outbox row and task), and idempotence by envelope id. Right means:
  `SENT` implies that every peer took it, terminal states are final, one effect
  per envelope and peer, and an outbox that drains.
* **Clock and conflicts.** Convergence whatever order operations arrive in.
* **Membership and sessions.** Checks before an await and effects after it;
  old requests decided late; answers that come after what superseded them.
* **Transactions.** Several callers, one connection, two implementations of it;
  rows, tombstones and outbox entries that must stand or fall together.
* **Lifecycles** (start-up, migration, transport, maintenance, import, the device's
  key). Start and stop that overlap, crashes between steps, one step of many failing.

## Modules

| Module | Models |
|---|---|
| `TaskLifecycle` | abstract: the life of a row of the task table |
| `TaskQueue` | the table and `TaskQueueService`, one action per SQL statement |
| `TaskWorker` | the workers of all processes over that table; properties of the task system |
| `TaskWorkerProofs` | theorems about `TaskWorker` |
| `Delivery` | abstract: what replication promises of one operation |
| `Outbox` | the outbox table, the handler of `OutboxSyncWorker`, the scheduler's tick |
| `Inbox` | the inbox table, `receive` and `applyPending` of each peer |
| `Replication` | `Outbox` and `Inbox` joined by the transport; properties of replication |
| `ReplicationProofs` | theorems about `Replication`, and that it implements `Delivery` |
| `HybridClock` | the clocks of several nodes |
| `Convergence` | extends it: replicas of one field, their policies and resolutions |
| `AtomicStore` | abstract: what a connection promises of its calls |
| `Connection` | calls, transactions and savepoints of both database connections |
| `Records` | the feature services: notes, widgets, organisations, tombstones, operations |
| `Endpoint` | `IrohSyncTransport`: init, connect, disconnect, dispose |
| `Startup` | registration, dependency order, migrations |
| `Maintenance` | a pass of the orchestrator over its handlers |
| `Import` | `ImportEngine.executeImport` |
| `Authorization` | roles, scopes, plain and trusted contexts |
| `Membership` | devices, requests, decisions, members, revocations |
| `Handshake` | `HandshakeValidator.requireValid` |
| `UserSession` | `UserSessionService` |
| `AppSession` | extends it: the demo's start, login and logout |
| `NativeSession` | `NativeSessionStore`, authentication and lockout |
| `DeviceKey` | the key file and its row in `core_devices` |
| `HandshakeProofs`, `MembershipProofs` | theorems about the module of that name |
| `ClockProofs` | theorems about `HybridClock` and `Convergence` |
| `DatabaseProofs` | theorems about `Connection` and `Records`, and that the former implements `AtomicStore` |
| `PlatformProofs` | theorems about `Startup`, `Endpoint`, `Import` and `Maintenance` |
| `IdentityProofs` | theorems about `Authorization`, `UserSession`, `AppSession`, `NativeSession` and `DeviceKey` |
| `MCTaskWorker`, `MCReplication`, `MCPlatform`, `MCIdentity` | instances for TLC |

`MCPlatform` and `MCIdentity` each join modules that share no state. A behaviour
picks one of them, its *focus*, and the others stand still, so the states explored
are the sum of the modules' and not their product.

### The task system

`row[t]` is a row of `core_background_tasks`: its state, `attempt_count`, how far
`scheduled_at` lies ahead (`wait`) and how old `started_at` is (`age`). Time is
relative and `Tick` moves it. A process `p` that is `up` has finished
`Platform.init`, whose recovery pass is part of `Boot(p)`. `enq[p]` is an `enqueue`
call between its SELECT and its INSERT; the partial unique index is the guard of
`EnqueueInsert`, and `EnqueueRejected` is the caught constraint error.

A *chain* is a poll loop: timer, poll, timer. `start()` while an older poll still
awaits its claim makes a second one, which is why `chain` and `claimed` are indexed
by it and `pollTimer` and `polling` hold, as the fields of the class do, only the
latest. `exec[p][t]` is the promise in `inFlight`: each of its `pc` values is one
await of `executeTask` or `markFailed`. The abort timer makes a handler `overdue`.
`markFailed` reads (`FailRead`) and writes (`FailWrite`) in separate steps. A `markCompleted`
that throws goes to `markFailed` as a `DatabaseError`, which is not retryable
(`CompleteFails`): the row is `FAILED` at once, whatever attempts it has left.
`stopping[p]` follows `stop()` through its awaits.

Left out of the data: payloads (a row is corrupt or not), error texts, task types
(a row has a handler or not). Row ids are never reused, so a deleted row stays
`DELETED`. An empty-string unique key and a reconfigured handler table do not occur.
At most one `stop()` of a process is in progress. The backoff multiplier is a
natural number and jitter any value in its range. `forked` and `evidence` are
history variables.

### Replication

One device authors envelopes, numbered in the order of `created_at`, and sends them
to `Peers`. `outbox[e]` is the row; `task` is the one active sync task (idle,
queued, leased by run `r`, or interrupted by a crash) with its `attempt_count` in
`tries`: what the task system shows of a task with a unique key. `run[r]` is an
execution of `handle`; because cancelling a task does not end its handler, two may
overlap. An execution that throws ends the task or retries it (`Throw`): a rejected
dispatch is retried, but the errors of `pendingBatch`, `markSent` and `markFailed` of the
outbox are a `ValidationError` or a `DatabaseError`, which are permanent, so the task is
`FAILED` and the next sync is a new one. A batch that holds a row which does not validate is
such a case (`Blocked`). The host's dispatcher is not in the repository; it is modelled, from the
one call in `OutboxSyncWorker.handle` and from `IrohSyncTransport.send`, as sending
to every peer and rejecting when a send does.

A frame goes from `wire` into `channel[p]`, the bounded queue of the endpoint, is
acknowledged there, is emitted to the webview (`handling[p]`) and ends in
`InboxService.receive`. `pass[p][k]` is an `applyPending` call, one step per await.
`applyFn` is the host's: it has its effect and returns, or has none and throws, with
"conflict" in the message or without. A restart loses everything but the tables.
`StopEndpoint(p)` is `dispose`, by `sync_stop_endpoint`: the channel and the frames in it,
acknowledged ones too, are gone while the process goes on.

Faults (crashes, stopped endpoints, lost frames, throwing statements, abort signals,
cancellations) draw on one budget, `MaxFaults`. Rejecting a dispatch is not a fault: peers are
often offline. Left out: the bound on concurrent streams (it only delays frames),
the connection map, ties of `created_at`, `persistCursor` (nothing reads the cursor).
Rows a pass still holds are not pruned, since no pass lasts as long as the replay
window. `reached`, `lost`, `applied`, `forgot` and `pruned` are history variables.

### Clocks and replicas

`HybridClock`: `clock[n]` is `latestTime` and `counter`; the wall clock of a node jumps
forward, stands still and is set back, and a restart forgets all but it (nothing
persists the clock). `Convergence`: an application registers policies, then every
node writes one field and resolves what it receives against its copy. Both
`ConflictEngine.resolve` and `ConflictRegistry.resolve` are taken at each step.
Payloads are numbers only because `additive` adds them up.

### Transactions and records

`Connection`: `queue` is the operation lock of the memory connection, `clients` what
callbacks were given, each with its buffer on the native connection. Callbacks end
their savepoints before their transaction and use their innermost client: stated as a
guard, since two savepoints open side by side already corrupt each other there.
`Records` takes what `Connection` shows and makes a transaction of each service call,
with its lookups, writes, signature and outbox entry in steps, any of which may fail.

### Start-up, transport, maintenance, import

`Startup`: several `Platform` objects over one database, builds that add, drop and
change features; `history` is `core_migrations`, `schema` what really took effect.
`DependencyResolver` walks the dependencies with a stack of its own; `frames` is that stack,
`ordered` its result, and each turn of its loop a step (the code's are one synchronous
call, and only the platform's own variables change). Where the code leaves an optional
dependency that is not installed out of a frame, the model passes it by when it comes to
it. `turn` counts the owners whose migrations the engine was given. `Endpoint`: each
call of the transport with its position between awaits; `listeners` is what Tauri
delivers to. `Maintenance`: handlers, rows with the day they finished, batches.
`Import`: files are the numbers the limits compare, at each limit and past it; the definition
is the host's and writes any subset of the valid rows, since the engine only asks that
`importedCount` lies between 0 and their number.

### Identity

`Membership` has one action per operation, since each is one transaction; `members` is a
sequence because its table has no unique index and readers take the first row.
`UpdateDeviceStatus` sets any status whatever the present one is, as the code does, and
`RequireActiveMembership` asks for the organisation of the context as well as for a row.
`Handshake` splits `requireValid` at its await. `UserSession` splits every method at every
await; `AppSession` puts the callbacks of `PlatformProvider` over it, limited as the pages
limit the user. A start that fails sets the platform to null and leaves the signed-in user
where the restored session put him: the page then has no service to ask. `NativeSession`
is keyed by generation: call `g` of `authenticate` is the one that took generation `g`.
Its password check is one step, since it runs under the lock of the connection.
`DeviceKey` has a step for each operation on the file and one for the transaction, in the
order of `write_seed_exclusive` on the two kinds of build.

## What is checked

| Run | Instance | Shows |
|---|---|---|
| `task_shared` | 2 processes, 2 rows of one key, 2 boots, failing statements; 453,242 states | deduplication, exclusive leases, justified ends, and that the table implements `TaskLifecycle` |
| `task_fair` | 1 process, 3 rows (retrying, corrupt, unhandled), stop and start, failing statements; 72,363 states | the concurrency limit, what `stop()` waits for and that it resolves; due rows are leased |
| `task_attempts` | 1 process, 1 row of one attempt, 2 boots | *violated*: no row is leased more than `max_attempts` times |
| `task_alert` | the same | *violated*: only rows that are `FAILED` are reported |
| `task_lease_kept` | the same | *violated*: leases of a dead process are always reclaimed |
| `task_forked_poll` | 1 process, 2 rows, 2 chains | *violated*: concurrency is never exceeded |
| `replication_group` | 1 envelope, 2 peers, 2 runs, 1 fault; 620,495 states | attempts counted exactly, one effect, none of what was refused; outbox, transport and inboxes implement `Delivery` |
| `replication_fair` | 3 envelopes, one that does not validate, batches of one, channel of one, restarts of any haste, 1 fault; 276,502 states | the outbox drains unless it is blocked, received envelopes settle, none acknowledged vanishes |
| `replication_scheduler` | 1 envelope, no faults | *violated*: the native scheduler alone drains the outbox |
| `identity` | seven focuses, devices and requests interchangeable; 917,611 states; see below | permissions, membership, handshakes, sessions, native logins, the device's key and the application's layers |
| `identity_members` | the membership focus | *violated*: approving a device again updates its membership row |
| `platform` | eight focuses, 2,356,421 states; see below | clocks, convergence, transactions, records, transport, start-up, maintenance, import |

Why these bounds are enough. The claims race, the deduplication race and every
stale update are between two parties about one row, so two processes or two runs
and one or two rows show them; the other rows of `task_fair` give the claim something
corrupt and something unhandled to trip over. Its one chain is the case the concurrency
property is about: `task_forked_poll` has the other. Two boots let a lease be recovered
and taken again; two attempts let a retry follow it. A channel of one fills with the
first of two envelopes, and the third of `replication_fair`, which does not validate, comes
after both, so that the outbox is seen to drain past the others and to be blocked in the end.
There the first rejected dispatch gives a row up, which is the only way past a peer
that stays away. One fault at a time is enough for each exception of the
properties; a second would only meet the state that one left. In the
three-way product of envelopes, peers and runs at most two are larger than one in a run.

| Focus | Instance | Why it is enough |
|---|---|---|
| authorization | 2 users, 2 organisations, 3 roles, 5 grants with `*` and a constraint that does not parse | a role of the wrong organisation, a withdrawn one, a wildcard |
| membership | 2 devices, 1 key, 1 group, 3 requests, callers with and without permissions and one of another organisation | two requests of one device, a third decided after a revocation, two devices of one key |
| handshake | 3 attempts, 4 messages over 2 nonces, one unsigned | two overlapping attempts and one after them |
| session, app | 2 accounts, 3 calls; 2 logins, 2 clicks | a login that replaces another while a third call waits |
| native | 2 users, 4 logins and logouts, 2 failures, lockout 2, wall clock to 2 and back | a login overtaken by a login and a logout; failures at the limit, past it, and past that |
| key | 3 processes, 2 seeds, 2 replacements, both builds | one creates, one finds the file, one started earlier; an old file restored |
| clock | 2 nodes, largest counter 1, 4 stamps | the carry, and a received stamp that is itself carried |
| replicas | 2 nodes, 3 writes | two writes that tie in time, seen in both orders, and one after |
| connection | 2 transactions, 1 plain call, 2 savepoints, 2 statements | a statement queued behind a transaction that rolls back a savepoint |
| records | 1 note, 2 widgets, 1 organisation, 2 values, 3 calls, 4 operations | two calls competing over one row while a third finished between |
| endpoint | 3 calls, 1 peer | two `init` calls and a `dispose` |
| startup | 2 platforms, 7 manifests, 2 features per build | a build that is behind or changed, a version skipped, an optional dependency, a circle, two processes migrating at once |
| maintenance | 2 handlers, 2 rows, batches of one, 2 runs | a batch that is full, a handler that fails after it, a run beside it |
| import | 2 imports, files at, one past and two past the limit | the reader reads one row more than allowed and the heading |

### What the checked properties say

* `TrustedNeverExceeds`: what a trusted context may do with the roles it captured, a
  caller whose roles are read now may do as well.
* `DecidedOnce`, `MembersAreDecided`, `RevocationIsFinal`, `SyncImpliesWrite`: each request
  is decided once, by whichever of four operations; rows and approvals correspond; a
  revocation reaches every row there was; and whenever `canSync` admits a device,
  `requireActiveMembership` admits every user whom the row it read is for, in a context of
  the group's organisation.
* `OnlySignedNoncesBurn`: nonces across the await of a verification.
* `ContextIsCurrent`, `LayersAgree`, `SessionsAreEarned`: sessions in the service, in the
  application over it, and in the native store. The layers agree once the callbacks have
  settled; after a start that failed there is no platform session, whatever the page shows.
* `EndsForAReason`: a row fails with its attempts used up, for a permanent error, because its
  completion could not be recorded or for a corrupt payload, and completes because a
  handler of it returned in time.
* `AcknowledgedIsKept`: nothing drops an acknowledged envelope but a crash, the stop of the
  endpoint, a failing handler or pruning.
* `OutboxDrains`: a pending operation is sent or given up, or the outbox is blocked: by a row
  that does not validate among the oldest, as many as a batch takes, or by a sync task that
  a restart within the minute left `RUNNING`, whose unique key refuses every other.
* `OneDeviceIdentity`: key file, row and running processes name one key.
* `StampsAdvance`, `ReplicasConverge`: stamps follow what their node knows; replicas that
  saw the same writes hold the same value (for `lww`, and for `additive` as long as no
  value is absolute).
* `RowsAreAcknowledged`: between transactions the table holds what the resolved calls
  wrote, on both connections. `ConnectionIsAtomic`: what others see changes only when a
  call resolves.
* `OutboxReplaysNotes`, `DeletionsLeaveTombstones`, `ValuesAreUnique`: rows, outbox and
  tombstones tell one story.
* `SchemaIsHistory`, `BuildIsMigrated` (`ReadyIsMigrated` and `DependenciesFirst`): what
  took effect is what is recorded, without gaps; a platform that is ready found the core's
  migrations and all of its build's recorded, as the build has them; dependencies are
  migrated first, and a complete graph is refused only if it has a circle.
* `OneListener`, `SuccessMeansPruned`, `ImportsAreWhole`: lifecycles whose steps overlap,
  fail and are interrupted. Of an import, the tables hold what its definition wrote, all of it,
  exactly if the audit trail says that it completed.

### What the violated runs found

* `task_lease_kept`: the documentation says that leases of a crashed process expire
  and are reclaimed (`docs/02-architecture/background-tasks.md:68`). Recovery runs only
  in `Platform.init` and only on rows leased a minute before; a faster restart leaves
  the row `RUNNING` and its key taken until a later restart.
* `task_forked_poll`: `start()` after `stop()` while a poll awaits its claim leaves two
  loops, which exceed the concurrency (`packages/tasks/src/types.ts:141`) together.
* `task_attempts`: `maxAttempts` is the "Maximum number of execution attempts (including the
  first)" (`packages/tasks/src/types.ts:19`). Recovery makes an interrupted row `PENDING`
  without looking at it (`TaskQueueService.ts:476`), so a row whose process ended during
  its last attempt is executed again, once for every such end.
* `task_alert`: `onNonRetryableError` is called "only when a task has exhausted all retry
  attempts and is permanently in FAILED state" (`packages/tasks/src/types.ts:158`).
  `markFailed` also answers `willRetry = false` when it finds the row cancelled,
  recovered or leased again, and `TaskWorker.ts:274` then reports a failure of a row that
  is not `FAILED`.
* `replication_scheduler`: the scheduler's query asks for `status = 'pending'`
  (`crates/native-core/src/database.rs:136`), a value the table's CHECK never admits.
* `identity_members`: `approveMembership` always inserts
  (`packages/authorization/src/repositories/SyncGroupRepository.ts:85`), where its comment
  says "Insert or update member record". After a revocation and a second approval the
  oldest row, which `findMembershipStatus` and with it `canSync` read, is still the
  revoked one, while `requireActiveMembership` accepts the new one.

### What else the models show

Behaviours of the code no property forbids, which a reader of the models will meet:

* `approvePairing` sets a revoked device to `TRUSTED` when an administrator approves a request
  that was pending before the revocation, and `updateDeviceStatus` sets any status whatever
  the present one is; `approveDevice` would refuse. `identity-and-authentication.md:220-224`
  rules out "resurrection of revoked device identity".
* Two overlapping handshakes with one nonce are both accepted, since the nonce is recorded
  after the awaited verification; `HandshakeProtocol.ts:26`, `:200-201` and
  `synchronization.md:185` say that a nonce is not accepted again. `OnlyOverlapsReplay`
  proves that attempts which do not overlap keep that promise.
* A database error at the end of a task, of a sync or of a batch's reading is not retryable:
  the task is `FAILED` although its handler returned or attempts are left. An outbox row that
  does not validate stops every batch that it is in, and only rows that are `SENT` are pruned:
  once it is among the oldest, nothing is sent any more.
* An import whose definition reports fewer rows than were valid is `COMPLETED`
  (`ImportEngine.ts:376-387`); the count in the audit trail is the only trace.
* A second logout click, or a logout while the start still goes on behind a restored
  session, leaves the layers of the application apart (`raced` in `AppSession`). A start that
  fails after restoring a session leaves the user signed in on a page that has no platform
  (`usePlatform.tsx:188`).
* On the native connection `tx.query` throws, so services that read in a transaction work
  on the memory connection only; a savepoint open at the end loses its statements.
* `db.query` inside a transaction callback waits for the lock that the callback holds.
* In the transport, an `init` that finds the endpoint running while `dispose` awaits its
  stop ends with an endpoint that does not run; a `connect` in flight then leaves a peer.
* A checksum that does not match is found when its owner's turn comes: earlier owners
  have been migrated by then.
* A pruning handler that throws half-way is reported with no rows, so totals, and the
  `VACUUM` they trigger, undercount.
* `additive` passes registration if it comes before the declaration that the field is
  absolute, or is registered for the entity; `resolve` then refuses.
* A wrong password after an expired lockout locks the account again at once, since the
  expired lock resets nothing; a login that fails leaves the earlier session in force.
* Off Unix a crash between creating and writing the key file leaves a short file, on which
  every later start fails.

### Obligations of the host the models make visible

`AppliedOnce` is stated for one `applyPending` call at a time: two that overlap apply
a row twice, and nothing in `InboxService` excludes it. It also excepts the envelopes
whose effect was forgotten: a crash or a throwing statement between `applyFn` and the
update of the row re-applies it or marks it `FAILED`; `applyFn` must be idempotent.
`AcknowledgedIsKept` excepts what a peer lost between acknowledging and storing, by a crash,
by stopping its endpoint or by a handler that failed, which the sender has marked `SENT`.
`OutboxDrains` excepts an outbox that a row which does not validate, or an interrupted task
that recovery passed by, blocks.

### Fairness

Timers fire, promises of the database settle, and handlers honour their abort signal,
as `packages/tasks/src/types.ts:128` asks of them: weak fairness of each chain,
execution and `stop()`. A statement issued again and again does not fail for ever:
strong fairness of `PollClaim`. For replication, weak fairness of each run, frame,
event and pass, and a host that keeps asking for syncs (`HostSyncs`), which is what the
documentation leaves to it; `SchedulerSyncs` replaces the host by the scheduler's tick.
No crash, cancellation, stop, pruning or new work is ever assumed to happen.

## What is proved

`TaskWorkerProofs`, for any number of processes, rows, keys and chains, any retry
policy and any bound that satisfy `QueueAssumption` and `WorkerAssumption` (finitely many rows, at
least one attempt, natural delays, a jitter of at most one):

* `TypeCorrect`: `Spec => []TypeOK`, one lemma per group of actions.
* `DeduplicationCorrect`: `Spec => []OneActivePerKey`.
* `AttemptsCorrect`: `Spec => []AttemptsBounded`, what is left of the bound that `task_attempts`
  refutes: `max_attempts`, and once more for every later start of a process. Not inductive: `AttemptsInv` adds
  that a row that can still be leased has an attempt left, or a recovery has granted it.
* `LeasesCorrect`: `Spec => []LeaseExclusive`. `HeldInv` adds that no execution or
  claim is at a later attempt than its row has counted, so a new lease is at an attempt nobody holds.
* `AlertsCorrect`: `Spec => []AlertedLeaseIsOver`, what is left of the promise that `task_alert`
  refutes: the attempt that is reported is over. `OverInv` adds that a failure is
  decided on the row as it was at the failing attempt or a later one, so a write that
  finds the row at another attempt finds it at a later one still.
* `EndingsCorrect`: `Spec => []EndsForAReason`. `ExecReasonInv` ties what an execution is
  about to write to what its handler, or the recording of its success, has shown;
  `EndingStep` lists the only three writes that end a row.
* `ConcurrencyCorrect` and `StopCorrect`: `Spec => []ConcurrencyRespected` and
  `Spec => []StopWaitsForAll`, from one invariant of a worker (`WorkerOn`): one chain,
  which the last timer or the polling promise names (`OneChain`), a claim that asks for
  free slots only (`SlotsOn`), and a `stop()` that awaits that chain (`DrainInv`).
* `LifecycleImplemented`: `Spec => ImplementsLifecycle`.

The argument they share: `ReadInv` says of a `markFailed` between its read and its
write what the read established, and `EnqueueInv` the same of an `enqueue` before its
insert; with types they make `Aux`. `NextRowStep` then reduces every step of the system
to one of eight changes of the table (`RowStep`), about which the rest is proved.

`ReplicationProofs`, for any number of envelopes, peers, runs and passes, any limits, any
capacity of the channels and any number of faults, from `OutboxAssumption`,
`InboxAssumption` and `TransportAssumption` (envelopes are numbers, the limits are
positive, the absent envelope, peer and sender are none of the real ones):

* `ReplicationTypeCorrect`: `Spec => []TypeOK`. `EntryInv` adds that a run that
  dispatches or reports has an entry.
* `GivenUpCorrect`: `Spec => []GivenUpAfterAllAttempts`. `NextOutboxChange` reduces every
  step to one of four changes of the table; with types the property is then inductive.
* `RejectedCorrect`: `Spec => []RejectedHasNoEffect`. `VerifiedInv` adds that a pass
  holds verified rows only, though it read them some awaits ago.
* `AppliedOnceCorrect`: `Spec => []AppliedOnce`. `OnceInv` adds that what a pass holds
  is still PENDING, and that what has had its effect is settled or about to be marked.
* `AcknowledgedCorrect`: `Spec => []AcknowledgedIsKept`, inductive with types; an endpoint
  that stops moves what its channel held to `lost`.
* `DeliveryImplemented`: `Spec => ImplementsDelivery`. `ReachedInv` says that all a peer
  holds was accepted by its endpoint, so effects are of what arrived. `RunInv` says that
  a run which dispatches was acknowledged by every peer it no longer has to send to,
  and that a frame it still waits for is its last: so no late acknowledgement of another
  dispatch counts, and at "sent" every peer has the entry.

`ClockProofs` (`NodesAssumption`, `MaxSafeAssumption`, `CopiesAssumption`):
`StampsAlwaysAdvance`, for any clocks and any largest counter. `ClockInv` adds that a
node's reading is not behind any stamp it knows; `IncrementAdvances` is the carry.
`ReplicasAlwaysConverge`, for any number of nodes and writes in any orders. `ReplicaInv`
says what a node's copy is of the writes it took (`Holds`): one that no other is newer
than, or under `additive` their sum. The sum of a set is stated without recursion, as the
last value of a running sum over the payloads (`AddsUpTo`); that two running sums of one
set agree, and that one more write adds its payload, is proved by taking the least payload
at which they would not.

`PlatformProofs` (`UndefinedAssumption`, `ImportAssumption`, `MaintenanceAssumption`,
`ManifestsAssumption`): `OneListenerAlways`. `EndpointInv` says that one
call at most is inside the guarded part of `init`, that the flag is set meanwhile, and what
`listeners` is at each of its awaits. `ImportsAreAlwaysWhole`. `Accords` says what events
and rows each position of an import goes with; files that parse have no row too many.
`SuccessAlwaysPruned`: `RunInv` says that what is left of the rows that were due is left to
a handler whose turn is still to come; a batch that is not full is all that was eligible,
for tables of finitely many rows. `SchemaIsAlwaysHistory`, for any manifests and any
processes: `Passed` says that what a platform read is still recorded and that every version
it has passed is, which is why the one it writes leaves no gap although other processes
have written since. `BuildsAlwaysMigrated`, for any dependency graph: `WalkFits` is the
invariant of the resolver's depth-first walk. Each frame of the stack depends on the one
above it, and what a feature on the stack depends on is in order, or left to follow, or in
the frame above; so a feature that is left with nothing to follow comes after all it
depends on, and a dependency met on the path closes a circle. `TurnInv` says that the owners
whose turn is over are recorded. That a turn runs all of an owner's migrations needs that
sorting loses none (`SortedKeepsAll`): versions differ, so the number of smaller ones is a
position that no other migration has. `ManifestsAssumption` is what `ManifestValidator`
and the TypeScript types give the resolver, lists, and that the core's migrations have a
version each.

`HandshakeProofs` (`SentAtAssumption`, `SkewAssumption`): `OnlyOverlapsReplay` and
`NoncesBurnBySignature`. `EarlierDiffer` keeps for an attempt that passed its checks that
what was accepted before it had another nonce.

`MembershipProofs` (`GroupOrgAssumption`, `CallersAssumption`): `DecidedOnceAlways`,
`RevocationAlwaysFinal`; with types, they are inductive together.
`MembersAlwaysDecided` and `SyncAlwaysImpliesWrite` rest on
`RosterInv`: rows are as many as approved requests, and of active groups only, which is
what `canSync` leaves out and `requireActiveMembership` asks. The row that `canSync` reads
is then one of those the other looks for, for every user it is for.

`DatabaseProofs` (`SavepointsAssumption`, `EditorsAssumption`, `IdsAssumption`): `RowsAlwaysAcknowledged`.
`ConnectionInv` ties the clients of the memory connection to SQLite's stack of savepoints:
the active ones are the transaction and those on the stack, each the parent of the next
(`Nested`), and the table is what the innermost began with and its buffer; so a rollback
to any of them restores what its parents wrote. On the native connection the active ones'
buffers wait and the table is what the resolved calls wrote.
`ConnectionAlwaysAtomic`: `ConnectionSpec => ConnectionIsAtomic`. Others see the table as
it was at `BEGIN` while a memory transaction is open, since their reads wait for the lock,
and the table as it is otherwise (`Visible`); `VisibleIsAcknowledged` says that this is
always what the resolved calls wrote, so that only the end of a call changes it.
`ValuesAlwaysUnique`, `DeletionsAlwaysEntombed` and `OutboxAlwaysReplays`: one editor at
most is in the database (`Holder`), and `RecordsInv` says at each of its awaits what it has
looked up and written so far; the three hold of what is committed (`Sound`) and of what
it will commit. That a longer outbox replays as the old one and then its last operation
(`ReplayedNext`) is proved by induction on its length.

`IdentityProofs` (`NativeSessionAssumption`, `NoneAssumption`, `AppCallsAssumption`;
authorisation needs none):
`ContextAlwaysCurrent`, where `PlaceInv` says which places a validation can be at and that
it holds a session; `LayersAlwaysAgree`, where `InitInv`, `LoginInv` and `LogoutInv` say at
each await of the three callbacks what the page, the service and the native store hold as
long as no calls raced, and `StartInv` what the start has registered, raced or not;
`TrustedIsCurrent`, which holds of every state of the tables because `requireTrusted` asks
for the roles again; `SessionIsEarned`, from an invariant of each call (`CallInv`: its
generation is nobody else's, and a password that passed was tried in time) and of each user
(`LockInv`: the lock runs from the last of the counted failures); `KeyIsShared`, where
`StarterInv` says what the file holds while a process writes it and after it, and
`OneWriter` that an unfinished file has one writer.

### Only model-checked

* Liveness (`task_fair`, `replication_fair`) and everything about `ENABLED`, which the
  proof system does not reach.
* What a recursive definition or a fold computes for every input: induction over data needs
  an operator for a parameter, which the provers cannot instantiate. Induction over a
  number, as in `ReplayedNext` and `ReplicasAlwaysConverge`, is reached through the least
  number that would be an exception; an algorithm whose loop is modelled step by step, as
  the resolver's, needs an invariant and no induction.

Every invariant and every action property of a passing run is stated by a theorem. Three
theorems state what no run checks, because the run of that matter refutes the stronger
promise, or because what is promised is more than they say: `AttemptsCorrect`,
`AlertsCorrect` and `OnlyOverlapsReplay`.

## What is left

To model next: a property for the one hazard that has none, `applyPending` calls that overlap.

### Not modelled

* `ConflictRegistry`'s custom resolvers (the host's), and the connection states of
  `SyncManager`: its `connect` fails closed and always ends in `ERROR`.
* `TaskWorker.reconfigure` and `register`: handlers and options are constants. A row that
  is recovered and claimed again by the process that still executes its older attempt is
  skipped by it (`TaskWorker.ts:200`); the model has that step and no property promises more.
* A `start()` of the native scheduler that overtakes its `stop()` runs two loops
  (`crates/background-core/src/lifecycle.rs:90`). They double the ticks, which the unique
  key of the sync task deduplicates.
* Export, statistics and listings, which only read; password hashing, signatures and
  canonical text, which are functions whose verdict is an input; logging; the barcode
  scanner's key buffer; presentation; the feature validator, a build tool.
