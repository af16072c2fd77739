# Verification of the asset platform

TLA+ models of the asset platform in this repository, model-checked with TLC
and proved with TLAPS. The platform stores a tree of folders and metadata
items for an organization (`services/asset-core`, Go, PostgreSQL, Kafka and an
S3-compatible store), and an access layer in front of it
(`services/access-core`, TypeScript) that authenticates, authorizes and caches.

Everything below is translated from the source at this commit. Line numbers
are in the `map` of `PROJECT.json`; paths are relative to `services/` unless
they start with `infra/`.

## 1. Inventory

### asset-core

| component | state it keeps | operations | talks to |
|---|---|---|---|
| **Upload sessions and quota** (`internal/usecase/media_usecase.go`, `internal/repository/media_repository.go`) | `media_upload_sessions`, `organization_media_usage` (`reserved_raw_bytes`, `stored_raw_bytes`), `metadata_items.pending_media_version_id` | create (with lazy reclaim of lapsed sessions), refresh of the credential, cancel, commit, the client's presigned PUT | object storage (HEAD, presign), the outbox (commit inserts a row) |
| **Quarantine sweep** (`usecase/media_purge.go`, `repository/media_purge.go`, run by every media worker) | `raw_object_purged_at`, `raw_retained` | expire lapsed sessions; list reclaimable uploads; delete derivatives and the raw object; mark and release | object storage, the ledger |
| **Media processing** (`usecase/media_worker.go`, `media_rendition.go`, `media_lease.go`, `repository/media_job_store.go`, `media_promotion.go`) | `media_processing_jobs` (status, attempts, lease), `asset_media_versions`, `media_outputs`, the active/pending pointers | claim, renew, render, store derivatives, promote, reject, settle a failure, recover a dead last attempt | object storage, Kafka, the outbox |
| **Outbox, relay, reconciler** (`repository/media_outbox_store.go`, `eventing/outbox`) | `media_job_outbox` (published, lease, attempts) | publish, mark published, reconcile stale dispatches | Kafka |
| **Notification consumer** (`eventing/kafka/reader.go`, `eventing/consume/consumer.go`, `repository/media_notification.go`) | the consumer group's offsets, the attempts of the record in hand | fetch, deliver, commit the offset, back off, stop when stalled, quarantine poison | media worker, dead-letter topic |
| **Isolation and replay** (`repository/media_dead_letter.go`, `eventing/outbox/replay.go`) | `notification_isolated_at` | isolate the job a poisoned notification names; replay it | jobs, outbox |
| **Recycle bin and permanent purge** (`repository/asset_repository_restore.go`, `lifecycle_purge_repository.go`, `cmd/asset-delete-worker`) | tombstones, `asset_lifecycle_units`, `asset_lifecycle_jobs`, `asset_lifecycle_purge_objects` | delete, restore, queue purge after retention, record the manifest, delete objects, mark them, finalize rows | ledger, object storage, versions and sessions |
| **Lifecycle jobs and folder deletion** (`repository/folder_deletion_repository.go`, `lifecycle_restore_repository.go`, `lifecycle_cleanup_worker_repository.go`, `deletion_fence.go`) | `asset_lifecycle_jobs` (lease, attempts, next attempt), legacy `folder_deletion_jobs`, units' states and visibility | preview, confirm, cancel, retry; claim, batch, complete, fail; restore in batches | catalogue writers (fence), purge worker |
| **Retention scheduler** (`cmd/asset-retention-scheduler`, `repository/lifecycle_cleanup_scheduler_repository.go`) | the last run and its lock | one run a day across replicas | lifecycle jobs |
| **Catalogue** (`repository/asset_repository*.go`) | `folders` (adjacency and path), `metadata_items`, search columns | create, update, move, delete, list, search, import | asset events |
| **Asset events** (`eventing/publisher.go`) | none: one `XADD` after the commit, best-effort | publish a move, a deletion, a restore | the Redis stream |

### access-core

| component | state it keeps | operations |
|---|---|---|
| **Resilience of asset calls** (`src/clients/assetBreaker.ts`) | state of the wrapped opossum breaker, its pending probe, the reset timer, the in-flight count | admit, answer, fail, abort at the deadline, open, half-open |
| **Event-driven cache invalidation** (`src/eventing/cacheInvalidator.ts`, `effects.ts`) | the stream's consumer group and pending entries, processed markers, the dead-letter stream, the asset epoch | create the group, scan and claim stale entries, read, apply the effect, acknowledge, dead-letter |
| **Authorization** (`src/authz/authorizationService.ts`, `src/cache`, `src/usecase/objectPermissionService.ts`) | epochs of user, role and asset; cached decisions; cached hierarchy facts; single flights | load the role set, evaluate an action, read and write the caches, grant and revoke with a bump afterwards |
| **API surface** (GraphQL and REST) | none of its own | parse, delegate, format |

### How the parts meet

* A commit is the hand-over from upload to processing. One transaction creates
  version and job, sets the pending pointer, moves the reservation to stored
  bytes and inserts the outbox row.
* The relay turns rows into Kafka messages, at least once. A message carries
  no authority: a worker acts only on what its claim of the job's row says.
* Workers hold a lease, fenced by owner and exact expiry, and talk to storage
  outside any transaction while they hold it.
* The sweep, the purge of an asset, the workers and the requests share the
  object store with no lock around it. What keeps them apart is time
  (quarantine, lifetime of a credential, hard deadline of a job) and the
  markers set under row locks afterwards.
* Deletion of the asset does not stop its uploads or its jobs. They find out
  when they next take the row lock.
* Many jobs share a partition: a record that cannot be settled is retried in
  place, and those behind it wait.
* Catalogue changes are announced on a Redis stream, best-effort. The
  invalidators of access-core read it as one group and bump the asset epoch,
  which is part of the key of every cached decision and fact.
* Access-core asks asset-core for the ancestors of a folder through the
  breaker; what it learns is cached twice, as a fact and inside a decision.

### What is hard

The full list is under `hazards` in `PROJECT.json`, each at its line, with the
properties that cover it. In groups:

* *A check and its use are apart.* Commit and refresh look at storage before
  they open the transaction that acts on it; the sweep and the purge list,
  delete, then mark.
* *One ledger, many writers.* Two counters are charged or released by create,
  lazy reclaim, cancel, expiry, commit, sweep and purge.
  `GREATEST(x - y, 0)` would hide a double release.
* *Late effects.* A presigned URL outlives its session; a worker outlives its
  lease; a restore meets a purge that has begun.
* *At-least-once everything.* Rows are published twice, messages redelivered,
  leases taken over, jobs isolated and replayed.
* *Commit outcome unknown.* An error from a commit does not say that it failed.
* *Something must eventually happen.* Reservations are released, garbage is
  reclaimed, jobs are settled.
* *Long operations over a tree in use.* A folder is deleted, restored or purged
  in batches over many transactions, while items are created, folders moved
  and tombstones restored, and the worker may change in the middle. A batch
  passes over what somebody has locked, and the sample import writes without
  the organization's lock and without asking for the fence.
* *Snapshots.* A unit records a path; folders move and carry their tombstones
  with them.
* *One order for many.* An offset commits everything before it: the record of
  one job decides about the wake-ups of others, and a rebalance starts the new
  owner where the old one has not yet stopped.
* *Caches with best-effort invalidation.* Bumps and events may be lost, late or
  applied twice; flights are shared by callers that read different epochs; a
  failed epoch read yields an epoch that existed.
* *Late answers and timers.* A call outlives the breaker's decision to open; a
  body may never end.

### What makes each component correct

* Sessions and quota: the counters are exactly the bytes held; never above the
  quota; one upload in flight per asset; a closed session stays closed; every
  reservation is released.
* Sweep: never takes an accepted original; leaves nothing behind what it has
  marked; reclaims everything abandoned.
* Processing: job, version, outputs and pointer agree; an outcome is final; a
  version is only given up on rejection or after all attempts; a job is
  settled; a completed version has its derivatives.
* Outbox and consumer: a job that has to run has a wake-up on its way.
* Purge: the ledger and the pointers stay exact; a live item keeps its
  original; a purged one leaves nothing in storage.
* Lifecycle jobs: the three records of a job agree; a tombstone belongs to a
  unit and a live folder to none; only tombstones under purge are removed; the
  folder of a bin entry is its tombstone; the fence keeps writers out of a
  subtree being deleted, and the closed gate keeps imports out; every job ends.
* Notification partition: an offset loses no wake-up and no poison record; what
  is isolated is reported; the partition drains.
* Asset events: what is acknowledged bumped the epoch or is a dead letter; what
  is published gets there.
* Authorization: a grant change that was announced is seen by evaluations that
  begin afterwards; a decision is never given to another role set; the age of
  what an answer rests on is bounded when announcements are lost.
* Breaker: only the probe decides about a half-open breaker; one probe at a
  time; nobody is refused for ever.

## 2. Modules

| module | what it is |
|---|---|
| `ByteSums` | sums of byte counts over sets of uploads, written as the cardinality of a set so that they can be proved about |
| `QuotaLedger` | abstract specification: what the ledger of an organization promises |
| `MediaUpload` | upload sessions, quota, storage, sweep, deletion, restore and purge |
| `MCMediaUpload` | its symmetry sets for TLC |
| `MediaJob` | one processing job: outbox, relay, Kafka partition, workers, leases, execution, isolation, replay, reconciler |
| `MCMediaJob` | its symmetry sets for TLC |
| `LifecycleJobs` | the recycle bin: the tree, units, jobs, delete workers, catalogue operations behind the fence, and the sample import, which is not |
| `MCLifecycleJobs` | its tree and symmetry set for TLC |
| `NotificationPartition` | one partition of the notification topic, several jobs and workers |
| `MCNotificationPartition` | its symmetry set for TLC |
| `AssetEvents` | publisher, Redis stream, consumer group and cache invalidators |
| `MCAssetEvents` | its instance for TLC |
| `DecisionCache` | evaluations of one action, decision and fact caches, flights, writers and bumps |
| `MCDecisionCache` | its symmetry set for TLC |
| `AssetBreaker` | admission, deadlines and the circuit breaker |
| `MCAssetBreaker` | its instance for TLC |
| `MediaUploadTheorems` | the sums, type correctness, the ledger, and that `MediaUpload` implements `QuotaLedger` |
| `MediaObjectTheorems` | the pointer, one upload in flight, finality, the accepted original, purged storage |
| `MediaJobTheorems` | type correctness, outcomes and wake-ups |
| `LifecycleJobsTheorems` | agreement of the records, tombstones and removals, paths, roots of the bin, the fence, the way of imports |
| `NotificationPartitionTheorems` | types, wake-ups and quarantine |
| `AssetEventsTheorems` | types, acknowledged events, absorbed redeliveries |
| `AssetBreakerTheorems` | types, the count and the probe |
| `DecisionCacheTheorems` | types, announced grant changes, role sets and the age of answers |

`MediaUpload` and `MediaJob` split at the version. In `MediaUpload` a pending
version is completed (if a derivative is stored and the pointer names it) or
failed at any moment, and derivatives come and go while a worker may still be
running; this allows every behaviour of the workers that `MediaJob` details.
`MediaJob` in turn sees of the asset only whether it is live.

`MediaUpload` and `LifecycleJobs` meet at the purge of an item. `MediaUpload`
has what the purge does to one item's objects and rows, step by step;
`LifecycleJobs` has what leads to it, and sees of those steps the pick of an
item (`PurgePick`) and the removal of its row (`PurgeItem`).

`NotificationPartition` sees of a job what the partition needs (can it be
claimed, who leases it, will a row announce it), and has what `MediaJob` leaves
out: other jobs in the same log, offsets, redelivery in place, the assignment
of the partition. `AssetEvents` ends at the asset epoch, and `DecisionCache`
begins there: its bump of the asset epoch is an event applied, at any time
after the commit, twice or never. `DecisionCache` takes an answer or an error
of asset-core as it comes; what the breaker does to produce one is
`AssetBreaker`.

### MediaUpload and the code

The variables are columns, one function per table, indexed by upload or asset.
`state`, `bytes`, `expires`, `credential`, `purged` are the columns of
`media_upload_sessions`; `version`, `retained` those of
`asset_media_versions`; `reserved`, `stored` the usage row; `raw`, `derived`
are the bucket; `manifest`, `marked` the purge-object table. `request`,
`sweep` and `purger` are the only volatile variables: what a handler, a sweep
pass or a purge worker remembers while it is outside a transaction.

* A PostgreSQL transaction is one action. Every one of them locks the rows it
  decides on (`SELECT ... FOR UPDATE` on the asset, session or usage row), or
  is a single guarded `UPDATE`.
* `Create` is all of `CreateUploadSession`: the lapsed sessions of the asset
  are expired and released in the same transaction, before the quota check.
* `BeginRequest` then `FinishRefresh`, `FinishCommit` or `EndRequest`: the
  storage check and the transaction, with anything in between.
* `Put` asks nothing of the session; the credential's lifetime and
  `If-None-Match: *` are the only guards.
* `SweepClaim`, `SweepDeleteDerived`, `SweepDeleteRaw`, `SweepMark`,
  `SweepAbort`: the pass over one entry of a batch, which may fail between any
  two steps. `versioned` and `bytes` are remembered from the listing, as in
  the code.
* `StartPurge`, `PurgeList`, `PurgeDelete`, `PurgeMark`, `PurgeFinalize`,
  `PurgeDone`, `PurgeAbort`: the purge job of one item, from its queueing
  after the retention period to the end of its unit.
* Uploads are identified by idempotency key: the row is unique per
  (asset, requester, key), and a repeated create is a read.
* `CompleteVersion`, `FailVersion`, `WriteDerivative`, `DiscardDerivative` are
  what `MediaJob` does, seen from here. `WorkerMayBeRunning` is the hard
  deadline of a job: the time after which a superseded execution is cut off.

### MediaJob and the code

One job, because claims and settlements touch the rows of one job only and
the property is about each job. `holder`, `attempt`, `renewal`, `leaseLive`
stand for `lease_owner` and `lease_expires_at`: attempt and renewal number
identify the exact expiry that fences every write. `row` is the job's
unpublished outbox row (a partial unique index allows one); `backlog` counts
published messages not yet committed. Two relays may hold the same row after
a row lease has run out; what that does is a second publication, which
`RelayPublish` allows whenever the row is not marked.

A worker is a record of where it is in `ProcessNotification` and `Execute`.
Each step is one call to the database or to storage, so a lease can run out,
a job can be isolated, an asset deleted between any two. `acknowledged` is the
case split on a commit whose answer is lost. `Abandon` is a crash, a drain or
a lost renewal. `Discard` may fail silently for each object, as the code logs
and goes on.

### LifecycleJobs and the code

One organization. What keeps transactions on its tree apart is of three kinds:

* Confirmation, cancellation and retry of a deletion, every restore and its
  batches, the transactions of a purge and the cleanup take the organization's
  advisory lock exclusively (`lockOrganizationDeletion`).
* Creation, update, move and single deletion take it shared
  (`lockOrganizationWrite`), so none of them overlaps one of the former.
* A batch of a deletion takes none; it locks the rows it selects, passing over
  those that are locked, and the job. The sample import takes none either.

Each of the first two kinds, and a batch, is one step. Two shared writers may
overlap in the code, and a folder created below one that is being moved may
then keep the path it had: that interleaving is left out, but folders with
such a path are not, since the import makes them. The import is taken apart
into its statements.

`node`, `path`, `place` and `member` are `deleted_at`, `path`, `folder_id` and
`lifecycle_unit_id` of folders and items (a row that an import has not
committed is `inserted`); `state`, `root`, `rootPath` the columns of a unit;
`job` its latest row of `asset_lifecycle_jobs` and `legacy` the status of the
`folder_deletion_jobs` row beside a deletion. A unit has one unfinished job at
most (a unique index), and one that has ended is followed by at most one
other, so the latest stands for all. Volatile are `worker`, which job a delete
worker believes it has and which item it is purging, and `import`, what a
transaction of the import has read and written.
Three operators name the code's helpers: `CloseGate` (the tombstone of the root
that hides the subtree), `CloseEntry` (a unit in the bin whose root is restored
is closed) and `CompleteDeletion`. The starting paths are a constant with an assumption
(`ForestAssumption`); afterwards only the code's own moves write paths.

* `Catalogue`: creation of a folder or an item, moves of folders (tombstones
  below them move too), deletion of an item or an empty folder, restore of one
  tombstone. Each has the visibility check and the fence the code has, no
  others.
* `Importing`: `ImportSampleTransaction` under READ COMMITTED, so every
  statement sees what others have committed by then. `ImportFolder` finds the
  next folder of a chain below the path it has read, `ImportNewFolder` makes it
  there, `ImportItem` looks an item up without a lock, `ImportWrite` inserts it
  or updates its row (whatever became of it since), `ImportCommit` shows what
  was written, `ImportAbort` takes it back. `Accepts` is the trigger of V6 on
  `metadata_items` and the foreign key of `folder_id`. An item that was read
  live keeps its unit; one that was read deleted leaves it. Only an import
  moves an item between folders. A transaction of the model goes down one chain
  and writes one item.
* `Locked`: the rows an import has written, and the folder its item has come
  into (the foreign key holds that row). Who asks for them waits, which is a
  guard, or skips them.
* `Requests`: `Confirm` is a preview and its confirmation; the confirmation
  compares path and counts under the lock, so only a preview that still
  describes the tree gets through. `QueuePurge` is one unit of a cleanup batch;
  retention may have ended or not.
* `Claim`: the oldest job that is due or whose lease is over. `SKIP LOCKED`
  lets a worker pass an older job only if another transaction may hold it:
  another worker's, or a cancellation. A claim that finds its unit not
  startable is rolled back, so it is no step at all.
* A batch is any nonempty set of members that respects the order of the
  query; batch sizes are a special case. `Contended` are the rows, folders as
  well as items, that another transaction (media, a request, an access check)
  may hold when a batch selects with `SKIP LOCKED`; a batch may or may not see
  them (`Skippable`), and it never sees what an import has locked. A deletion
  ends as soon as all that is left is skipped (`DeleteDone`).
* `Fail`, `ClaimExhausted`, `Drop`: bounded retry; the last attempt that died;
  a worker that crashed or found its claim lost.

### NotificationPartition and the code

`log` are the records of the partition, a notification of a job or a poison
record that names a job or none; `committed` is the group's offset, `position`
what the assignment has fetched, `owner` the member it is assigned to. A worker
is where it is in `Reader.Run`: the record in hand and the deliveries that
failed. Which rule a poison record breaks (size, JSON, version, type, key, state
in the database) is left out.

* `Fetch`, then `Reject` or one of the outcomes of `ProcessNotification`, then
  `Commit`. `LeaveUncommitted` is the retry in place, and after
  `MaxDeliveryAttempts` the end of the process (`ErrDeliveryStalled`).
* `Reject`, `Isolate`, `DeadLetter`, `Commit`: the quarantine, in the order of
  the code. A crash between any two repeats it.
* `Commit` of a worker that lost the partition may still move the offset, also
  backwards; or it is refused (`CommitRefused`) and the process ends.
* `Assign` resumes at the committed offset. The former owner keeps its record.
* `Delete`, `Restore`, `Purge`, `Replay`, `LeaseExpires`, `BecomeDue`: what
  others do to the jobs while their notifications wait.

### AssetEvents and the code

`stream`, `group`, `cursor`, `pending`, `marker`, `epoch` are what Redis holds;
`bumps` and `dlq` count what was done for an event. A worker is where it is in
the loop of `startCacheInvalidator`, and the rest of the batch it goes through.
Each Redis command is one step; the Lua script of `applyLifecycleEffect` is
one command. Whether an entry is dead is decided by the count the scan
reported, as in the code, although claims of others may have raised it since.

* `EnsureGroup` runs once per process and its error is ignored. Without the
  group every later command of that process fails until another has made it.
* `CommandFails` drops the rest of the batch. `Disconnect` is final, because
  `retryStrategy` answers null; only `Restart` helps.
* `GoIdle` makes an entry claimable although its consumer may only be slow.

### DecisionCache and the code

One user with one role, one organization, one folder. The value of a piece of
data (role set, grants of the user, grants of the role, place of the folder) is
its version number; what a set of grants allows is left out, because the
properties relate an answer to the versions it rests on. Epochs are counters;
`bumped` remembers what each bump announced and `floor` what had been announced
when an evaluation began: both are history. `age` is the time since the place
was read.

* `Commit` and `Bump`: writers commit first and bump afterwards. A bump still
  due may never happen; one of the asset epoch may happen twice.
* `Begin`, `ReadEpochs`, `DecisionHit` or `DecisionMiss`, `QueryGrants`,
  `ReadFactEpoch`, `FactHit` or `FactMiss`, `WriteFact`, `QueryAncestors`,
  `WriteDecision`, `Return`: `evaluateCanDo` from await to await. A direct
  grant may decide without the ancestors.
* `Resolved` hands the decision to everyone who waits for the same key; each of
  them writes it under that key. `FetchLand` and `FetchFail` do so for the
  folder's request, whose flight is keyed by the folder alone.
* `Unread`: an epoch that Redis does not give is 0, which is also the epoch
  before the first bump.
* `Tick` ages what is held and expires entries. An evaluation lasts at most
  `MaxHold` ticks.

### AssetBreaker and the code

`state`, `pendingClose` and `resetIn` are the wrapped breaker's, `inFlight` the
controller's. The process has one thread, so an action is what runs between
two awaits: admission, count and call are one (`Fire`), the outcome reaches the
breaker (`Succeed`, `Fail`, `Abort`) before the `finally` block gives the slot
back (`Finally`). Whether a failure crosses the thresholds of the rolling
statistics is a choice. `Tick` waits for timers that are due and for
microtasks, as the event loop does; the runtime's delay of a timer is covered
by the safety margin of `validateResetTimeoutMs`, in the model a tick.

## 3. Runs

| run | instance | shows |
|---|---|---|
| `upload_races` | 1 asset, 2 uploads, 2 clients, 2 sweepers, storage without digest check | `LedgerExact`, `AcceptedOriginalKept`, `PurgedStaysEmpty`, `OneUploadInFlight`, `ClosedStaysClosed` with two handlers between check and transaction and two replicas sweeping |
| `upload_purge` | 1 asset, 2 uploads of sizes 1..2 under quota 3, retention short enough for a purge; 1.8 million states | `PendingPointerExact`, `QuotaRespected` and `ImplementsLedger` (the tables implement `QuotaLedger`) through delete, restore and purge, with a sweeper running |
| `upload_liveness` | 1 asset, 1 upload, all components, fairness | `ReservationReleased`, `GarbageReclaimed` |
| `upload_restore` | 1 upload, with purge | violated: see the finding |
| `job_safety` | 2 workers, 2 derivatives, 2 attempts, 1 renewal, backlog 2 | `OutcomeConsistent`, `OutcomeFinal`, `NoLostWakeup`, `GivenUpOnlyWhenExhausted` |
| `job_liveness` | 1 worker, 1 derivative, 2 attempts, fairness | `JobSettles` |
| `lifecycle_workers` | a folder in a folder, 2 items, 1 unit, 2 workers, 2 attempts, a folder and an item that may be locked, fairness; 46 thousand states | `RecordsAgree`, `OnlyTombstonesPurged` and `JobsFinish` with two workers over one job |
| `lifecycle_overlap` | a folder in a folder, 1 item, 2 units, 1 worker, 1 import at a time, 1 job, a folder and the item that may be locked; 402 thousand states | `TombstonesOwned`, `BinEntryExact`, `Fence` and `GateClosedToImports` with a deletion around or inside another, and an import beside them |
| `notification_partition` | 2 jobs, 2 workers, 2 deliveries, 2 attempts, 1 poison record, 1 fault, fairness; 304 thousand states | `WakeupKept`, `QuarantineReported`, `PartitionDrains` |
| `events_delivery` | 2 events, 2 invalidators, batches of 2, 2 deliveries, 2 failures, 1 expired marker, fairness; 207 thousand states | `AckedIsSettled`, `RedeliveryAbsorbed`, `PublishedIsSettled` with overlapping claims, lost connections and restarts |
| `cache_freshness` | 2 evaluations, 1 change of any piece, 1 bump per epoch, the user epoch unreliable, TTLs of 1 and 2 ticks; 3.4 million states | `GrantChangeSeen`, `OwnRoleSet`, `ExposureBounded` |
| `asset_breaker` | 4 calls, capacity 3, deadline 3, reset 4, fairness; 15 thousand states | `OnlyProbeDecides`, `OneProbe`, `AdmitsAgain` with late answers and stalled bodies |

### Bounds, and why they are enough

* `MaxTime` (2 or 3) bounds the clock. The durations are the smallest that
  keep their order: a credential of 1 inside a session of 2, quarantine and
  deadline of 1. At 3, a session can lapse, be closed, sit out its
  quarantine and be reclaimed. `Retention = 9` switches the purge off in the
  runs that ask about something else; it is on in `upload_purge`,
  `upload_liveness`, `upload_restore` and `MediaUpload_manifest.cfg`.
* Two uploads of one asset is what the in-flight rule is about, and lets the
  second reserve what the first released. Sizes 1..2 under quota 3 make the
  quota bind in both orders; `MediaUpload_quota.cfg` asks the same of two
  assets.
* Two sweepers or two clients: every race in this code is between two actors
  over one row. A third repeats the roles.
* `MaxAttempts = 2` has a first, a retried and a last attempt. `MaxRenewals =
  1` has a stale and a current expiry. `MaxBacklog = 2` has a duplicate. The
  broker loses messages at most once (`lost`), which is enough to separate
  what the outbox guarantees from what the reconciler adds.
* `LifecycleJobs`: the unit is what its runs need one or two of. Overlap takes
  two units, one root inside the other; the races of workers take one unit and
  two workers, those of imports one job and one import at a time (any number
  one after the other), which meets the deletion, the batches and the restores
  of single rows. Four configurations beside the runs vary this:
  `LifecycleJobs_units.cfg` has two units with all their jobs and no import,
  `LifecycleJobs_imports.cfg` the jobs of `lifecycle_workers` with one worker
  and an import, `JobsFinish` included, `LifecycleJobs_paths.cfg` three folders
  with an import, so that one is left at a path its parent has left, and
  `LifecycleJobs_moves.cfg` the safety part of `lifecycle_workers` with a third
  folder, so that moves change the path of a tombstone. In the passing runs a
  folder and an item may be locked whenever a batch selects. Nothing counts
  without bound: jobs are bounded by `MaxJobs`, attempts by `MaxAttempts`.
* `NotificationPartition`: two jobs are a record and its neighbour; one poison
  record may name either job or none; `MaxFaults` bounds duplicates, crashes,
  rebalances, failed calls, lost leases, replays and deletions together.
  `NotificationPartition_faults.cfg` checks the invariants with two of them.
* `AssetEvents`: two events make a batch with a rest to drop; two failures are
  a lost connection after a refused command. `AssetEvents_markers.cfg` adds an
  unsupported event, and asks `PendingDrains` too.
* `DecisionCache`: one change is what can be missed. Two evaluations share a
  flight and a cache entry, and can be old and new in each. With TTLs of 1 and
  2 the copy of an old fact into a decision is the worst case of
  `ExposureBounded`.
* `AssetBreaker`: a call of before the opening, its neighbour, a probe and a
  fourth caller; the reset timeout one tick above the deadline, the smallest
  that the validation accepts, and a capacity that can bind.
* Uploads, sweepers, clients, assets, units, workers, evaluations and
  derivative kinds are symmetric: nothing orders them. No run with a liveness
  property uses symmetry.
* `CHECK_DEADLOCK FALSE` in the upload runs: at `MaxTime` with every upload
  used, the model stops. So does `LifecycleJobs` when everything has been
  purged, `NotificationPartition` when all jobs are settled and the log is
  consumed, and `AssetEvents` when every invalidator started over without a
  group and no failure is left that would restart one. `MediaJob`,
  `DecisionCache` and `AssetBreaker` never stop, and deadlock is checked there.

The safety facts do not depend on these bounds: every invariant and every action
property of the passing runs is also proved (section 4). `MaxTime`,
`MaxRenewals`, `MaxBacklog`, `MaxFaults`, `MaxChanges` and the like appear in
the theorems as arbitrary numbers.

### Fairness, and what in the code justifies it

* `MediaUpload`: the clock moves on; the sweep's ticker runs for as long as
  the worker process lives, and it expires sessions first (weak fairness of
  `Close(u, "expired")`). A pass can be cut short by a storage error
  (`SweepAbort`), and each pass lists again from the start, so a step that is
  offered again and again is eventually taken: strong fairness of the sweep's
  own steps. Nothing is assumed of clients, of workers or of the purge.
* `MediaJob`: relay, reconciler and workers are loops restarted with their
  process; leases and delays run out. Weak fairness of each. Nothing is
  assumed of renewals, of crashes, of isolation or of the operator.
  `JobSettles` is conditional on what those may do for ever: an asset that in
  the end stays live, an isolation that is replayed, and no isolation in the
  last attempt (see `MediaJob_replay.cfg` below).
* `LifecycleJobs`: a worker polls for as long as its process lives, so it
  claims the oldest job when it may (weak fairness of a claim with nothing
  older; none of a claim past a locked row), and a batch is done, fails or is
  dropped. The lease of a job that nobody works on runs out; a delay passes.
  Nothing is assumed of requests. `JobsFinish` excepts what can hold the queue
  up for ever: a claim refused again and again (`LifecycleJobs_headofline.cfg`)
  and an operator who retries without end.
* `NotificationPartition`: processes run and are restarted, the group assigns
  the partition to a running worker, the relay publishes, leases run out and
  retries become due. Nothing obliges an asset to be restored or purged, nor
  an operator to replay; so `PartitionDrains` is about behaviours in which no
  job stays stuck.
* `AssetEvents`: the loops run and entries grow idle. Nothing obliges anybody
  to publish or to restart an invalidator; so `PublishedIsSettled` supposes
  that in the end one of them keeps its connection.
* `AssetBreaker`: timers fire and microtasks run. Nobody is obliged to call nor
  asset-core to answer.
* `DecisionCache` states no liveness, and needs no fairness.

### Finding

**A restore during a purge** (`upload_restore`). `RestoreMetadataItem` clears
the tombstone whatever the unit is doing, and `completeLifecycleRestore` does
not look at how many rows it changed. A purge with its manifest recorded goes
on: the live item loses its original, then its media rows.

### Further disagreements

These are not among the regular runs. Each has a property in its module, whose
comment says what one would expect (and quotes it where the repository says
so), and a configuration with which TLC finds it violated.

| configuration (module) | property | what happens |
|---|---|---|
| `MediaUpload_manifest.cfg` (`MCMediaUpload`) | `PurgeLeavesNothing` | The purge manifest lists derivatives through `media_outputs`, which only a promotion writes. Derivatives of a version that was pending or failed outlive the asset. |
| `MediaJob_discard.cfg` (`MCMediaJob`) | `CompletedHasDerivatives` | The worker takes any error of the promotion for a failure, a lost acknowledgement included, and deletes the derivatives it has just published. |
| `LifecycleJobs_cancel.cfg` (`MCLifecycleJobs`) | `CancelSafe` | A deletion that is queued again after some batches can be cancelled; the members deleted so far stay tombstones of a restored unit. |
| `DecisionCache_ceiling.cfg` (`MCDecisionCache`) | `TTLCeiling` | "The 4s cache TTL is the sole correctness backstop for a lost post-commit epoch bump" (`cache/config.ts`), but a fact about to expire is copied into a decision that lives for another TTL. |
| `DecisionCache_move.cfg`, `DecisionCache_restore.cfg` (`MCDecisionCache`) | `MoveSeen` | "Bumping epoch:asset after a move stops inheriting from the old ancestor" (`moveOut.test.ts`), but the request for a folder's place is joined whatever the epoch, and a restore reads the ancestors before the epochs. |
| `DecisionCache_failopen.cfg` (`MCDecisionCache`) | `FailedReadMisses` | A failed epoch read is to be "a cache miss" (`cache/epoch.ts`), but 0 is the key of what was cached before the first bump. |
| `NotificationPartition_neighbours.cfg` (`MCNotificationPartition`) | `NeighboursUnaffected` | A job whose asset is deleted, or that is exhausted in the queue, is never acknowledged; the reader stops at its record and every job behind it waits. |
| `MediaJob_replay.cfg` (`MCMediaJob`) | `ExhaustedQueuedJobMovesOn` | A job isolated in its last attempt and replayed is `queued` with all attempts used. It can neither be claimed nor recovered nor acknowledged. |
| `LifecycleJobs_locked.cfg` (`MCLifecycleJobs`) | `BinEntryComplete` | "The entry remains non-visible in the Recycle Bin until the worker tombstones every active member" (`folder_deletion_repository.go`), but a batch that selects with `SKIP LOCKED` and finds nothing ends the deletion; a folder or an item whose row another transaction held stays live below a complete entry of the bin. |
| `LifecycleJobs_import.cfg` (`MCLifecycleJobs`) | `ReimportClosesEntry` | A re-import "must therefore close the old live Recycle Bin root" (`asset_repository_import.go`), but the row is read without a lock: if it was live then and is deleted before it is written, the update clears `deleted_at` and neither `lifecycle_unit_id` nor the unit. The row is live, its entry is still in the bin. |
| `LifecycleJobs_restore.cfg` (`MCLifecycleJobs`) | `HiddenWhileRestoring` | `RestoreFolder` reopens the root while the queued restore of its unit is waiting or running. |
| `LifecycleJobs_headofline.cfg` (`MCLifecycleJobs`) | `BoundedRetry` | A claim that finds its unit not restorable (after the above, or because the parent is gone) rolls back, counts no attempt, and meets the same job at the next poll, before all others. |
| `LifecycleJobs_purge.cfg` (`MCLifecycleJobs`) | `PurgeComplete` | After a move of an ancestor the purge looks where the members were, finds none and completes. |
| `LifecycleJobs_hidden.cfg` (`MCLifecycleJobs`) | `OnlyVisibleDeleted` | Preview and confirmation of a deletion look at the folder's own tombstone only, so what is hidden can be deleted. `Fence` excepts a unit inside one that has a restore job (`RestoredAround`), because the restore of the outer unit is not fenced by the deletion of the inner one. |

The event model's runbook also says that an event is moved to the dead-letter
stream "at five failed processing attempts". What the code counts is
deliveries, as the scan reported them: an entry whose claims were followed by a
crash, or that several slow invalidators took from each other, is dead-lettered
without having failed. `AckedIsSettled` holds nevertheless, because a dead
letter is one of the two ends.

## 4. Proofs

All proofs are checked by TLAPS (SMT, Zenon, LS4). They assume what the
modules declare: `ConfigAssumption` (`media_config.go` `validate`: sizes and
durations positive, a credential does not outlive its session),
`IdentityAssumption` (finitely many uploads, NULL is none of the identifiers),
`JobAssumption` (a positive attempt limit; NULL is not a worker),
`TreeAssumption` (items are in folders; rows, units and workers are told apart
from NULL; finitely many workers; a positive attempt limit),
`ForestAssumption` (the starting path of a folder is its parent's followed by
the folder, so the folders start as a forest of any depth),
`PartitionAssumption` (positive limits, NULL is neither worker nor job),
`EventsAssumption` (positive delivery limit and batch size),
`BreakerAssumption` (the reset timeout is above the deadline, as
`validateResetTimeoutMs` demands) and `BoundsAssumption` of `DecisionCache`
(jitter below each TTL).

| theorem | module | establishes |
|---|---|---|
| `TypeCorrect` | `MediaUploadTheorems` | `Spec => []TypeOK` |
| `LedgerCorrect` | `MediaUploadTheorems` | `Spec => [](LedgerExact /\ QuotaRespected)` |
| `LedgerRefinement` | `MediaUploadTheorems` | `Spec => ImplementsLedger` |
| `QuotaKept` | `MediaObjectTheorems` | `Spec => []QuotaRespected` |
| `PointerIsExact` | `MediaObjectTheorems` | `Spec => []PendingPointerExact` |
| `OneInFlight` | `MediaObjectTheorems` | `Spec => []OneUploadInFlight` |
| `ClosedIsFinal` | `MediaObjectTheorems` | `Spec => ClosedStaysClosed` |
| `OriginalIsKept` | `MediaObjectTheorems` | `Spec => []AcceptedOriginalKept` |
| `PurgedIsEmpty` | `MediaObjectTheorems` | `Spec => []PurgedStaysEmpty`, if `QuarantineOutlasts` |
| `TypeCorrect` | `MediaJobTheorems` | `Spec => []TypeOK` |
| `OutcomesAgree` | `MediaJobTheorems` | `Spec => []OutcomeConsistent` |
| `OutcomesLast` | `MediaJobTheorems` | `Spec => OutcomeFinal` |
| `GivenUpLate` | `MediaJobTheorems` | `Spec => GivenUpOnlyWhenExhausted` |
| `WakeupsLast` | `MediaJobTheorems` | `Spec => []NoLostWakeup` |
| `StatesAgree` | `LifecycleJobsTheorems` | `Spec => []RecordsAgree` |
| `TombstonesStayOwned` | `LifecycleJobsTheorems` | `Spec => []TombstonesOwned` |
| `OnlyTombstonesGo` | `LifecycleJobsTheorems` | `Spec => OnlyTombstonesPurged` |
| `TypesKept` | `LifecycleJobsTheorems` | `Spec => []TypeOK`, paths included |
| `BinRootsStay` | `LifecycleJobsTheorems` | `Spec => []BinEntryExact` |
| `FenceHolds` | `LifecycleJobsTheorems` | `Spec => Fence` |
| `GateHolds` | `LifecycleJobsTheorems` | `Spec => GateClosedToImports` |
| `TypeCorrect` | `NotificationPartitionTheorems` | `Spec => []TypeOK` |
| `NoWakeupLost` | `NotificationPartitionTheorems` | `Spec => []WakeupKept` |
| `QuarantineIsReported` | `NotificationPartitionTheorems` | `Spec => []QuarantineReported` |
| `TypeCorrect` | `AssetEventsTheorems` | `Spec => []TypeOK` |
| `NoEventIsLost` | `AssetEventsTheorems` | `Spec => []AckedIsSettled` |
| `RedeliveriesAbsorbed` | `AssetEventsTheorems` | `Spec => []RedeliveryAbsorbed` |
| `TypeCorrect` | `AssetBreakerTheorems` | `Spec => []TypeOK` |
| `CountIsExact` | `AssetBreakerTheorems` | `Spec => []CountExact` |
| `ProbeAlone` | `AssetBreakerTheorems` | `Spec => []OnlyProbeDecides` |
| `ProbeIsOne` | `AssetBreakerTheorems` | `Spec => []OneProbe` |
| `TypeCorrect` | `DecisionCacheTheorems` | `Spec => []TypeOK` |
| `GrantChangesSeen` | `DecisionCacheTheorems` | `Spec => []GrantChangeSeen` |
| `RoleSetsKept` | `DecisionCacheTheorems` | `Spec => []OwnRoleSet` |
| `ExposureIsBounded` | `DecisionCacheTheorems` | `Spec => []ExposureBounded` |

**The ledger.** `LedgerExact` is not inductive: `SweepMark` releases the bytes
the sweeper *remembers* of a version it listed earlier, if the upload is not
yet marked. Two conjuncts are added in `LedgerInv`. `RowsConsistent` ties the
rows together: a version only exists for a committed session, what is retained
is a version not yet purged. `SweepEntryExact` says what a sweeper remembers
is still true of any upload that is not yet marked: its version has
failed, its original is still retained, and the size is the row's. Sums are
cardinalities of sets of pairs, so the finite-set theorems of the library give
`BytesAdd`, `BytesRemove` and `BytesSame`, and no induction is needed. With
`LedgerInv`, the truncated subtraction never truncates.

**The refinement.** An upload is *free*, *reserved*, *stored* or *released* as
its session state and `raw_retained` say (`Hold`). Create maps to `Admit` with
the lapsed sessions released, commit to `Store`, close, mark and finalize to
`ReleaseAll`, everything else to a stutter.

**The pointer.** A commit sets the pointer of its asset, so `PendingPointerExact`
needs that no other version of that asset was pending. `PointerInv` adds that a
row has an owner, that an asset has one open session at most, and none while
its pointer is set. `OneUploadInFlight` is then immediate.

**The original.** What deletes a raw object acts on what it listed earlier, and
what commits acts on what it verified earlier. `OriginalInv` says what they
remember is still true: a commit in flight whose session is still open has
seen the exact object, a sweep entry names an upload that nobody can use any
more (`Shelved`), a purge deletes only what its manifest lists. `Onward` is the
direction in which rows move, shared by all actions: only a commit brings an
upload into use, and what is shelved stays shelved.

**Purged storage.** Nothing re-reads a session on a presigned PUT, and a worker
that lost its lease may still write; only time rules them out. `PurgedInv`
says that what is marked, or about to be, is at a `DeadEnd`: its credential is
over, and if it had a version, that failed longer ago than an execution may
last. For that a credential must not outlive the quarantine after its session
was closed (it dies at the latest `CredentialTTL` after `closedAt`). The theorem
therefore has a hypothesis, `QuarantineOutlasts`: the quarantine is at least as
long as a credential lives and an execution may run. The runs and the defaults
satisfy it; `validate` does not enforce it.

**The job.** `OutcomeConsistent` is inductive with the type invariant. From
the same invariant each step keeps an outcome (`OutcomeStep`, `OutcomeKept`),
which gives the two action properties. `NoLostWakeup` needs `Notified`: an
active job has an unpublished row, or the messages were lost, or two messages
are uncommitted, or one is and no worker is about to commit it for a run that
settled nothing. It rests on `FreshQueued`: a worker that believes its message
is uncommitted is right.

**The recycle bin.** `RecordsAgree` and `TombstonesOwned` are inductive together
with the types of everything but paths, which play no part in them, and with
what imports under way have done (`ImportInv`): an import writes an item after
it has looked one up, below a folder (`ImportsInOrder`); rows it has inserted
are its own (`OwnRows`), so no other step takes them for free ones; a row it
has updated was committed before (`UpdatedRows`). What an action does to a
job's record is stated once as a lemma about one record (`ClaimedRecord`,
`ReleasedRecord`, ...), and a step is a new record for one unit with the others
left alone (`JobUpdate`, `AgreeStep`). `OnlyTombstonesGo` splits the steps into
those that remove no row (`KeptElsewhere`) and the purge's (`GoneByPurge`).

`TombstonesOwned` says nothing of a live item: that one may belong to a unit is
what `LifecycleJobs_import.cfg` shows.

**The tree.** Paths are columns that every move rewrites for a whole subtree, and
"below" means a prefix of a path. That the folders' paths describe a forest is
*not* an invariant of the code: an import reads a folder, the folder is moved,
and the import makes the next one below the path it has read. `TreeInv` is what
remains: a path ends with its folder (`Ends`); an item's folder exists as long
as the item (`ItemsHoused`), which needs that what an import has locked stays
as it found it (`Held`). `InPlace` says of one folder that its path continues
those of the folders on it, and the proofs ask for it where they need it.
`ForestAssumption` is about the start only, and gives the ends of the starting
paths.

**The bin.** `BinEntryExact` says that the folder a deletion started from is its
tombstone while the unit is being deleted or in the bin. `BinInv` adds what the
operations on other units must not disturb: while a unit is being deleted its
root still has the path that was recorded, which is why the fence protects it
(`DeletingHome`), and running deletions do not overlap (`DeletingApart`). The
rows of a unit in the bin lie below its root, wherever that moved
(`MembersBelow`), and a root keeps its parent though not its path
(`SameParent`, `ItemHome`). Of an item that is the root of a unit it says
nothing but that, as long as it is its tombstone.

**The fence.** A batch of a restore does not ask for it. But a unit that can be
restored needs a visible parent at the recorded path, so it is still there
(`RestorableHome`), and its rows are outside every running deletion unless it
lies around one (`RestorableOutside`); what the other operations revive or move
they have compared with the running deletions themselves (`FencedMove`,
`NothingRevived`). `Fence` has two exceptions besides the import's own rows.
`RestoredAround` is a behaviour of the code (`LifecycleJobs_hidden.cfg`).
`Stray`, a root that an import has left at a path its parents have left, is
what the argument needs, because a move above such a folder may change the
folders on its path and not the folder; no configuration has shown the fence
broken by it.

**The gate.** An import finds its way from the top, folder by folder, and looks
for live ones only. A path that comes into a subtree being deleted with one
more folder comes in through its root (`OutsideAppended`), and the root is a
tombstone. So only an import that had passed the root before the deletion was
confirmed can be inside; when it then writes an item, the trigger looks at
every folder above and meets the same tombstone. Nothing is assumed of the
order in which imports and deletions commit.

These theorems hold for every forest to start with, any number of overlapping
units and of imports, and any `Contended` set. That the bin is complete is not
among them, because it is false (`LifecycleJobs_locked.cfg`).

**The partition.** An offset is *clear* when passing over what precedes it loses
nothing: every open job has a row or a later notification, every poison record
before it has its dead letter, every isolated job is known. `WakeupKept` and
`QuarantineReported` say that `committed` is clear, which is not inductive: a
worker commits the offset of its own record, and a stale one may be far behind
or ahead. `IInv` says what each worker knows (`Knows`): before `commit` that
the offset before its record is clear, at `commit` that its record's is, at
`publish` what it has isolated. Since a clear offset stays clear under what
others do, the commit of any worker, in any order, is safe. It also needs that
only a job in processing is leased (`LeasedOnlyProcessing`).

**The events.** `AckedIsSettled` is about an entry that is no longer pending, but
what makes it true happens earlier. `SettledInv` adds that a worker at its
acknowledgement has settled the entry (the effect or the dead letter came
first), and that a marker implies a bump, since a worker that finds the marker
acknowledges without one. Settled entries stay settled, whoever claims them
meanwhile. `RedeliveryAbsorbed` bounds the bumps of an event: `BumpsAccounted`
has at most one per expiry of its marker, and one more while a marker lives.

**The breaker.** `OnlyProbeDecides` needs a fact about time: while the breaker is
open, every call still under way has less time left than the reset timer
(`HalfOpenInv`). It begins true, because the reset timeout is above the
deadline, and both go down by one with a tick. So no call is left when the
timer fires, and whoever is admitted next is the probe.

**The caches.** What an epoch announces only grows and never runs ahead of the
database (`Growing`). A key is then a promise: a result found or computed under
it is at least as new as what its epochs announce (`Fulfils`). An evaluation
that read an epoch read it after its own beginning (`ReadAfter`). The
invariant says that every cached decision and every evaluation with grants
keeps the promise of its key; one that waits for another has the same key, so
the result it is handed does too. Nothing is assumed of bumps, so the theorems
hold when all of them are lost. An epoch that could not be read promises
nothing: it is not in `trusted`, and `GrantChangeSeen` excepts it.

**The age of answers.** A place read from asset-core is held by the evaluation that
asked, lives as a fact, is held by the evaluation that found the fact, lives in
a decision, and is held again by who found that. `AgeInv` bounds its age at
each stage (`Limit`): every hand-over adds a lifetime or a `MaxHold`, and what has
`left` to live is counted in. A flight is one more owner: `FetchHeld` says that
the evaluation that opened it still waits, so the flight is no older
than that evaluation's wait. Lost bumps play no part, which is the point of
the bound.

Only model-checked: the liveness properties (fairness and `ENABLED` are out of
the prover's reach): `ReservationReleased`, `GarbageReclaimed`, `JobSettles`,
`JobsFinish`, `PartitionDrains`, `PublishedIsSettled`, `AdmitsAgain`. So are the
properties under "Further disagreements", which do not hold.

## 5. What could follow

1. Proofs about what fairness rests on: that each helpful action stays possible
   until it is taken is a safety fact, and could be stated as one.
2. Several relays with leases on rows and backoff, implementing the publish and
   mark steps of `MediaJob`.
3. An abstract recycle bin (a unit is in use, in the bin, or gone, with all its
   members) for `LifecycleJobs` to implement where the disagreements do not
   bite.
4. What a set of grants allows, as operators checked against a reference
   definition over small inputs.

## 6. Not modelled, and why

* *Folder-level units in `MediaUpload`.* An item deleted with its folder is
  purged by the folder's unit. The purge here is of one item; several items
  of a unit are purged one after the other by the same code.
* *In `LifecycleJobs`*: previews as rows (a confirmation is checked against the
  tree under the lock), the adoption of deletions queued before V8 and the
  claim path of that time, the repair of a missing unit, conflicts of names and
  external identities (they fail the step, which the model has), batch sizes,
  the renewal of a purge's lease (a lease may expire at any time or not), and
  two writers with a shared lock that overlap (section 2).
* *Of the import*: the dataset (any chain of folders and any item), rows that
  are skipped because nothing in them has changed, the upsert of references,
  the counts of the summary. A dry run is an abort.
* *A purge worker that lost its lease and goes on deleting.* `PurgeAbort`
  forgets the worker's position at once. Everything such a worker deletes is
  in the manifest already.
* *Different clocks.* Expiry is decided by the database's `now()` and by the
  storage service for credentials; one clock stands for both.
* *The purge of an asset in `MediaJob`.* It removes the job with its version;
  workers then fail their lease check as they do after losing the lease.
* *Configurations with a quarantine shorter than a credential lives or an
  execution may run.* `PurgedStaysEmpty` is proved and checked without them
  (`QuarantineOutlasts`, section 4). The defaults are days against minutes; the
  runs use the smallest values.
* *Row-lock deadlocks inside PostgreSQL.* Transactions are single steps; the
  database breaks a deadlock by aborting one, which the models have as a
  failure of that call.
* *Retention scheduler.* One run a day across replicas is decided by one
  `INSERT` on a unique key; the run then queues one organization's units per
  poll. The queueing is `QueuePurge` of `LifecycleJobs`; the run itself counts
  batches and does calendar arithmetic.
* *In `DecisionCache`*: the memo of facts that lives as long as one request;
  administrators and organization owners, who are answered without the caches;
  lists of resources (one decision each); role permissions, which an in-process
  cache holds and no code writes; the switch for object permissions, which is
  not part of the key and which no code writes either.
* *In `AssetBreaker`*: the thresholds of the rolling window (a choice), the
  metrics and a breaker that is switched off.
* *In `NotificationPartition`*: other partitions (independent but for the
  process they stop together, which is a crash here) and the drain of a worker
  asked to stop, which ends between two records.
* *In `AssetEvents`*: other consumer groups.
* *The media processor* is a sandboxed child process: its outcome is a
  nondeterministic choice of accepted, rejected or failed.
* *API adapters, formatting, search, metrics, tracing*: no state or ordering of
  their own. The API surface of access-core forwards what it
  parses to asset-core or to the authorization modelled above.
