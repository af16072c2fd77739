---------------------------- MODULE MediaUpload ----------------------------
(***************************************************************************)
(* Media admission and reclamation in asset-core, for one organization:    *)
(* upload sessions and their quota reservations, presigned PUTs, commit,   *)
(* session expiry, the quarantine sweep that reclaims abandoned and failed *)
(* uploads, and the permanent purge of a deleted asset.  PostgreSQL        *)
(* transactions are single steps; a request, a sweep and a purge that      *)
(* leave a transaction to talk to object storage are several, because      *)
(* everything else may happen in between.                                  *)
(*                                                                         *)
(* An upload is identified by its idempotency key: the row is unique per   *)
(* (asset, requester, key), so a repeated create replays or is refused and *)
(* changes nothing.  A version is identified by the upload it came from    *)
(* (upload_id is unique).  What the media worker does with a job is in     *)
(* MediaJob; here a pending version is simply completed or failed.         *)
(***************************************************************************)
EXTENDS ByteSums

CONSTANTS
    Assets,            \* metadata items of the organization
    Uploads,           \* upload sessions, one per idempotency key
    Clients,           \* request handlers that may be between two steps
    Sweepers,          \* replicas of the media worker running the sweep
    None,              \* a NULL column
    Quota,             \* raw_quota_bytes
    CredentialTTL,     \* lifetime of a presigned PUT
    SessionTTL,        \* lifetime of an upload session
    Quarantine,        \* AbandonedQuarantine
    HardDeadline,      \* longest execution of a processing job
    Retention,         \* lifecycleRetentionDays
    ChecksumSupported, \* storage verifies the signed SHA-256 on PUT
    MaxTime            \* bound on the clock, for model checking

\* media_config.go validate: sizes and durations are positive, and a
\* credential does not outlive its session.
ASSUME ConfigAssumption ==
    /\ MaxUploadBytes \in Nat \ {0}
    /\ Quota \in Nat
    /\ CredentialTTL \in Nat \ {0}
    /\ SessionTTL \in Nat
    /\ CredentialTTL < SessionTTL
    /\ Quarantine \in Nat
    /\ HardDeadline \in Nat
    /\ Retention \in Nat
    /\ MaxTime \in Nat
    /\ ChecksumSupported \in BOOLEAN

ASSUME IdentityAssumption ==
    /\ IsFiniteSet(Uploads)
    /\ None \notin Assets
    /\ None \notin Uploads

VARIABLES
    clock,
    \* --- metadata_items and asset_lifecycle_units, per asset
    asset,       \* "live", "deleted" (tombstone) or "gone" (row removed)
    deletedAt,   \* time of the last tombstone
    unit,        \* lifecycle unit: "none", "deleted", "purging", "failed"
    pending,     \* pending_media_version_id
    \* --- media_upload_sessions, per upload
    state,       \* "none", the session state, or "gone" (row removed)
    owner,       \* asset_id
    bytes,       \* expected_size_bytes
    expires,     \* session_expires_at
    credential,  \* credential_expires_at
    closedAt,    \* cancelled_at, expired_at or the version's failed_at
    purged,      \* uploads whose raw_object_purged_at is set
    \* --- asset_media_versions, per upload
    version,     \* "none", "pending", "completed" or "failed"
    retained,    \* uploads whose version has raw_retained
    \* --- organization_media_usage
    reserved, stored,
    \* --- object storage
    raw,         \* per upload: "absent", "exact" (as declared) or "other"
    derived,     \* uploads with a derivative of their version in storage
    \* --- processes
    request,     \* per client: the refresh or commit it is in the middle of
    sweep,       \* per sweeper: the batch entry it is in the middle of
    manifest,    \* asset_lifecycle_purge_objects: objects recorded
    marked,      \* ... of which deleted_at is set
    purger       \* per asset: the purge worker's in-memory position

assetVars   == <<asset, deletedAt, unit>>
sessionVars == <<owner, bytes, expires, credential>>
objectVars  == <<raw, derived>>
purgeVars   == <<manifest, marked, purger>>
vars == <<clock, assetVars, pending, state, sessionVars, closedAt, purged,
          version, retained, reserved, stored, objectVars, request, sweep,
          purgeVars>>

Objects == Uploads \X {"raw", "derived"}

TypeOK ==
    /\ clock \in Nat
    /\ asset \in [Assets -> {"live", "deleted", "gone"}]
    /\ deletedAt \in [Assets -> Nat]
    /\ unit \in [Assets -> {"none", "deleted", "purging", "failed"}]
    /\ pending \in [Assets -> Uploads \cup {None}]
    /\ state \in [Uploads -> {"none", "created", "committed", "cancelled",
                              "expired", "gone"}]
    /\ owner \in [Uploads -> Assets \cup {None}]
    /\ bytes \in [Uploads -> 0..MaxUploadBytes]
    /\ expires \in [Uploads -> Nat]
    /\ credential \in [Uploads -> Nat]
    /\ closedAt \in [Uploads -> Nat]
    /\ purged \in SUBSET Uploads
    /\ version \in [Uploads -> {"none", "pending", "completed", "failed"}]
    /\ retained \in SUBSET Uploads
    /\ reserved \in Nat
    /\ stored \in Nat
    /\ raw \in [Uploads -> {"absent", "exact", "other"}]
    /\ derived \in SUBSET Uploads
    /\ request \in [Clients -> {None} \cup
                      [op : {"refresh", "commit"}, upload : Uploads]]
    /\ sweep \in [Sweepers -> {None} \cup
                    [step : {"derived", "raw", "mark"}, upload : Uploads,
                     versioned : BOOLEAN, bytes : 0..MaxUploadBytes]]
    /\ manifest \in SUBSET Objects
    /\ marked \in SUBSET Objects
    /\ purger \in [Assets -> {None} \cup
                     [step : {"delete", "finalize"}, todo : SUBSET Objects,
                      batch : SUBSET Objects]]

-----------------------------------------------------------------------------
(* Helpers *)

Live(a) == asset[a] = "live"

RowExists(u) == state[u] \notin {"none", "gone"}

UploadsOf(a) == {u \in Uploads : RowExists(u) /\ owner[u] = a}

OpenSessions == {u \in Uploads : state[u] = "created"}

Lapsed(u) == state[u] = "created" /\ expires[u] <= clock

\* lockActiveAsset's view of the pointer, as create and commit both require it.
NothingPendingIgnored(a) == TRUE  \* faulty variant: the check is dropped
NothingPending(a) == pending[a] = None

\* reserveQuota's WHERE clause.
WithinQuotaOpenOnly(open, kept, b) == open + b <= Quota  \* faulty: stored bytes left out
WithinQuota(open, kept, b) == open + kept + b <= Quota

\* Faulty variant: the operands of the subtraction swapped.
ReleaseSwapped(total, released) ==
    IF released <= total THEN released - total ELSE 0

\* GREATEST(total - released, 0), as every release in the ledger is written.
Release(total, released) == IF released <= total THEN total - released ELSE 0

\* An execution claims its job while the asset is live and the version
\* pending, and is cut off HardDeadline later.
WorkerMayBeRunning(u) ==
    /\ \/ version[u] = "pending"
       \/ version[u] = "failed" /\ clock < closedAt[u] + HardDeadline
    /\ \/ asset[owner[u]] = "live"
       \/ asset[owner[u]] = "deleted" /\ clock < deletedAt[owner[u]] + HardDeadline

\* Faulty variant: reclaimed as soon as it is closed.
QuarantinedNot(u) == closedAt[u] <= clock
Quarantined(u) == closedAt[u] + Quarantine <= clock

\* Faulty variant: failed versions are forgotten.
AbandonedSession(u) == version[u] = "none" /\ state[u] \in {"cancelled", "expired"}
Abandoned(u) ==
    \/ version[u] = "none" /\ state[u] \in {"cancelled", "expired"}
    \/ version[u] = "failed"

\* raw_object_purged_at IS NULL, which the marking transaction checks again.
UnmarkedUnchecked(u) == RowExists(u)  \* faulty variant: no exactly-once gate
Unmarked(u) == RowExists(u) /\ u \notin purged

\* The WHERE clause of the sweep.
Reclaimable(u) == RowExists(u) /\ u \notin purged /\ Abandoned(u) /\ Quarantined(u)

Init ==
    /\ clock = 0
    /\ asset = [a \in Assets |-> "live"]
    /\ deletedAt = [a \in Assets |-> 0]
    /\ unit = [a \in Assets |-> "none"]
    /\ pending = [a \in Assets |-> None]
    /\ state = [u \in Uploads |-> "none"]
    /\ owner = [u \in Uploads |-> None]
    /\ bytes = [u \in Uploads |-> 0]
    /\ expires = [u \in Uploads |-> 0]
    /\ credential = [u \in Uploads |-> 0]
    /\ closedAt = [u \in Uploads |-> 0]
    /\ purged = {}
    /\ version = [u \in Uploads |-> "none"]
    /\ retained = {}
    /\ reserved = 0
    /\ stored = 0
    /\ raw = [u \in Uploads |-> "absent"]
    /\ derived = {}
    /\ request = [c \in Clients |-> None]
    /\ sweep = [w \in Sweepers |-> None]
    /\ manifest = {}
    /\ marked = {}
    /\ purger = [a \in Assets |-> None]

Tick ==
    /\ clock < MaxTime
    /\ clock' = clock + 1
    /\ UNCHANGED <<assetVars, pending, state, sessionVars, closedAt, purged,
                   version, retained, reserved, stored, objectVars, request,
                   sweep, purgeVars>>

-----------------------------------------------------------------------------
(* Upload sessions *)

\* CreateUploadSession, one transaction: lapsed sessions of the asset are
\* expired and their reservations released before the one-open-session check
\* and the quota check; a refusal rolls all of it back.
Create(a, u, b) ==
    LET lapsed == {v \in Uploads : owner[v] = a /\ Lapsed(v)}
        left   == Release(reserved, Bytes(bytes, lapsed))
    IN  /\ state[u] = "none"
        /\ Live(a)
        /\ NothingPending(a)
        /\ \A v \in OpenSessions \ lapsed : owner[v] # a
        /\ WithinQuota(left, stored, b)
        /\ state' = [v \in Uploads |-> CASE v = u        -> "created"
                                         [] v \in lapsed -> "expired"
                                         [] OTHER        -> state[v]]
        /\ closedAt' = [v \in Uploads |-> IF v \in lapsed THEN clock ELSE closedAt[v]]
        /\ reserved' = left + b
        /\ owner' = [owner EXCEPT ![u] = a]
        /\ bytes' = [bytes EXCEPT ![u] = b]
        /\ expires' = [expires EXCEPT ![u] = clock + SessionTTL]
        /\ credential' = [credential EXCEPT ![u] = clock + CredentialTTL]
        /\ UNCHANGED <<clock, assetVars, pending, purged, version, retained,
                       stored, objectVars, request, sweep, purgeVars>>

\* If-None-Match: * on the presigned request.
Overwritable(u) == TRUE  \* faulty variant: a second PUT replaces the object
CreateOnly(u) == raw[u] = "absent"

\* The client uses a presigned PUT.  The URL is create-only and dies with its
\* credential; nothing re-reads the session, which may be closed by now.
\* Content that is not what was declared only gets in when the storage does
\* not check the signed digest.
Put(u, content) ==
    /\ clock < credential[u]
    /\ CreateOnly(u)
    /\ content = "exact" \/ ~ChecksumSupported
    /\ raw' = [raw EXCEPT ![u] = content]
    /\ UNCHANGED <<clock, assetVars, pending, state, sessionVars, closedAt,
                   purged, version, retained, reserved, stored, derived,
                   request, sweep, purgeVars>>

\* Faulty variant: a session cancelled after it was read can still be used.
UsableCancelled(u) == /\ state[u] \in {"created", "cancelled"}
                      /\ Live(owner[u])
                      /\ clock < expires[u]

\* What GetUploadSession, RefreshUploadSession and CommitUpload all require of
\* the rows they lock.
Usable(u) == /\ state[u] = "created"
             /\ Live(owner[u])
             /\ clock < expires[u]

\* RefreshUploadSession reads the session and HEADs the object: only a missing
\* object earns another credential.  CommitUpload reads the session and
\* verifies size, type and digest of the stored object.
BeginRequest(c, op, u) ==
    /\ request[c] = None
    /\ Usable(u)
    /\ raw[u] = IF op = "refresh" THEN "absent" ELSE "exact"
    /\ request' = [request EXCEPT ![c] = [op |-> op, upload |-> u]]
    /\ UNCHANGED <<clock, assetVars, pending, state, sessionVars, closedAt,
                   purged, version, retained, reserved, stored, objectVars,
                   sweep, purgeVars>>

Earlier(s, t) == IF s < t THEN s ELSE t

FinishRefresh(c) ==
    /\ request[c] # None
    /\ request[c].op = "refresh"
    /\ LET u == request[c].upload
       IN  /\ Usable(u)
           /\ credential' = [credential EXCEPT
                 ![u] = Earlier(clock + CredentialTTL, expires[u])]
    /\ request' = [request EXCEPT ![c] = None]
    /\ UNCHANGED <<clock, assetVars, pending, state, owner, bytes, expires,
                   closedAt, purged, version, retained, reserved, stored,
                   objectVars, sweep, purgeVars>>

\* The transaction of CommitUpload: the version and its job are created, the
\* pending pointer is set and the reservation becomes stored bytes.
FinishCommit(c) ==
    /\ request[c] # None
    /\ request[c].op = "commit"
    /\ LET u == request[c].upload
           a == owner[u]
       IN  /\ Usable(u)
           /\ NothingPending(a)
           /\ state' = [state EXCEPT ![u] = "committed"]
           /\ version' = [version EXCEPT ![u] = "pending"]
           /\ retained' = retained \cup {u}
           /\ pending' = [pending EXCEPT ![a] = u]
           /\ reserved' = Release(reserved, bytes[u])
           /\ stored' = stored + bytes[u]
    /\ request' = [request EXCEPT ![c] = None]
    /\ UNCHANGED <<clock, assetVars, sessionVars, closedAt, purged, objectVars,
                   sweep, purgeVars>>

\* A refused or interrupted request, and a commit that finds its session
\* already committed: nothing durable changes.
EndRequest(c) ==
    /\ request[c] # None
    /\ request' = [request EXCEPT ![c] = None]
    /\ UNCHANGED <<clock, assetVars, pending, state, sessionVars, closedAt,
                   purged, version, retained, reserved, stored, objectVars,
                   sweep, purgeVars>>

\* Faulty variants: the state is not checked again under the lock; sessions of
\* a deleted asset are passed over.
ClosableUnlocked(u, target) ==
    /\ state[u] \in {"created", "cancelled"}
    /\ target = "expired" => expires[u] <= clock
ClosableIfLive(u, target) ==
    /\ state[u] = "created"
    /\ target = "expired" => expires[u] <= clock /\ Live(owner[u])

Closable(u, target) ==
    /\ state[u] = "created"
    /\ target = "expired" => expires[u] <= clock

\* transitionOpenUploadSession and the sweep's expireUploadSession.  Neither
\* asks whether the asset is still live.
Close(u, target) ==
    /\ Closable(u, target)
    /\ state' = [state EXCEPT ![u] = target]
    /\ closedAt' = [closedAt EXCEPT ![u] = clock]
    /\ reserved' = Release(reserved, bytes[u])
    /\ UNCHANGED <<clock, assetVars, pending, sessionVars, purged, version,
                   retained, stored, objectVars, request, sweep, purgeVars>>

-----------------------------------------------------------------------------
(* Processing outcome *)

\* CompleteAndPromote needs both derivatives stored, the asset live and the
\* pending pointer still on this version.
CompleteVersion(u) ==
    /\ version[u] = "pending"
    /\ u \in derived
    /\ Live(owner[u])
    /\ pending[owner[u]] = u
    /\ version' = [version EXCEPT ![u] = "completed"]
    /\ pending' = [pending EXCEPT ![owner[u]] = None]
    /\ UNCHANGED <<clock, assetVars, state, sessionVars, closedAt, purged,
                   retained, reserved, stored, objectVars, request, sweep,
                   purgeVars>>

\* Clearing the asset's pending pointer, if it still names the version.
PointerKept(u) == pending  \* faulty variant: the reset is missing
PointerCleared(u) ==
    IF pending[owner[u]] = u THEN [pending EXCEPT ![owner[u]] = None] ELSE pending

\* failMediaVersion: on rejected content, or when the attempts are used up.
FailVersion(u) ==
    /\ version[u] = "pending"
    /\ version' = [version EXCEPT ![u] = "failed"]
    /\ closedAt' = [closedAt EXCEPT ![u] = clock]
    /\ pending' = PointerCleared(u)
    /\ UNCHANGED <<clock, assetVars, state, sessionVars, purged, retained,
                   reserved, stored, objectVars, request, sweep, purgeVars>>

\* A running worker stores a derivative, perhaps after its version was failed
\* by a worker that took over its lease, and before any media_outputs row.
WriteDerivative(u) ==
    /\ WorkerMayBeRunning(u)
    /\ derived' = derived \cup {u}
    /\ UNCHANGED <<clock, assetVars, pending, state, sessionVars, closedAt,
                   purged, version, retained, reserved, stored, raw, request,
                   sweep, purgeVars>>

\* discard: a worker that could not promote takes its derivatives back.
DiscardDerivative(u) ==
    /\ WorkerMayBeRunning(u)
    /\ derived' = derived \ {u}
    /\ UNCHANGED <<clock, assetVars, pending, state, sessionVars, closedAt,
                   purged, version, retained, reserved, stored, raw, request,
                   sweep, purgeVars>>

-----------------------------------------------------------------------------
(* The quarantine sweep: list without locking, delete, then mark *)

SweepClaim(w, u) ==
    /\ sweep[w] = None
    /\ Reclaimable(u)
    /\ sweep' = [sweep EXCEPT ![w] =
          IF version[u] = "none"
          THEN [step |-> "raw", upload |-> u, versioned |-> FALSE, bytes |-> 0]
          ELSE [step |-> "derived", upload |-> u, versioned |-> TRUE,
                bytes |-> bytes[u]]]
    /\ UNCHANGED <<clock, assetVars, pending, state, sessionVars, closedAt,
                   purged, version, retained, reserved, stored, objectVars,
                   request, purgeVars>>

SweepDeleteDerived(w) ==
    /\ sweep[w] # None
    /\ sweep[w].step = "derived"
    /\ derived' = derived \ {sweep[w].upload}
    /\ sweep' = [sweep EXCEPT ![w].step = "raw"]
    /\ UNCHANGED <<clock, assetVars, pending, state, sessionVars, closedAt,
                   purged, version, retained, reserved, stored, raw, request,
                   purgeVars>>

SweepDeleteRaw(w) ==
    /\ sweep[w] # None
    /\ sweep[w].step = "raw"
    /\ raw' = [raw EXCEPT ![sweep[w].upload] = "absent"]
    /\ sweep' = [sweep EXCEPT ![w].step = "mark"]
    /\ UNCHANGED <<clock, assetVars, pending, state, sessionVars, closedAt,
                   purged, version, retained, reserved, stored, derived,
                   request, purgeVars>>

\* MarkMediaObjectsPurged: the marker is the exactly-once gate between
\* replicas for the release of the stored bytes.
SweepMark(w) ==
    /\ sweep[w] # None
    /\ sweep[w].step = "mark"
    /\ LET u == sweep[w].upload
       IN  IF Unmarked(u)
           THEN /\ purged' = purged \cup {u}
                /\ IF sweep[w].versioned
                   THEN /\ retained' = retained \ {u}
                        /\ stored' = Release(stored, sweep[w].bytes)
                   ELSE UNCHANGED <<retained, stored>>
           ELSE UNCHANGED <<purged, retained, stored>>
    /\ sweep' = [sweep EXCEPT ![w] = None]
    /\ UNCHANGED <<clock, assetVars, pending, state, sessionVars, closedAt,
                   version, reserved, objectVars, request, purgeVars>>

\* A storage error, a database error or a crash: the entry stays unmarked and
\* a later sweep lists it again.
SweepAbort(w) ==
    /\ sweep[w] # None
    /\ sweep' = [sweep EXCEPT ![w] = None]
    /\ UNCHANGED <<clock, assetVars, pending, state, sessionVars, closedAt,
                   purged, version, retained, reserved, stored, objectVars,
                   request, purgeVars>>

-----------------------------------------------------------------------------
(* Deletion, restore and permanent purge of the asset *)

\* DeleteMetadataItem.  A root has at most one lifecycle unit that is neither
\* RESTORED nor PURGED (unique index), so the insert of a second one fails.
SoftDelete(a) ==
    /\ Live(a)
    /\ unit[a] = "none"
    /\ asset' = [asset EXCEPT ![a] = "deleted"]
    /\ deletedAt' = [deletedAt EXCEPT ![a] = clock]
    /\ unit' = [unit EXCEPT ![a] = "deleted"]
    /\ UNCHANGED <<clock, pending, state, sessionVars, closedAt, purged,
                   version, retained, reserved, stored, objectVars, request,
                   sweep, purgeVars>>

\* RestoreMetadataItem clears the tombstone whatever the lifecycle unit is
\* doing; completeLifecycleRestore then closes the unit only if it is still
\* DELETED, and does not look at how many rows it changed.
Restore(a) ==
    /\ asset[a] = "deleted"
    /\ asset' = [asset EXCEPT ![a] = "live"]
    /\ unit' = IF unit[a] = "deleted" THEN [unit EXCEPT ![a] = "none"] ELSE unit
    /\ UNCHANGED <<clock, deletedAt, pending, state, sessionVars, closedAt,
                   purged, version, retained, reserved, stored, objectVars,
                   request, sweep, purgeVars>>

\* ProcessNextLifecycleCleanupBatch, then ClaimNextLifecycleJob.
StartPurge(a) ==
    /\ unit[a] = "deleted"
    /\ deletedAt[a] + Retention <= clock
    /\ unit' = [unit EXCEPT ![a] = "purging"]
    /\ UNCHANGED <<clock, asset, deletedAt, pending, state, sessionVars,
                   closedAt, purged, version, retained, reserved, stored,
                   objectVars, request, sweep, purgeVars>>

\* createPurgeObjectManifest: the raw keys of the asset's versions and
\* sessions, and the derivative keys that have a media_outputs row, which only
\* CompleteAndPromote writes.
ManifestOf(a) ==
    {<<u, "raw">> : u \in UploadsOf(a)} \cup
    {<<u, "derived">> : u \in {v \in UploadsOf(a) : version[v] = "completed"}}

PurgeList(a) ==
    /\ unit[a] = "purging"
    /\ asset[a] = "deleted"
    /\ purger[a] = None
    /\ manifest' = manifest \cup ManifestOf(a)
    /\ LET listed == {o \in manifest' \ marked : owner[o[1]] = a}
       IN purger' = [purger EXCEPT ![a] =
                       [step |-> "delete", todo |-> listed, batch |-> listed]]
    /\ UNCHANGED <<clock, assetVars, pending, state, sessionVars, closedAt,
                   purged, version, retained, reserved, stored, objectVars,
                   request, sweep, marked>>

PurgeDelete(a, o) ==
    /\ purger[a] # None
    /\ purger[a].step = "delete"
    /\ o \in purger[a].todo
    /\ raw' = IF o[2] = "raw" THEN [raw EXCEPT ![o[1]] = "absent"] ELSE raw
    /\ derived' = IF o[2] = "derived" THEN derived \ {o[1]} ELSE derived
    /\ purger' = [purger EXCEPT ![a].todo = @ \ {o}]
    /\ UNCHANGED <<clock, assetVars, pending, state, sessionVars, closedAt,
                   purged, version, retained, reserved, stored, request, sweep,
                   manifest, marked>>

PurgeMark(a) ==
    /\ purger[a] # None
    /\ purger[a].step = "delete"
    /\ purger[a].todo = {}
    /\ unit[a] = "purging"
    /\ marked' = marked \cup purger[a].batch
    /\ purger' = [purger EXCEPT ![a].step = "finalize"]
    /\ UNCHANGED <<clock, assetVars, pending, state, sessionVars, closedAt,
                   purged, version, retained, reserved, stored, objectVars,
                   request, sweep, manifest>>

\* FinalizeLifecyclePurgeAsset: every media row of the asset goes, whether or
\* not the asset is still a tombstone; only the metadata row itself is guarded.
PurgeFinalize(a) ==
    LET mine == UploadsOf(a)
        open == {u \in mine : state[u] = "created"}
        kept == {u \in mine : u \in retained}
    IN  /\ purger[a] # None
        /\ purger[a].step = "finalize"
        /\ unit[a] = "purging"
        /\ \A o \in manifest \ marked : owner[o[1]] # a
        /\ asset' = IF asset[a] = "deleted"
                    THEN [asset EXCEPT ![a] = "gone"]
                    ELSE asset
        /\ pending' = [pending EXCEPT ![a] = None]
        /\ state' = [u \in Uploads |-> IF u \in mine THEN "gone" ELSE state[u]]
        /\ version' = [u \in Uploads |-> IF u \in mine THEN "none" ELSE version[u]]
        /\ retained' = retained \ mine
        /\ reserved' = Release(reserved, Bytes(bytes, open))
        /\ stored' = Release(stored, Bytes(bytes, kept))
        /\ purger' = [purger EXCEPT ![a] = None]
        /\ UNCHANGED <<clock, deletedAt, unit, sessionVars, closedAt, purged,
                       objectVars, request, sweep, manifest, marked>>

\* FinalizeLifecyclePurgeJob: nothing of the unit is left to select.
PurgeDone(a) ==
    /\ unit[a] = "purging"
    /\ purger[a] = None
    /\ asset[a] # "deleted"
    /\ unit' = [unit EXCEPT ![a] = "none"]
    /\ UNCHANGED <<clock, asset, deletedAt, pending, state, sessionVars,
                   closedAt, purged, version, retained, reserved, stored,
                   objectVars, request, sweep, purgeVars>>

\* A storage or database error, a lost lease or a crash: the worker forgets
\* where it was.  The job is retried, or has used up its attempts and leaves
\* the unit FAILED.
PurgeAbort(a) ==
    /\ unit[a] = "purging"
    /\ purger[a] # None
    /\ purger' = [purger EXCEPT ![a] = None]
    /\ unit' \in {unit, [unit EXCEPT ![a] = "failed"]}
    /\ UNCHANGED <<clock, asset, deletedAt, pending, state, sessionVars,
                   closedAt, purged, version, retained, reserved, stored,
                   objectVars, request, sweep, manifest, marked>>

-----------------------------------------------------------------------------
ClientNext ==
    \/ \E a \in Assets, u \in Uploads, b \in 1..MaxUploadBytes : Create(a, u, b)
    \/ \E u \in Uploads, content \in {"exact", "other"} : Put(u, content)
    \/ \E c \in Clients, op \in {"refresh", "commit"}, u \in Uploads :
          BeginRequest(c, op, u)
    \/ \E c \in Clients : FinishRefresh(c) \/ FinishCommit(c) \/ EndRequest(c)
    \/ \E u \in Uploads : Close(u, "cancelled")

WorkerNext ==
    \E u \in Uploads :
        \/ CompleteVersion(u) \/ FailVersion(u)
        \/ WriteDerivative(u) \/ DiscardDerivative(u)

SweepNext ==
    \/ \E u \in Uploads : Close(u, "expired")
    \/ \E w \in Sweepers :
          \/ \E u \in Uploads : SweepClaim(w, u)
          \/ SweepDeleteDerived(w) \/ SweepDeleteRaw(w)
          \/ SweepMark(w) \/ SweepAbort(w)

LifecycleNext ==
    \E a \in Assets :
        \/ SoftDelete(a) \/ Restore(a) \/ StartPurge(a) \/ PurgeList(a)
        \/ \E o \in Objects : PurgeDelete(a, o)
        \/ PurgeMark(a) \/ PurgeFinalize(a) \/ PurgeDone(a) \/ PurgeAbort(a)

Next == Tick \/ ClientNext \/ WorkerNext \/ SweepNext \/ LifecycleNext

Spec == Init /\ [][Next]_vars

\* The sweep runs on a ticker for as long as the process lives; a storage
\* error may interrupt one pass but not every pass.
Fairness ==
    /\ WF_vars(Tick)
    /\ \A u \in Uploads : WF_vars(Close(u, "expired"))
    /\ \A w \in Sweepers :
          /\ \A u \in Uploads : SF_vars(SweepClaim(w, u))
          /\ SF_vars(SweepDeleteDerived(w))
          /\ SF_vars(SweepDeleteRaw(w))
          /\ SF_vars(SweepMark(w))

FairSpec == Spec /\ Fairness

-----------------------------------------------------------------------------
(* Properties *)

\* The two counters of organization_media_usage are exactly the bytes of the
\* open sessions and of the versions whose raw object is retained: no path
\* (cancel, expire, reclaim, commit, two sweepers, purge) releases or charges
\* an upload twice.
LedgerExact ==
    /\ reserved = Bytes(bytes, OpenSessions)
    /\ stored = Bytes(bytes, retained)

\* reserveQuota admits within the quota and no later step can exceed it.
QuotaRespected == reserved + stored <= Quota

\* An asset has at most one upload in flight, open or being processed: the
\* partial unique index and the pending-pointer check together.
OneUploadInFlight ==
    \A u, v \in Uploads :
        /\ state[u] = "created" \/ version[u] = "pending"
        /\ state[v] = "created" \/ version[v] = "pending"
        /\ owner[u] = owner[v]
        => u = v

\* The pending pointer of an asset is set exactly while one of its versions is
\* pending, and names that version.
PendingPointerExact ==
    \A a \in Assets, u \in Uploads :
        pending[a] = u <=> owner[u] = a /\ version[u] = "pending"

\* The content a commit verified stays in storage for as long as the version
\* may be used: no sweep entry listed earlier, no late PUT and no expiry
\* removes or replaces it, until a purge of the asset lists it.
AcceptedOriginalKept ==
    \A u \in Uploads :
        /\ version[u] \in {"pending", "completed"}
        /\ <<u, "raw">> \notin manifest
        => raw[u] = "exact"

\* Once the sweep has marked an upload nothing of it is in storage, and
\* nothing comes back: no later sweep would offer it again.
PurgedStaysEmpty ==
    \A u \in purged : raw[u] = "absent" /\ u \notin derived

\* A session that was cancelled or expired is never committed afterwards, and
\* a settled version is never settled again.
ClosedStaysClosed ==
    [][\A u \in Uploads :
          /\ state[u] \in {"cancelled", "expired"}
             => state'[u] \in {state[u], "gone"} /\ version'[u] = "none"
          /\ version[u] \in {"completed", "failed"}
             => version'[u] \in {version[u], "none"}]_vars

\* media_purge_integration_test.go: a completed version's raw original is kept
\* for the asset's lifetime.
CompletedOriginalKept ==
    \A u \in Uploads :
        version[u] = "completed" /\ Live(owner[u]) => raw[u] = "exact"

\* createPurgeObjectManifest: every raw key and output key is recorded before
\* any external delete, so a purged asset leaves nothing in storage.
PurgeLeavesNothing ==
    \A u \in Uploads :
        owner[u] # None /\ asset[owner[u]] = "gone"
        => raw[u] = "absent" /\ u \notin derived

\* The columns of the sessions, the versions and the usage row together
\* implement the abstract ledger.
Hold == [u \in Uploads |->
           CASE state[u] = "none"    -> "free"
             [] state[u] = "created" -> "reserved"
             [] u \in retained       -> "stored"
             [] OTHER                -> "released"]

Ledger == INSTANCE QuotaLedger
            WITH hold <- Hold, amount <- bytes, charged <- reserved + stored

ImplementsLedger == Ledger!Spec

\* A reservation is not held for ever: whatever the client does, its session
\* leaves the open state.  (Sessions that lapse before the clock's bound.)
ReservationReleased ==
    \A u \in Uploads :
        state[u] = "created" /\ expires[u] <= MaxTime ~> state[u] # "created"

\* Storage of an abandoned or failed upload is reclaimed.
GarbageReclaimed ==
    \A u \in Uploads :
        /\ version[u] = "failed" \/ state[u] \in {"cancelled", "expired"}
        /\ closedAt[u] + Quarantine <= MaxTime
        ~> u \in purged \/ state[u] = "gone"
=============================================================================
