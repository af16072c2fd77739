------------------------------ MODULE MediaJob ------------------------------
(***************************************************************************)
(* The processing of one committed media version by the media workers:     *)
(* the transactional outbox and its relay, the Kafka partition the job's   *)
(* notifications go through, claims and leases, the execution that stores  *)
(* derivatives and promotes the version, settlement of failures with       *)
(* bounded retries, transport isolation and operator replay, and the       *)
(* reconciler.  A job owns one version, and their rows are only written    *)
(* together, so one job stands for all of them.                            *)
(*                                                                         *)
(* Time is what it does to the job: a lease may expire, a retry becomes    *)
(* due.  A lease is fenced by (owner, exact expiry); the attempt number    *)
(* and the count of renewals in the attempt identify that pair.            *)
(***************************************************************************)
EXTENDS Integers, FiniteSets

CONSTANTS
    Workers,      \* media-worker processes
    None,         \* a NULL column
    Kinds,        \* MediaOutputManifest: the derivatives of a version
    MaxAttempts,  \* MediaRetryPolicy.MaxAttempts
    MaxRenewals,  \* bound on lease renewals per attempt, for model checking
    MaxBacklog    \* bound on published, uncommitted messages, likewise

ASSUME JobAssumption ==
    /\ MaxAttempts \in Nat \ {0}
    /\ MaxRenewals \in Nat
    /\ MaxBacklog \in Nat \ {0}
    /\ None \notin Workers
    /\ IsFiniteSet(Kinds)

VARIABLES
    \* --- media_processing_jobs
    status,      \* "queued", "processing", "completed" or "failed"
    attempt,     \* attempt_count
    due,         \* next_attempt_at has come
    holder,      \* lease_owner
    renewal,     \* which renewal of the attempt the stored expiry is from
    leaseLive,   \* lease_expires_at is in the future
    isolated,    \* notification_isolated_at is set
    \* --- asset_media_versions, media_outputs, metadata_items
    version,     \* "pending", "completed" or "failed"
    outputs,     \* kinds with a media_outputs row
    pointer,     \* which pointer of the asset names the version
    assetLive,   \* the asset is not a tombstone
    \* --- media_job_outbox and Kafka
    row,         \* the unpublished row: "none", "pending" or "acked" (sent, not marked)
    dispatched,  \* some row of the job has been marked published
    backlog,     \* messages published and not committed by the consumer group
    lost,        \* the broker has dropped them once (bound: at most once)
    \* --- object storage
    objects,     \* kinds of which the derivative is stored
    \* --- worker processes
    worker

jobVars   == <<status, attempt, due, holder, renewal, leaseLive, isolated>>
mediaVars == <<version, outputs, pointer>>
queueVars == <<row, dispatched, backlog, lost>>
vars == <<jobVars, mediaVars, assetLive, queueVars, objects, worker>>

\* A worker between two calls: the lease it holds in memory, whether a renewal
\* has been stored that it has not yet been told of, the artifacts it has put
\* in place, those of them it created, and whether the message it handles is
\* still uncommitted.
Idle == [step |-> "idle", attempt |-> 0, renewal |-> 0, renewing |-> FALSE,
         done |-> {}, made |-> {}, fresh |-> FALSE]

Steps == {"idle", "render", "upload", "promote", "reject", "discard", "settle",
          "commit"}

TypeOK ==
    /\ status \in {"queued", "processing", "completed", "failed"}
    /\ attempt \in 0..MaxAttempts
    /\ due \in BOOLEAN
    /\ holder \in Workers \cup {None}
    /\ renewal \in 0..MaxRenewals
    /\ leaseLive \in BOOLEAN
    /\ isolated \in BOOLEAN
    /\ version \in {"pending", "completed", "failed"}
    /\ outputs \in SUBSET Kinds
    /\ pointer \in {"none", "pending", "active"}
    /\ assetLive \in BOOLEAN
    /\ row \in {"none", "pending", "acked"}
    /\ dispatched \in BOOLEAN
    /\ backlog \in 0..MaxBacklog
    /\ lost \in BOOLEAN
    /\ objects \in SUBSET Kinds
    /\ worker \in [Workers -> [step : Steps, attempt : 0..MaxAttempts,
                               renewal : 0..MaxRenewals, renewing : BOOLEAN,
                               done : SUBSET Kinds, made : SUBSET Kinds,
                               fresh : BOOLEAN]]

\* The state CommitUpload leaves behind.
Init ==
    /\ status = "queued"
    /\ attempt = 0
    /\ due = TRUE
    /\ holder = None
    /\ renewal = 0
    /\ leaseLive = FALSE
    /\ isolated = FALSE
    /\ version = "pending"
    /\ outputs = {}
    /\ pointer = "pending"
    /\ assetLive = TRUE
    /\ row = "pending"
    /\ dispatched = FALSE
    /\ backlog = 0
    /\ lost = FALSE
    /\ objects = {}
    /\ worker = [w \in Workers |-> Idle]

-----------------------------------------------------------------------------
(* Outbox, relay, time and the asset *)

\* The relay publishes a due row.  A row whose acknowledgement was not
\* recorded in time is claimed and published again.
RelayPublish ==
    /\ row \in {"pending", "acked"}
    /\ due
    /\ backlog < MaxBacklog
    /\ row' = "acked"
    /\ backlog' = backlog + 1
    /\ UNCHANGED <<jobVars, mediaVars, assetLive, dispatched, lost, objects,
                   worker>>

\* MarkPublished
RelayMark ==
    /\ row = "acked"
    /\ row' = "none"
    /\ dispatched' = TRUE
    /\ UNCHANGED <<jobVars, mediaVars, assetLive, backlog, lost, objects, worker>>

\* ReconcileStaleDispatches: a dispatch that was published long ago and has
\* nothing to show for it gets another row, unless one is still unpublished.
Reconcile ==
    /\ ~isolated
    /\ dispatched
    /\ row = "none"
    /\ \/ status = "queued" /\ due
       \/ status = "processing" /\ ~leaseLive
    /\ row' = "pending"
    /\ UNCHANGED <<jobVars, mediaVars, assetLive, dispatched, backlog, lost,
                   objects, worker>>

\* Uncommitted messages are dropped by the broker, or a topic is recreated.
LoseMessages ==
    /\ backlog > 0
    /\ ~lost
    /\ backlog' = 0
    /\ lost' = TRUE
    /\ worker' = [w \in Workers |-> [worker[w] EXCEPT !.fresh = FALSE]]
    /\ UNCHANGED <<jobVars, mediaVars, assetLive, row, dispatched, objects>>

BecomeDue ==
    /\ ~due
    /\ due' = TRUE
    /\ UNCHANGED <<status, attempt, holder, renewal, leaseLive, isolated,
                   mediaVars, assetLive, queueVars, objects, worker>>

\* The holder is slow, paused, cut off or dead.
LeaseExpires ==
    /\ leaseLive
    /\ leaseLive' = FALSE
    /\ UNCHANGED <<status, attempt, due, holder, renewal, isolated, mediaVars,
                   assetLive, queueVars, objects, worker>>

\* The asset is moved to the Recycle Bin, or restored from it.
DeleteOrRestoreAsset ==
    /\ assetLive' = ~assetLive
    /\ UNCHANGED <<jobVars, mediaVars, queueVars, objects, worker>>

IsolatableAlways == ~isolated  \* faulty variant: terminal jobs are isolated too
Isolatable == status \in {"queued", "processing"} /\ ~isolated

\* IsolateNotification: a poisoned notification names this job.
Isolate ==
    /\ Isolatable
    /\ status' = "failed"
    /\ isolated' = TRUE
    /\ holder' = None
    /\ leaseLive' = FALSE
    /\ UNCHANGED <<attempt, due, renewal, mediaVars, assetLive, queueVars,
                   objects, worker>>

\* RebuildAndEnqueue: an operator replays the job.  The insert fails while an
\* earlier row is unpublished, and then nothing changes.
Replay ==
    /\ isolated
    /\ row = "none"
    /\ status' = "queued"
    /\ isolated' = FALSE
    /\ due' = TRUE
    /\ row' = "pending"
    /\ UNCHANGED <<attempt, holder, renewal, leaseLive, mediaVars, assetLive,
                   dispatched, backlog, lost, objects, worker>>

-----------------------------------------------------------------------------
(* Claims *)

UnleasedFree == holder = None  \* faulty variant: expiry is not looked at
Unleased == holder = None \/ ~leaseLive

\* Faulty variant: the attempts are not counted.
ClaimableAlways ==
    status \in {"queued", "processing"} /\ assetLive /\ due /\ ~isolated /\ Unleased
Claimable ==
    /\ status \in {"queued", "processing"}
    /\ assetLive
    /\ due
    /\ ~isolated
    /\ attempt < MaxAttempts
    /\ Unleased

\* A message is handled by an idle worker; it is redelivered until committed.
Delivered(w) == worker[w].step = "idle" /\ backlog > 0

\* Committing the offset of the front message: whoever else was handling it
\* now handles a message that is already committed.
CommitOffset(w, fresh) ==
    /\ backlog' = IF fresh THEN backlog - 1 ELSE backlog
    /\ worker' = [v \in Workers |->
                    IF v = w THEN Idle
                    ELSE IF fresh THEN [worker[v] EXCEPT !.fresh = FALSE]
                    ELSE worker[v]]

\* ClaimJob takes the lease.
Claim(w) ==
    /\ Delivered(w)
    /\ Claimable
    /\ status' = "processing"
    /\ attempt' = attempt + 1
    /\ holder' = w
    /\ renewal' = 0
    /\ leaseLive' = TRUE
    /\ worker' = [worker EXCEPT ![w] =
                    [Idle EXCEPT !.step = "render", !.attempt = attempt + 1,
                                 !.fresh = TRUE]]
    /\ UNCHANGED <<due, isolated, mediaVars, assetLive, queueVars, objects>>

\* Faulty variant: only the job is failed.
FailJob ==
    /\ UNCHANGED <<version, pointer>>
    /\ status' = "failed"
    /\ holder' = None
    /\ leaseLive' = FALSE

\* failMediaVersion: version, pointer and job fail in one transaction.
Fail ==
    /\ version' = "failed"
    /\ pointer' = IF pointer = "pending" THEN "none" ELSE pointer
    /\ status' = "failed"
    /\ holder' = None
    /\ leaseLive' = FALSE

ExhaustedEarly == attempt + 1 >= MaxAttempts  \* faulty variant: off by one
Exhausted == attempt >= MaxAttempts

\* settleExpiredExhaustedClaim: the last attempt died with its lease.
RecoverExhausted(w) ==
    /\ Delivered(w)
    /\ ~Claimable
    /\ status = "processing"
    /\ ~isolated
    /\ Exhausted
    /\ Unleased
    /\ Fail
    /\ CommitOffset(w, TRUE)
    /\ UNCHANGED <<attempt, due, renewal, isolated, outputs, assetLive, row,
                   dispatched, lost, objects>>

\* Faulty variant: a job leased to another worker is acknowledged too.
SettledOrLeased == isolated \/ status \in {"completed", "failed"} \/ ~Unleased
Settled == isolated \/ status \in {"completed", "failed"}

\* explainRefusal answers terminal or isolated: the message is acknowledged.
\* For every other refusal (leased, not due, exhausted, asset deleted) it
\* stays uncommitted and is delivered again.
AcknowledgeSettled(w) ==
    /\ Delivered(w)
    /\ Settled
    /\ CommitOffset(w, TRUE)
    /\ UNCHANGED <<jobVars, mediaVars, assetLive, row, dispatched, lost,
                   objects>>

-----------------------------------------------------------------------------
(* Execution *)

\* lockLeasedJob: the row still carries exactly the lease this worker holds.
Leased(w) ==
    /\ status = "processing"
    /\ leaseLive
    /\ holder = w
    /\ attempt = worker[w].attempt
    /\ renewal = worker[w].renewal

Executing(w) == worker[w].step \in {"render", "upload", "promote", "reject",
                                    "discard", "settle"}

\* RenewLease, and the keeper being told of it.  In between the worker holds
\* an expiry the row no longer has.
Renew(w) ==
    /\ Executing(w)
    /\ ~worker[w].renewing
    /\ Leased(w)
    /\ renewal < MaxRenewals
    /\ renewal' = renewal + 1
    /\ worker' = [worker EXCEPT ![w].renewing = TRUE]
    /\ UNCHANGED <<status, attempt, due, holder, leaseLive, isolated,
                   mediaVars, assetLive, queueVars, objects>>

Renewed(w) ==
    /\ worker[w].renewing
    /\ worker' = [worker EXCEPT ![w].renewing = FALSE, ![w].renewal = @ + 1]
    /\ UNCHANGED <<jobVars, mediaVars, assetLive, queueVars, objects>>

\* A crash, a failed renewal or a drain: the worker stops where it is, without
\* cleaning up (the context its deletes would use is cancelled), and the
\* message will be delivered again.
Abandon(w) ==
    /\ worker[w].step # "idle"
    /\ worker' = [worker EXCEPT ![w] = Idle]
    /\ UNCHANGED <<jobVars, mediaVars, assetLive, queueVars, objects>>

\* Download and render: accepted, rejected, or failed (storage, time limit).
Render(w, outcome) ==
    /\ worker[w].step = "render"
    /\ worker' = [worker EXCEPT ![w].step = outcome]
    /\ UNCHANGED <<jobVars, mediaVars, assetLive, queueVars, objects>>

\* putArtifact creates the object, or verifies and reuses the one that is there.
PutArtifact(w, k) ==
    /\ worker[w].step = "upload"
    /\ k \notin worker[w].done
    /\ objects' = objects \cup {k}
    /\ worker' = [worker EXCEPT
                    ![w].done = @ \cup {k},
                    ![w].made = IF k \in objects THEN @ ELSE @ \cup {k},
                    ![w].step = IF worker[w].done \cup {k} = Kinds
                                THEN "promote" ELSE "upload"]
    /\ UNCHANGED <<jobVars, mediaVars, assetLive, queueVars>>

UploadFails(w) ==
    /\ worker[w].step = "upload"
    /\ worker' = [worker EXCEPT ![w].step = "discard"]
    /\ UNCHANGED <<jobVars, mediaVars, assetLive, queueVars, objects>>

\* CompleteAndPromote commits.  The worker may get an error for it all the
\* same, when the acknowledgement of the commit is lost.
Promote(w, acknowledged) ==
    /\ worker[w].step = "promote"
    /\ Leased(w)
    /\ assetLive
    /\ pointer = "pending"
    /\ outputs' = Kinds
    /\ version' = "completed"
    /\ pointer' = "active"
    /\ status' = "completed"
    /\ holder' = None
    /\ leaseLive' = FALSE
    /\ worker' = [worker EXCEPT ![w].step =
                    IF acknowledged THEN "commit" ELSE "discard"]
    /\ UNCHANGED <<attempt, due, renewal, isolated, assetLive, queueVars,
                   objects>>

\* A lease that is not held leaves the objects in place; an error (the asset
\* was deleted, the database failed before or after the lease was looked at) has
\* the worker take its own objects back.
PromoteRefused(w) ==
    /\ worker[w].step = "promote"
    /\ \E next \in {"discard", "settle"} :
          /\ next = "settle" => ~Leased(w)
          /\ worker' = [worker EXCEPT ![w].step = next]
    /\ UNCHANGED <<jobVars, mediaVars, assetLive, queueVars, objects>>

\* discard: each delete succeeds or is only logged.
Discard(w) ==
    /\ worker[w].step = "discard"
    /\ \/ \E k \in worker[w].made :
             /\ objects' \in {objects, objects \ {k}}
             /\ worker' = [worker EXCEPT ![w].made = @ \ {k}]
       \/ /\ worker[w].made = {}
          /\ worker' = [worker EXCEPT ![w].step = "settle"]
          /\ UNCHANGED objects
    /\ UNCHANGED <<jobVars, mediaVars, assetLive, queueVars>>

\* FailVersion on rejected content.
Reject(w, acknowledged) ==
    /\ worker[w].step = "reject"
    /\ Leased(w)
    /\ Fail
    /\ worker' = [worker EXCEPT ![w].step =
                    IF acknowledged THEN "commit" ELSE "settle"]
    /\ UNCHANGED <<attempt, due, renewal, isolated, outputs, assetLive,
                   queueVars, objects>>

RejectRefused(w) ==
    /\ worker[w].step = "reject"
    /\ worker' = [worker EXCEPT ![w].step = "settle"]
    /\ UNCHANGED <<jobVars, mediaVars, assetLive, queueVars, objects>>

\* SettleExecutionFailure: the last attempt fails the version; an earlier one
\* requeues the job and inserts its next notification in the same transaction.
SettleExhausted(w) ==
    /\ worker[w].step = "settle"
    /\ Leased(w)
    /\ Exhausted
    /\ Fail
    /\ worker' = [worker EXCEPT ![w].step = "commit"]
    /\ UNCHANGED <<attempt, due, renewal, isolated, outputs, assetLive,
                   queueVars, objects>>

SettleRetry(w) ==
    /\ worker[w].step = "settle"
    /\ Leased(w)
    /\ ~Exhausted
    /\ row = "none"
    /\ status' = "queued"
    /\ due' = FALSE
    /\ holder' = None
    /\ leaseLive' = FALSE
    /\ row' = "pending"
    /\ worker' = [worker EXCEPT ![w].step = "commit"]
    /\ UNCHANGED <<attempt, renewal, isolated, mediaVars, assetLive,
                   dispatched, backlog, lost, objects>>

\* The lease is gone, the insert collides with a row that is not yet marked
\* published, or the database fails: nothing is settled and the message stays.
SettleRefused(w) ==
    /\ worker[w].step = "settle"
    /\ worker' = [worker EXCEPT ![w] = Idle]
    /\ UNCHANGED <<jobVars, mediaVars, assetLive, queueVars, objects>>

\* The run is over and settled durably: its message is committed.
Commit(w) ==
    /\ worker[w].step = "commit"
    /\ CommitOffset(w, worker[w].fresh)
    /\ UNCHANGED <<jobVars, mediaVars, assetLive, row, dispatched, lost,
                   objects>>

-----------------------------------------------------------------------------
Execute(w) ==
    \/ \E outcome \in {"upload", "reject", "settle"} : Render(w, outcome)
    \/ \E k \in Kinds : PutArtifact(w, k)
    \/ UploadFails(w)
    \/ \E acknowledged \in BOOLEAN :
          Promote(w, acknowledged) \/ Reject(w, acknowledged)
    \/ PromoteRefused(w) \/ RejectRefused(w) \/ Discard(w)
    \/ SettleExhausted(w) \/ SettleRetry(w) \/ SettleRefused(w)
    \/ Commit(w)

Receive(w) == Claim(w) \/ RecoverExhausted(w) \/ AcknowledgeSettled(w)

Relay == RelayPublish \/ RelayMark

Next ==
    \/ Relay \/ Reconcile \/ LoseMessages \/ BecomeDue \/ LeaseExpires
    \/ DeleteOrRestoreAsset \/ Isolate \/ Replay
    \/ \E w \in Workers :
          Receive(w) \/ Renew(w) \/ Renewed(w) \/ Abandon(w) \/ Execute(w)

Spec == Init /\ [][Next]_vars

\* Relays, workers and the reconciler run for as long as their process lives,
\* and processes are restarted; leases and delays run out.
Fairness ==
    /\ WF_vars(RelayPublish)
    /\ WF_vars(RelayMark)
    /\ WF_vars(Reconcile)
    /\ WF_vars(BecomeDue)
    /\ WF_vars(LeaseExpires)
    /\ \A w \in Workers : WF_vars(Receive(w)) /\ WF_vars(Execute(w))

FairSpec == Spec /\ Fairness

-----------------------------------------------------------------------------
(* Properties *)

\* Job, version, output rows and pointer reach their outcome together,
\* whatever interrupts the worker; only transport isolation fails a job
\* without failing its version.
OutcomeConsistent ==
    /\ status = "completed" <=> version = "completed"
    /\ status = "failed" /\ ~isolated <=> version = "failed"
    /\ version = "completed" => pointer = "active" /\ outputs = Kinds
    /\ version = "pending" => pointer = "pending" /\ outputs = {}
    /\ version = "failed" => pointer = "none" /\ outputs = {}
    /\ isolated => status = "failed"

\* Whatever is redelivered, isolated, replayed or finished late by a superseded
\* worker, an outcome is never changed, repeated or taken back.
OutcomeFinal ==
    [][version # "pending" => UNCHANGED <<status, mediaVars>>]_vars

\* No lost wake-up: a job that still has to run has an unpublished row or an
\* uncommitted message, however publishing, marking, retrying, duplicating
\* and committing interleave; and if the broker dropped the message, the
\* reconciler will find the job.
NoLostWakeup ==
    status \in {"queued", "processing"} =>
        row # "none" \/ backlog > 0 \/ (lost /\ dispatched)

\* A version is only given up by its content being rejected or after all its
\* attempts: an execution that fails before the last attempt is retried.
GivenUpOnlyWhenExhausted ==
    [][version = "pending" /\ version' = "failed"
       => \/ attempt = MaxAttempts
          \/ \E w \in Workers : holder = w /\ worker[w].step = "reject"]_vars

\* media_rendition_test.go: both derivatives must exist in storage before the
\* database is told they do.  Here: a completed version has both.
CompletedHasDerivatives == version = "completed" => objects = Kinds

\* An accepted upload is eventually settled: provided its asset is left alone
\* in the end, and that isolations happen before its last attempt and are
\* replayed.
JobSettles ==
    (<>[]assetLive /\ <>[]~isolated /\ [](isolated => attempt < MaxAttempts))
    => <>(status \in {"completed", "failed"} /\ ~isolated)

\* media_worker_test.go: "an exhausted queued job is not durable terminal
\* state".  Then it must leave that state again.
ExhaustedQueuedJobMovesOn ==
    <>[]assetLive =>
        (status = "queued" /\ attempt = MaxAttempts ~> status # "queued")
=============================================================================
