------------------------ MODULE NotificationPartition ------------------------
(***************************************************************************)
(* One partition of the media notification topic, the jobs whose           *)
(* notifications share it, and the media workers that consume it as one    *)
(* group.                                                                  *)
(*                                                                         *)
(* A worker fetches a record, delivers it until the consumer says that its *)
(* offset may be committed, commits, and fetches the next.  A poison       *)
(* record is isolated first: the job it names is taken out of processing   *)
(* in the database, then a record goes to the dead letter topic.  A record *)
(* that cannot be settled is retried in place, and after                   *)
(* MaxDeliveryAttempts the whole process stops with the offset             *)
(* uncommitted.  A restarted worker, or another one after a rebalance,     *)
(* resumes at the committed offset.                                        *)
(*                                                                         *)
(* MediaJob models what happens to one job in detail; here a job is what   *)
(* the partition sees of it: whether it can be claimed, by whom it is      *)
(* leased, and whether an outbox row will announce it again.               *)
(***************************************************************************)
EXTENDS Integers, Sequences, FiniteSets

CONSTANTS Job,
          Worker,
          None,                 \* no worker, no job
          MaxDeliveryAttempts,  \* ReaderOptions.MaxDeliveryAttempts
          MaxAttempts,          \* processing attempts of a job
          MaxPoison,            \* bound on the poison records of a behaviour
          MaxFaults             \* bound on its faults and operator commands

ASSUME PartitionAssumption ==
    /\ None \notin Worker \cup Job
    /\ MaxDeliveryAttempts \in Nat \ {0} /\ MaxAttempts \in Nat \ {0}
    /\ MaxPoison \in Nat /\ MaxFaults \in Nat

VARIABLES
    job,        \* the rows of media_processing_jobs, as far as the partition sees them
    log,        \* the records of the partition
    committed,  \* how many of them the group has committed
    position,   \* how many the current assignment has fetched
    owner,      \* the worker the partition is assigned to
    dlq,        \* the records with an entry in the dead letter topic
    worker,     \* the state of each reader
    faults

vars == <<job, log, committed, position, owner, dlq, worker, faults>>
partition == <<log, committed, position>>

NewJob == [status |-> "queued", holder |-> None, tries |-> 0, due |-> TRUE,
           row |-> TRUE, deleted |-> FALSE]

\* A reader: the record in hand, and the deliveries of it that failed.  One
\* that has stopped is restarted, and waits for an assignment like any other.
Waiting == [pc |-> "fetch", hand |-> 0, attempts |-> 0]

Init ==
    /\ job = [j \in Job |-> NewJob]
    /\ log = <<>>
    /\ committed = 0
    /\ position = 0
    /\ owner = None
    /\ dlq = {}
    /\ worker = [w \in Worker |-> Waiting]
    /\ faults = 0

Open(j) == job[j].status \in {"queued", "processing"}

-----------------------------------------------------------------------------
\* The producers of the partition.

Poisons == {i \in DOMAIN log : log[i].poison}

\* The relay publishes the due outbox row of a job and marks it published.
Publish(j) ==
    /\ job[j].row /\ job[j].due
    /\ log' = Append(log, [job |-> j, poison |-> FALSE])
    /\ job' = [job EXCEPT ![j].row = FALSE]
    /\ UNCHANGED <<committed, position, owner, dlq, worker, faults>>

\* The mark is not recorded: the row will be published again.
PublishTwice(j) ==
    /\ faults < MaxFaults
    /\ job[j].row /\ job[j].due
    /\ log' = Append(log, [job |-> j, poison |-> FALSE])
    /\ faults' = faults + 1
    /\ UNCHANGED <<job, committed, position, owner, dlq, worker>>

\* A record the consumer rejects: oversized, malformed, of an unknown version
\* or type, keyed by another job, or at odds with the database.  It may name a
\* job that exists, or none.
AppendPoison(j) ==
    /\ Cardinality(Poisons) < MaxPoison
    /\ log' = Append(log, [job |-> j, poison |-> TRUE])
    /\ UNCHANGED <<job, committed, position, owner, dlq, worker, faults>>

-----------------------------------------------------------------------------
\* One reader.

Record(w) == log[worker[w].hand]
TheJob(w) == Record(w).job

Goto(w, pc) == worker' = [worker EXCEPT ![w].pc = pc]

\* The process ends, and with it its membership of the group.
Stop(w) ==
    /\ worker' = [worker EXCEPT ![w] = Waiting]
    /\ owner' = IF owner = w THEN None ELSE owner

\* Faulty variant: a record that cannot be settled is skipped.
SkipAfterAttempts(w) ==
    /\ worker' = [worker EXCEPT
          ![w].pc = IF worker[w].attempts + 1 >= MaxDeliveryAttempts THEN "commit" ELSE "deliver",
          ![w].attempts = worker[w].attempts + 1]
    /\ UNCHANGED owner

\* LeaveUncommitted: the record is delivered again after RetryBackoff, or the
\* attempts are used up (ErrDeliveryStalled) and the process ends.
LeaveUncommitted(w) ==
    IF worker[w].attempts + 1 >= MaxDeliveryAttempts THEN Stop(w)
    ELSE /\ worker' = [worker EXCEPT ![w].pc = "deliver", ![w].attempts = worker[w].attempts + 1]
         /\ UNCHANGED owner

\* FetchMessage: the next record of the assignment.
Fetch(w) ==
    /\ worker[w].pc = "fetch"
    /\ owner = w
    /\ position < Len(log)
    /\ position' = position + 1
    /\ worker' = [worker EXCEPT ![w] = [pc |-> "deliver", hand |-> position + 1,
                                        attempts |-> 0]]
    /\ UNCHANGED <<job, log, committed, owner, dlq, faults>>

\* Deliver rejects the record, or VerifyNotification finds no such job.
Poisonous(w) == ~Record(w).poison => job[TheJob(w)].status = "gone"

Reject(w) ==
    /\ worker[w].pc = "deliver"
    /\ Poisonous(w)
    /\ Goto(w, IF TheJob(w) = None THEN "publish" ELSE "isolate")
    /\ UNCHANGED <<job, partition, owner, dlq, faults>>

\* Faulty variant: the offset is committed without a dead letter.
IsolateUnreported(w) ==
    /\ worker[w].pc = "isolate"
    /\ job' = IF Open(TheJob(w))
              THEN [job EXCEPT ![TheJob(w)].status = "isolated", ![TheJob(w)].holder = None]
              ELSE job
    /\ Goto(w, "commit")
    /\ UNCHANGED <<partition, owner, dlq, faults>>

\* IsolateNotification takes an unfinished job out of processing, whoever
\* leases it.
Isolate(w) ==
    /\ worker[w].pc = "isolate"
    /\ job' = IF Open(TheJob(w))
              THEN [job EXCEPT ![TheJob(w)].status = "isolated",
                               ![TheJob(w)].holder = None]
              ELSE job
    /\ Goto(w, "publish")
    /\ UNCHANGED <<partition, owner, dlq, faults>>

\* The dead letter record, identified by topic, partition, offset and reason.
DeadLetter(w) ==
    /\ worker[w].pc = "publish"
    /\ dlq' = dlq \cup {worker[w].hand}
    /\ Goto(w, "commit")
    /\ UNCHANGED <<job, partition, owner, faults>>

ExhaustedLate(j) == job[j].tries > MaxAttempts  \* faulty variant: off by one
Exhausted(j) == job[j].tries >= MaxAttempts
Unleased(j) == job[j].holder = None

Claimable(j) ==
    Open(j) /\ ~job[j].deleted /\ job[j].due /\ ~Exhausted(j) /\ Unleased(j)

\* ClaimJob: the job is leased to the worker, which executes it.
Claim(w) ==
    /\ worker[w].pc = "deliver"
    /\ ~Poisonous(w)
    /\ Claimable(TheJob(w))
    /\ job' = [job EXCEPT ![TheJob(w)].status = "processing",
                          ![TheJob(w)].holder = w,
                          ![TheJob(w)].tries = job[TheJob(w)].tries + 1]
    /\ Goto(w, "execute")
    /\ UNCHANGED <<partition, owner, dlq, faults>>

AbandonedNever(j) == FALSE  \* faulty variant: such a job stays in processing

\* settleExpiredExhaustedClaim: an attempt that was abandoned was the last.
Abandoned(j) == job[j].status = "processing" /\ Unleased(j) /\ Exhausted(j)

\* ErrJobSettled: nothing is left to do, the record is acknowledged.
AcknowledgeSettled(w) ==
    /\ worker[w].pc = "deliver"
    /\ ~Poisonous(w)
    /\ ~Open(TheJob(w)) \/ Abandoned(TheJob(w))
    /\ job' = IF Open(TheJob(w)) THEN [job EXCEPT ![TheJob(w)].status = "settled"] ELSE job
    /\ Goto(w, "commit")
    /\ UNCHANGED <<partition, owner, dlq, faults>>

\* The claim is refused: the job is leased, not due, exhausted in the queue, or
\* its asset is deleted.
Unavailable(w) ==
    /\ worker[w].pc = "deliver"
    /\ ~Poisonous(w)
    /\ Open(TheJob(w)) /\ ~Claimable(TheJob(w)) /\ ~Abandoned(TheJob(w))
    /\ LeaveUncommitted(w)
    /\ UNCHANGED <<job, partition, dlq, faults>>

Leased(w) == job[TheJob(w)].holder = w

\* The version is promoted or rejected, or its last attempt failed.
Finish(w) ==
    /\ worker[w].pc = "execute"
    /\ Leased(w)
    /\ ~job[TheJob(w)].deleted
    /\ job' = [job EXCEPT ![TheJob(w)].status = "settled", ![TheJob(w)].holder = None]
    /\ Goto(w, "commit")
    /\ UNCHANGED <<partition, owner, dlq, faults>>

\* SettleExecutionFailure: the job waits for its retry, whose outbox row is
\* inserted in the same transaction; an unpublished row of the job excludes it.
Reschedule(w) ==
    /\ worker[w].pc = "execute"
    /\ Leased(w)
    /\ IF Exhausted(TheJob(w))
       THEN job' = [job EXCEPT ![TheJob(w)].status = "settled", ![TheJob(w)].holder = None]
       ELSE /\ ~job[TheJob(w)].row
            /\ job' = [job EXCEPT ![TheJob(w)].status = "queued", ![TheJob(w)].holder = None,
                                  ![TheJob(w)].due = FALSE, ![TheJob(w)].row = TRUE]
    /\ Goto(w, "commit")
    /\ UNCHANGED <<partition, owner, dlq, faults>>

\* The lease was lost, or the retry's row collides with an unpublished one.
Unsettled(w) ==
    /\ worker[w].pc = "execute"
    /\ ~Leased(w) \/ (job[TheJob(w)].row /\ ~Exhausted(TheJob(w)))
    /\ LeaveUncommitted(w)
    /\ UNCHANGED <<job, partition, dlq, faults>>

\* CommitMessages.  The commit of a worker that lost the partition may still be
\* accepted, and then moves the offset, perhaps back; or it is refused.
Commit(w) ==
    /\ worker[w].pc = "commit"
    /\ committed' = worker[w].hand
    /\ worker' = [worker EXCEPT ![w] = Waiting]
    /\ UNCHANGED <<job, log, position, owner, dlq, faults>>

CommitRefused(w) ==
    /\ worker[w].pc = "commit"
    /\ owner # w
    /\ Stop(w)
    /\ UNCHANGED <<job, partition, dlq, faults>>

-----------------------------------------------------------------------------
\* Faults, time and the group.

Fault == faults < MaxFaults /\ faults' = faults + 1

\* A call to the database, the storage or the broker fails, before or after it
\* took effect.
CallFails(w) ==
    /\ Fault
    /\ worker[w].pc \in {"deliver", "isolate", "publish", "execute"}
    /\ LeaveUncommitted(w)
    /\ UNCHANGED <<job, partition, dlq>>

\* The process is killed, asked to stop between two records, or loses the
\* broker while it commits.
Crash(w) ==
    /\ Fault
    /\ worker[w] # Waiting
    /\ Stop(w)
    /\ UNCHANGED <<job, partition, dlq>>

\* The partition is assigned to a running worker, which resumes at the
\* committed offset: because its owner stopped, or in a rebalance.
Assign(w) ==
    /\ owner # w
    /\ IF owner = None THEN UNCHANGED faults ELSE Fault
    /\ owner' = w
    /\ position' = committed
    /\ UNCHANGED <<job, log, committed, dlq, worker>>

Executing(j) == \E w \in Worker : worker[w].pc = "execute" /\ TheJob(w) = j /\ Leased(w)

LeaseExpires(j) ==
    /\ ~Unleased(j)
    /\ IF Executing(j) THEN Fault ELSE UNCHANGED faults
    /\ job' = [job EXCEPT ![j].holder = None]
    /\ UNCHANGED <<partition, owner, dlq, worker>>

BecomeDue(j) ==
    /\ ~job[j].due
    /\ job' = [job EXCEPT ![j].due = TRUE]
    /\ UNCHANGED <<partition, owner, dlq, worker, faults>>

\* RebuildAndEnqueue, the operator's replay of an isolated job.
Replay(j) ==
    /\ Fault
    /\ job[j].status = "isolated"
    /\ job' = [job EXCEPT ![j].status = "queued", ![j].due = TRUE, ![j].row = TRUE]
    /\ UNCHANGED <<partition, owner, dlq, worker>>

\* The asset is deleted, restored, or deleted for good with its job and its row.
Delete(j) ==
    /\ Fault
    /\ job[j].status # "gone" /\ ~job[j].deleted
    /\ job' = [job EXCEPT ![j].deleted = TRUE]
    /\ UNCHANGED <<partition, owner, dlq, worker>>

Restore(j) ==
    /\ job[j].status # "gone" /\ job[j].deleted
    /\ job' = [job EXCEPT ![j].deleted = FALSE]
    /\ UNCHANGED <<partition, owner, dlq, worker, faults>>

Purge(j) ==
    /\ job[j].status # "gone" /\ job[j].deleted
    /\ job' = [job EXCEPT ![j].status = "gone", ![j].holder = None, ![j].row = FALSE]
    /\ UNCHANGED <<partition, owner, dlq, worker, faults>>

-----------------------------------------------------------------------------
Read(w) ==
    \/ Fetch(w) \/ Commit(w)
    \/ Reject(w) \/ Isolate(w) \/ DeadLetter(w)
    \/ Claim(w) \/ AcknowledgeSettled(w) \/ Unavailable(w)
    \/ Finish(w) \/ Reschedule(w) \/ Unsettled(w)

Next ==
    \/ \E j \in Job : \/ Publish(j) \/ PublishTwice(j) \/ LeaseExpires(j) \/ BecomeDue(j)
                      \/ Replay(j) \/ Delete(j) \/ Restore(j) \/ Purge(j)
    \/ \E j \in Job \cup {None} : AppendPoison(j)
    \/ \E w \in Worker : \/ Read(w) \/ CommitRefused(w) \/ CallFails(w) \/ Crash(w)
                         \/ Assign(w)

Spec == Init /\ [][Next]_vars

\* The processes run and are restarted, the group assigns the partition to a
\* running worker, the relay publishes and time passes.  Nothing obliges an
\* asset to be restored or purged, nor an operator to replay.
Fairness ==
    /\ \A w \in Worker : WF_vars(Read(w)) /\ WF_vars(Assign(w) /\ UNCHANGED faults)
    /\ \A j \in Job : /\ WF_vars(Publish(j)) /\ WF_vars(BecomeDue(j))
                      /\ WF_vars(LeaseExpires(j) /\ UNCHANGED faults)

FairSpec == Spec /\ Fairness

-----------------------------------------------------------------------------
\* Types of the jobs, the partition and the readers.
TypeOK ==
    /\ job \in [Job -> [status : {"queued", "processing", "settled", "isolated", "gone"},
                        holder : Worker \cup {None}, tries : 0..MaxAttempts,
                        due : BOOLEAN, row : BOOLEAN, deleted : BOOLEAN]]
    /\ log \in Seq([job : Job \cup {None}, poison : BOOLEAN])
    /\ \A i \in DOMAIN log : log[i].job = None => log[i].poison
    /\ committed \in 0..Len(log)
    /\ position \in 0..Len(log)
    /\ owner \in Worker \cup {None}
    /\ dlq \subseteq 1..Len(log)
    /\ worker \in [Worker -> [pc : {"fetch", "deliver", "isolate", "publish",
                                    "execute", "commit"},
                              hand : 0..Len(log), attempts : 0..MaxDeliveryAttempts]]
    /\ \A w \in Worker : worker[w].pc # "fetch" => worker[w].hand # 0
    /\ faults \in 0..MaxFaults

\* A notification of job j follows the first n records.
Announced(j, n) == \E i \in (n + 1)..Len(log) : log[i] = [job |-> j, poison |-> FALSE]

\* Job j has something that will have it processed once n records are passed.
Woken(j, n) == Open(j) => job[j].row \/ Announced(j, n)

\* Committing an offset loses no work: a job that is not settled has an outbox
\* row to announce it, or a notification the group has not committed.  It holds
\* whatever the neighbours in the partition do, across rebalances with a commit
\* of the former owner, redeliveries, isolation and replay.
WakeupKept == \A j \in Job : Woken(j, committed)

\* The poison among the first n records has a dead letter.
Buried(n) == \A i \in 1..n : log[i].poison => i \in dlq

\* If job j is isolated, a poison record that names it has a dead letter, or
\* will be delivered again once n records are passed.
Known(j, n) ==
    job[j].status = "isolated" =>
        \E i \in 1..Len(log) : log[i] = [job |-> j, poison |-> TRUE] /\ (i \in dlq \/ i > n)

\* A poison record is passed over only after the dead letter topic has it, and
\* no job is isolated without the operator being told, now or at redelivery.
QuarantineReported == Buried(committed) /\ \A j \in Job : Known(j, committed)

\* A job no notification can move: exhausted in the queue (replayed after its
\* last attempt), or of a deleted asset.
Stuck(j) == Open(j) /\ (job[j].deleted \/ (job[j].status = "queued" /\ Exhausted(j)))

\* No record holds up the partition for ever: if no job stays stuck, every job
\* is settled, isolated or purged, whatever poison lies between.
PartitionDrains ==
    (<>[](\A k \in Job : ~Stuck(k))) => \A j \in Job : (Open(j) ~> ~Open(j))

\* One stuck job holds up its neighbours: their notifications are behind it.
NeighboursUnaffected ==
    \A j \in Job : (Open(j) ~> (~Open(j) \/ Stuck(j)))
=============================================================================
