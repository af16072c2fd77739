---------------------------- MODULE AssetEvents ----------------------------
(***************************************************************************)
(* The asset events: Asset Core commits a move, deletion or restore and    *)
(* then appends an event to a Redis stream, best-effort; the cache         *)
(* invalidators of Access Core, one per process, read the stream as one    *)
(* consumer group and bump the organization's asset epoch.                 *)
(*                                                                         *)
(* Delivery is at least once.  An entry read and not acknowledged stays    *)
(* pending; after CLAIM_IDLE_MS any invalidator may claim it, and after    *)
(* MAX_DELIVERIES it goes to the dead letter stream.  A marker with a TTL  *)
(* makes a redelivery harmless while it lives.  An invalidator may stop    *)
(* between any two commands: an error drops the rest of its batch, a       *)
(* restart makes it a consumer of another name.  A lost connection is      *)
(* never made again: every command fails until the process is restarted.   *)
(***************************************************************************)
EXTENDS Integers, SequencesExt

CONSTANTS Event,         \* events Asset Core may publish
          Unsupported,   \* those with another eventType, or malformed
          Consumer,      \* the cache invalidators
          MAX_DELIVERIES,
          READ_COUNT,    \* entries read or scanned at a time
          MaxFailures,   \* bound on the failures of a behaviour
          MaxExpiries    \* bound on the expired markers of a behaviour

ASSUME EventsAssumption ==
    /\ Unsupported \subseteq Event
    /\ MAX_DELIVERIES \in Nat \ {0} /\ READ_COUNT \in Nat \ {0}
    /\ MaxFailures \in Nat /\ MaxExpiries \in Nat

VARIABLES
    committed,   \* events whose transaction committed and that are not yet published
    stream,      \* the entries of stream:asset-events
    group,       \* whether the consumer group exists
    cursor,      \* last-delivered-id of the group
    pending,     \* the group's pending entries
    marker,      \* live processed markers
    epoch,       \* the asset epoch
    bumps,       \* how often an event bumped it
    dlq,         \* how often an event was dead-lettered
    worker,      \* state of each invalidator's loop
    failures, expiries

redisVars == <<stream, group, cursor, pending, marker, epoch, bumps, dlq>>
vars == <<committed, redisVars, worker, failures, expiries>>

NotPending == [deliveries |-> 0, idle |-> FALSE]
IsPending(e) == pending[e] # NotPending

\* pc: "start", "scan" (XPENDING), "read" (XREADGROUP), then per entry "claim",
\* "effect" or "dead", and "ack"; "closed" when the connection is lost.  batch
\* holds the entries left to process, each with the delivery count XPENDING
\* reported; 0 for an entry just read.
Starting == [pc |-> "start", batch |-> <<>>]
Fresh == [pc |-> "scan", batch |-> <<>>]
Closed == [pc |-> "closed", batch |-> <<>>]

Init ==
    /\ committed = {}
    /\ stream = <<>>
    /\ group = FALSE
    /\ cursor = 0
    /\ pending = [e \in Event |-> NotPending]
    /\ marker = {}
    /\ epoch = 0
    /\ bumps = [e \in Event |-> 0]
    /\ dlq = [e \in Event |-> 0]
    /\ worker = [c \in Consumer |-> Starting]
    /\ failures = 0
    /\ expiries = 0

-----------------------------------------------------------------------------
\* Asset Core.

Published == {stream[i] : i \in 1..Len(stream)}

Commit(e) ==
    /\ e \notin committed \cup Published
    /\ committed' = committed \cup {e}
    /\ UNCHANGED <<redisVars, worker, failures, expiries>>

\* PublishFolderMoved and its like: one XADD after the commit.  A failed one is
\* not retried: the event stays committed and is never published.
Publish(e) ==
    /\ e \in committed
    /\ committed' = committed \ {e}
    /\ stream' = Append(stream, e)
    /\ UNCHANGED <<group, cursor, pending, marker, epoch, bumps, dlq, worker, failures, expiries>>

-----------------------------------------------------------------------------
\* One invalidator.

Goto(c, pc) == worker' = [worker EXCEPT ![c].pc = pc]

Entry(c) == Head(worker[c].batch).event

\* The loop goes on with the next entry of the batch: one of the scan is to be
\* claimed, one just read to be processed.  After the scan's entries it reads,
\* after the read's it scans.
Advance(c, rest, scanned) ==
    worker' = [worker EXCEPT ![c] =
        [pc |-> IF rest # <<>> THEN (IF scanned THEN "claim" ELSE "effect")
                ELSE (IF scanned THEN "read" ELSE "scan"),
         batch |-> rest]]

\* The entries are those of the scan when XPENDING reported them.
Scanned(c) == Head(worker[c].batch).deliveries > 0
Proceed(c) == Advance(c, Tail(worker[c].batch), Scanned(c))

\* ensureConsumerGroup creates the group at the start of the stream, or finds
\* that another process has.  It is called once, and its error is ignored.
EnsureGroup(c) ==
    /\ worker[c].pc = "start"
    /\ group' = TRUE
    /\ worker' = [worker EXCEPT ![c] = Fresh]
    /\ UNCHANGED <<committed, stream, cursor, pending, marker, epoch, bumps, dlq, failures,
                   expiries>>

StaleBelowMax(e) == pending[e].idle /\ pending[e].deliveries < MAX_DELIVERIES  \* faulty variant
Stale(e) == pending[e].idle

\* reclaimStalePending lists the first READ_COUNT entries, in the order of the
\* stream, that have been idle for CLAIM_IDLE_MS.
Scan(c) ==
    /\ worker[c].pc = "scan"
    /\ group
    /\ LET stale == {i \in 1..Len(stream) : Stale(stream[i])}
           first == {i \in stale : Cardinality({j \in stale : j < i}) < READ_COUNT}
       IN \E order \in [1..Cardinality(first) -> first] :
             /\ \A i, j \in DOMAIN order : i < j => order[i] < order[j]
             /\ Advance(c, [i \in DOMAIN order |->
                              [event |-> stream[order[i]],
                               deliveries |-> pending[stream[order[i]]].deliveries]],
                        TRUE)
    /\ UNCHANGED <<committed, redisVars, failures, expiries>>

\* XCLAIM succeeds when the entry is still pending and still idle; it counts a
\* delivery.  Whether the entry is dead was decided by the scan's count.
Claim(c) ==
    /\ worker[c].pc = "claim"
    /\ IF pending[Entry(c)].idle
       THEN /\ pending' = [pending EXCEPT ![Entry(c)] =
                             [deliveries |-> @.deliveries + 1, idle |-> FALSE]]
            /\ Goto(c, IF Head(worker[c].batch).deliveries >= MAX_DELIVERIES
                       THEN "dead" ELSE "effect")
       ELSE Proceed(c) /\ UNCHANGED pending
    /\ UNCHANGED <<committed, stream, group, cursor, marker, epoch, bumps, dlq, failures, expiries>>

\* processBatch: XREADGROUP ">" delivers the next entries to this consumer.
ReadBatch(c) ==
    /\ worker[c].pc = "read"
    /\ LET n == Min({READ_COUNT, Len(stream) - cursor})
           read == SubSeq(stream, cursor + 1, cursor + n)
       IN /\ cursor' = cursor + n
          /\ pending' = [e \in Event |->
                IF Contains(read, e) THEN [deliveries |-> 1, idle |-> FALSE] ELSE pending[e]]
          /\ Advance(c, [i \in DOMAIN read |-> [event |-> read[i], deliveries |-> 0]], FALSE)
    /\ UNCHANGED <<committed, stream, group, marker, epoch, bumps, dlq, failures, expiries>>

\* Faulty variant: two commands, the marker first, and a failure between them.
EffectInTwoCommands(c) ==
    /\ worker[c].pc = "effect"
    /\ marker' = marker \cup {Entry(c)}
    /\ \/ Entry(c) \in marker /\ Goto(c, "ack") /\ UNCHANGED <<epoch, bumps>>
       \/ worker' = [worker EXCEPT ![c] = Fresh] /\ UNCHANGED <<epoch, bumps>>
       \/ /\ Entry(c) \notin marker
          /\ Goto(c, "ack")
          /\ epoch' = epoch + 1
          /\ bumps' = [bumps EXCEPT ![Entry(c)] = @ + 1]
    /\ UNCHANGED <<committed, stream, group, cursor, pending, dlq, failures, expiries>>

\* Faulty variant: two commands, the epoch first, and a failure between them.
EffectMarkedLast(c) ==
    /\ worker[c].pc = "effect"
    /\ IF Entry(c) \in Unsupported \cup marker
       THEN UNCHANGED <<marker, epoch, bumps>> /\ Goto(c, "ack")
       ELSE /\ epoch' = epoch + 1
            /\ bumps' = [bumps EXCEPT ![Entry(c)] = @ + 1]
            /\ \/ marker' = marker \cup {Entry(c)} /\ Goto(c, "ack")
               \/ marker' = marker /\ worker' = [worker EXCEPT ![c] = Fresh]
    /\ UNCHANGED <<committed, stream, group, cursor, pending, dlq, failures, expiries>>

\* applyLifecycleEffect: the script sets the marker and increments the epoch, or
\* does nothing when the marker is there.  An unsupported or malformed event
\* has no effect.
Effect(c) ==
    /\ worker[c].pc = "effect"
    /\ IF Entry(c) \in Unsupported \cup marker
       THEN UNCHANGED <<marker, epoch, bumps>>
       ELSE /\ marker' = marker \cup {Entry(c)}
            /\ epoch' = epoch + 1
            /\ bumps' = [bumps EXCEPT ![Entry(c)] = @ + 1]
    /\ Goto(c, "ack")
    /\ UNCHANGED <<committed, stream, group, cursor, pending, dlq, failures, expiries>>

\* deadLetter appends the entry to the dead letter stream and then acknowledges.
DeadLetter(c) ==
    /\ worker[c].pc = "dead"
    /\ dlq' = [dlq EXCEPT ![Entry(c)] = @ + 1]
    /\ Goto(c, "ack")
    /\ UNCHANGED <<committed, stream, group, cursor, pending, marker, epoch, bumps, failures, expiries>>

\* XACK removes the entry from the pending list, whoever holds it.
Ack(c) ==
    /\ worker[c].pc = "ack"
    /\ pending' = [pending EXCEPT ![Entry(c)] = NotPending]
    /\ Proceed(c)
    /\ UNCHANGED <<committed, stream, group, cursor, marker, epoch, bumps, dlq, failures, expiries>>

Failure == failures < MaxFailures /\ failures' = failures + 1

\* Redis refuses a command: the rest of the batch is dropped and the loop starts
\* over, without a group if it was the one that creates it.
CommandFails(c) ==
    /\ Failure
    /\ worker[c] \notin {Fresh, Closed}
    /\ worker' = [worker EXCEPT ![c] = Fresh]
    /\ UNCHANGED <<committed, redisVars, expiries>>

\* The connection is lost; retryStrategy says not to make another.
Disconnect(c) ==
    /\ Failure
    /\ worker[c] # Closed
    /\ worker' = [worker EXCEPT ![c] = Closed]
    /\ UNCHANGED <<committed, redisVars, expiries>>

\* The process stops, or is restarted because its connection is lost.
Restart(c) ==
    /\ worker[c] # Starting
    /\ IF worker[c] = Closed THEN UNCHANGED failures ELSE Failure
    /\ worker' = [worker EXCEPT ![c] = Starting]
    /\ UNCHANGED <<committed, redisVars, expiries>>

-----------------------------------------------------------------------------
\* Time.

\* A pending entry has not been delivered for CLAIM_IDLE_MS, whether its
\* consumer is gone or only slow.
GoIdle(e) ==
    /\ IsPending(e)
    /\ ~pending[e].idle
    /\ pending' = [pending EXCEPT ![e].idle = TRUE]
    /\ UNCHANGED <<committed, stream, group, cursor, marker, epoch, bumps, dlq, worker, failures,
                   expiries>>

\* PROCESSED_MARKER_TTL_SECONDS is over.
MarkerExpires(e) ==
    /\ e \in marker
    /\ expiries < MaxExpiries
    /\ expiries' = expiries + 1
    /\ marker' = marker \ {e}
    /\ UNCHANGED <<committed, stream, group, cursor, pending, epoch, bumps, dlq, worker, failures>>

-----------------------------------------------------------------------------
Consume(c) ==
    \/ EnsureGroup(c) \/ Scan(c) \/ Claim(c) \/ ReadBatch(c)
    \/ Effect(c) \/ DeadLetter(c) \/ Ack(c)

Next ==
    \/ \E e \in Event : Commit(e) \/ Publish(e) \/ GoIdle(e) \/ MarkerExpires(e)
    \/ \E c \in Consumer : Consume(c) \/ CommandFails(c) \/ Disconnect(c) \/ Restart(c)

Spec == Init /\ [][Next]_vars

\* An invalidator's loop runs, and time passes.  Nothing obliges Asset Core to
\* publish, nor anybody to restart an invalidator.
Fairness ==
    /\ \A c \in Consumer : WF_vars(Consume(c))
    /\ \A e \in Event : WF_vars(GoIdle(e))

FairSpec == Spec /\ Fairness

-----------------------------------------------------------------------------
\* Types of the stream, the group and the loops.
TypeOK ==
    /\ committed \subseteq Event
    /\ stream \in Seq(Event)
    /\ group \in BOOLEAN
    /\ cursor \in 0..Len(stream)
    /\ pending \in [Event -> [deliveries : Nat, idle : BOOLEAN]]
    /\ marker \subseteq Event
    /\ epoch \in Nat
    /\ bumps \in [Event -> Nat]
    /\ dlq \in [Event -> Nat]
    /\ worker \in [Consumer ->
          [pc : {"start", "closed", "scan", "read", "claim", "effect", "dead", "ack"},
           batch : Seq([event : Event, deliveries : Nat])]]
    /\ failures \in 0..MaxFailures
    /\ expiries \in 0..MaxExpiries

Delivered == {stream[i] : i \in 1..cursor}

Settled(e) == e \in Unsupported \/ bumps[e] > 0 \/ dlq[e] > 0

\* No event is lost between the stream and the epoch: an entry that left the
\* pending list bumped the asset epoch or is in the dead letter stream, however
\* the deliveries of several invalidators overlapped and wherever one stopped.
AckedIsSettled == \A e \in Delivered : ~IsPending(e) => Settled(e)

\* The marker absorbs redeliveries: beyond the first, an event bumps the epoch
\* only when its marker had expired in between.
RedeliveryAbsorbed ==
    \A e \in Event : bumps[e] <= 1 + expiries

\* Some invalidator can work: the group exists and a connection lives.
Serving == group /\ \E c \in Consumer : worker[c] # Closed

\* Every published event is settled in the end, as long as one invalidator keeps
\* its connection: an entry whose consumer crashed, was restarted under another
\* name or lost its connection is claimed by another, and what was published
\* before the group existed is read.
PublishedIsSettled == <>[]Serving => \A e \in Event : (e \in Published ~> Settled(e))

\* The pending list drains: no entry is claimed and given back for ever.
PendingDrains == <>[]Serving => \A e \in Event : (IsPending(e) ~> ~IsPending(e))
=============================================================================
