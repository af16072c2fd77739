------------------------ MODULE AssetEventsTheorems ------------------------
(***************************************************************************)
(* For any events, invalidators and bounds: the types of AssetEvents, that *)
(* no entry leaves the pending list before it is settled, and that only an *)
(* expired marker lets a redelivery bump the epoch again.                  *)
(***************************************************************************)
EXTENDS AssetEvents, FiniteSetTheorems, SequenceTheorems, TLAPS

-----------------------------------------------------------------------------
(* Batches *)

Batches == Seq([event : Event, deliveries : Nat])

States == {"start", "closed", "scan", "read", "claim", "effect", "dead", "ack"}

\* A worker in the middle of an entry has that entry at the head of its batch.
Busy(c) == worker[c].pc \in {"claim", "effect", "dead", "ack"}

BusyHasEntry == \A c \in Consumer : Busy(c) => worker[c].batch # <<>>

\* Min of two numbers, as READ_COUNT and what is left of the stream.
LEMMA MinOfTwo ==
  ASSUME NEW a \in Int, NEW b \in Int
  PROVE  Min({a, b}) = IF a <= b THEN a ELSE b
<1>1. \E x \in {a, b} : \A y \in {a, b} : x <= y
  OBVIOUS
<1>2. Min({a, b}) \in {a, b} /\ \A y \in {a, b} : Min({a, b}) <= y
  BY <1>1 DEF Min
<1> QED
  BY <1>2

\* A function on 1..k to entries is a batch.
LEMMA SequenceOfEntries ==
  ASSUME NEW k \in Nat, NEW f \in [1..k -> [event : Event, deliveries : Nat]]
  PROVE  f \in Batches
BY SeqDef DEF Batches

\* The head of a batch is an entry, and what follows it is a batch.
LEMMA HeadOfBatch ==
  ASSUME NEW b \in Batches, b # <<>>
  PROVE  /\ Head(b) \in [event : Event, deliveries : Nat]
         /\ Tail(b) \in Batches
BY HeadTailProperties DEF Batches

\* Going on with a batch gives a worker a state and entries of the right kind,
\* and an entry whenever its state needs one.
LEMMA AdvanceType ==
  ASSUME TypeOK, BusyHasEntry, NEW c \in Consumer, NEW rest \in Batches,
         NEW scanned \in BOOLEAN, Advance(c, rest, scanned)
  PROVE  /\ worker' \in [Consumer -> [pc : States, batch : Batches]]
         /\ BusyHasEntry'
         /\ worker'[c].pc \in {"scan", "read", "claim", "effect"}
         /\ \A d \in Consumer \ {c} : worker'[d] = worker[d]
<1> DEFINE next == [pc |-> IF rest # <<>> THEN (IF scanned THEN "claim" ELSE "effect")
                           ELSE (IF scanned THEN "read" ELSE "scan"),
                    batch |-> rest]
<1>1. /\ next \in [pc : States, batch : Batches]
      /\ next.pc \in {"claim", "effect"} => next.batch # <<>>
      /\ next.pc \in {"scan", "read", "claim", "effect"}
  BY DEF States
<1>2. worker' = [worker EXCEPT ![c] = next]
  BY DEF Advance
<1> HIDE DEF next
<1>3. worker \in [Consumer -> [pc : States, batch : Batches]]
  BY DEF TypeOK, States, Batches
<1>4. /\ worker' \in [Consumer -> [pc : States, batch : Batches]]
      /\ worker'[c] = next
      /\ \A d \in Consumer \ {c} : worker'[d] = worker[d]
  BY <1>1, <1>2, <1>3
<1>5. BusyHasEntry'
  BY <1>1, <1>4 DEF BusyHasEntry, Busy
<1> QED
  BY <1>1, <1>4, <1>5

\* The same for a step within the entry.
LEMMA GotoType ==
  ASSUME TypeOK, BusyHasEntry, NEW c \in Consumer, Busy(c),
         NEW pc \in {"effect", "dead", "ack"}, Goto(c, pc)
  PROVE  /\ worker' \in [Consumer -> [pc : States, batch : Batches]]
         /\ BusyHasEntry'
         /\ worker'[c] = [pc |-> pc, batch |-> worker[c].batch]
         /\ \A d \in Consumer \ {c} : worker'[d] = worker[d]
<1>1. worker \in [Consumer -> [pc : States, batch : Batches]]
  BY DEF TypeOK, States, Batches
<1>2. worker' = [worker EXCEPT ![c].pc = pc]
  BY DEF Goto
<1>3. /\ worker'[c] = [pc |-> pc, batch |-> worker[c].batch]
      /\ \A d \in Consumer \ {c} : worker'[d] = worker[d]
  BY <1>1, <1>2
<1>4. worker' \in [Consumer -> [pc : States, batch : Batches]]
  <2>1. pc \in States
    BY DEF States
  <2>2. [pc |-> pc, batch |-> worker[c].batch] \in [pc : States, batch : Batches]
    BY <1>1, <2>1
  <2>3. worker' = [worker EXCEPT ![c] = [pc |-> pc, batch |-> worker[c].batch]]
    <3>1. [worker[c] EXCEPT !.pc = pc] = [pc |-> pc, batch |-> worker[c].batch]
      BY <1>1
    <3>2. worker' = [worker EXCEPT ![c] = [worker[c] EXCEPT !.pc = pc]]
      BY <1>2
    <3> QED
      BY <3>1, <3>2
  <2> QED
    BY <1>1, <2>2, <2>3
<1>5. BusyHasEntry'
  BY <1>3 DEF BusyHasEntry, Busy
<1> QED
  BY <1>3, <1>4, <1>5

\* A worker that starts over or stops holds no entry.
LEMMA DropType ==
  ASSUME TypeOK, BusyHasEntry, NEW c \in Consumer,
         NEW w \in {Starting, Fresh, Closed}, worker' = [worker EXCEPT ![c] = w]
  PROVE  /\ worker' \in [Consumer -> [pc : States, batch : Batches]]
         /\ BusyHasEntry'
         /\ worker'[c].pc # "ack"
         /\ \A d \in Consumer \ {c} : worker'[d] = worker[d]
<1>1. worker \in [Consumer -> [pc : States, batch : Batches]]
  BY DEF TypeOK, States, Batches
<1>2. <<>> \in Batches
  BY DEF Batches
<1>3. /\ w \in [pc : States, batch : Batches]
      /\ w.pc \notin {"claim", "effect", "dead", "ack"}
  BY <1>2 DEF Starting, Fresh, Closed, States
<1>4. /\ worker' \in [Consumer -> [pc : States, batch : Batches]]
      /\ worker'[c] = w
      /\ \A d \in Consumer \ {c} : worker'[d] = worker[d]
  BY <1>1, <1>3
<1> QED
  BY <1>3, <1>4 DEF BusyHasEntry, Busy

\* The entry a worker is at.
LEMMA EntryType ==
  ASSUME TypeOK, BusyHasEntry, NEW c \in Consumer, Busy(c)
  PROVE  /\ worker[c].batch \in Batches /\ worker[c].batch # <<>>
         /\ Entry(c) \in Event
         /\ Head(worker[c].batch).deliveries \in Nat
         /\ Tail(worker[c].batch) \in Batches
         /\ Scanned(c) \in BOOLEAN
<1>1. worker[c].batch \in Batches /\ worker[c].batch # <<>>
  BY DEF TypeOK, Batches, BusyHasEntry
<1> QED
  BY <1>1, HeadOfBatch DEF Entry, Scanned

-----------------------------------------------------------------------------
(* Types *)

\* What the type invariant says of the loops, and of everything else.
LoopsOK == worker \in [Consumer -> [pc : States, batch : Batches]] /\ BusyHasEntry

RedisOK ==
    /\ committed \subseteq Event
    /\ stream \in Seq(Event)
    /\ group \in BOOLEAN
    /\ cursor \in 0..Len(stream)
    /\ pending \in [Event -> [deliveries : Nat, idle : BOOLEAN]]
    /\ marker \subseteq Event
    /\ epoch \in Nat
    /\ bumps \in [Event -> Nat]
    /\ dlq \in [Event -> Nat]
    /\ failures \in 0..MaxFailures
    /\ expiries \in 0..MaxExpiries

\* A pending entry that goes idle keeps its delivery count.
LEMMA EntryGoesIdle ==
  ASSUME NEW r \in [deliveries : Nat, idle : BOOLEAN]
  PROVE  [r EXCEPT !.idle = TRUE] = [deliveries |-> r.deliveries, idle |-> TRUE]
<1>1. \A t \in BOOLEAN : [r EXCEPT !.idle = t] = [deliveries |-> r.deliveries, idle |-> t]
  OBVIOUS
<1> QED
  BY <1>1, Zenon

\* A count of one event that goes up by one is a count.
LEMMA OneMore ==
  ASSUME NEW f \in [Event -> Nat], NEW e \in Event
  PROVE  /\ [f EXCEPT ![e] = @ + 1] \in [Event -> Nat]
         /\ [f EXCEPT ![e] = @ + 1][e] = f[e] + 1
         /\ \A x \in Event : [f EXCEPT ![e] = @ + 1][x] >= f[x]
OBVIOUS

\* The two parts together are the type invariant and what it needs of the loops.
LEMMA TypeParts == TypeOK /\ BusyHasEntry <=> RedisOK /\ LoopsOK
BY DEF TypeOK, RedisOK, LoopsOK, States, Batches

\* The entries XPENDING lists are entries of the stream.
LEMMA ScanTypes ==
  ASSUME TypeOK, BusyHasEntry, NEW c \in Consumer, Scan(c)
  PROVE  LoopsOK' /\ worker'[c].pc # "ack"
         /\ \A d \in Consumer \ {c} : worker'[d] = worker[d]
<1> DEFINE stale == {i \in 1..Len(stream) : Stale(stream[i])}
           first == {i \in stale : Cardinality({j \in stale : j < i}) < READ_COUNT}
           Listed(order) == [i \in DOMAIN order |->
                               [event |-> stream[order[i]],
                                deliveries |-> pending[stream[order[i]]].deliveries]]
<1>1. PICK order \in [1..Cardinality(first) -> first] : Advance(c, Listed(order), TRUE)
  BY DEF Scan
<1>2. Cardinality(first) \in Nat
  <2>1. IsFiniteSet(1..Len(stream))
    BY FS_Interval DEF TypeOK
  <2>2. first \subseteq 1..Len(stream)
    OBVIOUS
  <2> HIDE DEF first
  <2> QED
    BY <2>1, <2>2, FS_Subset, FS_CardinalityType
<1>3. \A i \in 1..Cardinality(first) :
         [event |-> stream[order[i]], deliveries |-> pending[stream[order[i]]].deliveries]
            \in [event : Event, deliveries : Nat]
  <2>1. first \subseteq 1..Len(stream)
    OBVIOUS
  <2> HIDE DEF first
  <2>2. \A i \in 1..Cardinality(first) : order[i] \in 1..Len(stream)
    BY <2>1
  <2>3. \A i \in 1..Len(stream) : stream[i] \in Event
    BY DEF TypeOK
  <2> QED
    BY <2>2, <2>3 DEF TypeOK
<1>4. Listed(order) \in Batches
  <2> HIDE DEF first
  <2>1. DOMAIN order = 1..Cardinality(first)
    OBVIOUS
  <2>2. Listed(order) \in [1..Cardinality(first) -> [event : Event, deliveries : Nat]]
    BY <1>3, <2>1
  <2> HIDE DEF Listed
  <2> QED
    BY <1>2, <2>2, SequenceOfEntries
<1> HIDE DEF Listed
<1> QED
  BY <1>1, <1>4, AdvanceType DEF LoopsOK

\* What XREADGROUP delivers are the next entries of the stream.
LEMMA ReadTypes ==
  ASSUME TypeOK, BusyHasEntry, NEW c \in Consumer, ReadBatch(c)
  PROVE  /\ LoopsOK' /\ worker'[c].pc # "ack"
         /\ \A d \in Consumer \ {c} : worker'[d] = worker[d]
         /\ cursor' \in cursor..Len(stream)
         /\ \A i \in (cursor + 1)..cursor' :
               pending'[stream[i]] = [deliveries |-> 1, idle |-> FALSE]
         /\ \A e \in Event :
               pending'[e] \in {pending[e], [deliveries |-> 1, idle |-> FALSE]}
         /\ DOMAIN pending' = Event
<1> DEFINE n == Min({READ_COUNT, Len(stream) - cursor})
           read == SubSeq(stream, cursor + 1, cursor + n)
           batch == [i \in DOMAIN read |-> [event |-> read[i], deliveries |-> 0]]
<1>1. /\ cursor' = cursor + n
      /\ pending' = [e \in Event |-> IF Contains(read, e)
                                     THEN [deliveries |-> 1, idle |-> FALSE]
                                     ELSE pending[e]]
      /\ Advance(c, batch, FALSE)
  BY DEF ReadBatch
<1>2. /\ cursor \in Nat /\ Len(stream) \in Nat /\ cursor <= Len(stream)
      /\ stream \in Seq(Event)
  BY DEF TypeOK
<1>3. n \in Nat /\ cursor + n <= Len(stream)
  BY <1>2, EventsAssumption, MinOfTwo
<1> HIDE DEF n
<1>4. /\ read \in Seq(Event)
      /\ Len(read) = n
      /\ \A i \in 1..n : read[i] = stream[cursor + i]
  <2>1. \A i \in (cursor + 1)..(cursor + n) : stream[i] \in Event
    BY <1>2, <1>3
  <2>2. CASE n = 0
    <3>1. read = <<>>
      BY <1>2, <2>2, SubSeqEmpty
    <3> HIDE DEF read
    <3> QED
      BY <2>2, <3>1
  <2>3. CASE n # 0
    <3> DEFINE a == cursor + 1
               z == cursor + n
    <3>1. a \in Int /\ z \in Int /\ a <= z
      BY <1>2, <1>3, <2>3
    <3>2. \A i \in a..z : stream[i] \in Event
      BY <2>1
    <3>3. /\ SubSeq(stream, a, z) \in Seq(Event)
          /\ Len(SubSeq(stream, a, z)) = z - a + 1
          /\ \A i \in 1..(z - a + 1) : SubSeq(stream, a, z)[i] = stream[a + i - 1]
      <4> HIDE DEF a, z
      <4> QED
        BY <1>2, <3>1, <3>2, SubSeqProperties
    <3>4. z - a + 1 = n /\ \A i \in 1..n : a + i - 1 = cursor + i
      BY <1>2, <1>3
    <3>5. read = SubSeq(stream, a, z)
      OBVIOUS
    <3> HIDE DEF a, z, read
    <3> QED
      BY <3>3, <3>4, <3>5
  <2> QED
    BY <2>2, <2>3
<1> HIDE DEF read
<1>5. batch \in Batches
  BY <1>3, <1>4 DEF Batches
<1>6. /\ LoopsOK' /\ worker'[c].pc # "ack"
      /\ \A d \in Consumer \ {c} : worker'[d] = worker[d]
  <2> HIDE DEF batch
  <2> QED
    BY <1>1, <1>5, AdvanceType DEF LoopsOK
<1>7. ASSUME NEW i \in (cursor + 1)..(cursor + n)
      PROVE  pending'[stream[i]] = [deliveries |-> 1, idle |-> FALSE]
  <2>1. i - cursor \in 1..n /\ read[i - cursor] = stream[i] /\ stream[i] \in Event
    BY <1>2, <1>3, <1>4
  <2>2. Contains(read, stream[i])
    BY <1>4, <2>1 DEF Contains
  <2> QED
    BY <1>1, <2>1, <2>2
<1> QED
  BY <1>1, <1>2, <1>3, <1>6, <1>7

\* Every variable keeps its type: in particular the group's position is within
\* the stream, and a worker that claims, applies, dead-letters or acknowledges
\* has an entry to do it with.
LEMMA TypesInductive ==
  ASSUME TypeOK, BusyHasEntry, [Next]_vars
  PROVE  TypeOK' /\ BusyHasEntry'
<1> SUFFICES RedisOK' /\ LoopsOK'
  BY DEF TypeOK, RedisOK, LoopsOK, States, Batches
<1>1. RedisOK /\ LoopsOK
  BY TypeParts
<1> USE EventsAssumption DEF redisVars
<1>2. ASSUME NEW e \in Event, Commit(e) \/ GoIdle(e) \/ MarkerExpires(e)
      PROVE  RedisOK' /\ LoopsOK'
  <2>1. worker' = worker
    BY <1>2 DEF Commit, GoIdle, MarkerExpires
  <2>2. LoopsOK'
    BY <1>1, <2>1 DEF LoopsOK, BusyHasEntry, Busy
  <2>3. CASE Commit(e) \/ MarkerExpires(e)
    BY <1>1, <2>2, <2>3 DEF RedisOK, Commit, MarkerExpires
  <2>4. CASE GoIdle(e)
    <3>1. pending' = [pending EXCEPT ![e] = [deliveries |-> pending[e].deliveries, idle |-> TRUE]]
      <4>1. [pending[e] EXCEPT !.idle = TRUE] = [deliveries |-> pending[e].deliveries, idle |-> TRUE]
        BY <1>1, EntryGoesIdle DEF RedisOK
      <4>2. pending' = [pending EXCEPT ![e] = [pending[e] EXCEPT !.idle = TRUE]]
        BY <2>4 DEF GoIdle
      <4> QED
        BY <4>1, <4>2
    <3>2. pending' \in [Event -> [deliveries : Nat, idle : BOOLEAN]]
      BY <1>1, <3>1 DEF RedisOK
    <3> QED
      BY <1>1, <2>2, <2>4, <3>2 DEF RedisOK, GoIdle
  <2> QED
    BY <1>2, <2>3, <2>4
<1>3. ASSUME NEW e \in Event, Publish(e)
      PROVE  RedisOK' /\ LoopsOK'
  <2>1. LoopsOK'
    BY <1>1, <1>3 DEF LoopsOK, BusyHasEntry, Busy, Publish
  <2>2. stream' \in Seq(Event) /\ Len(stream') = Len(stream) + 1
    BY <1>1, <1>3 DEF RedisOK, Publish
  <2>3. cursor' \in 0..Len(stream')
    BY <1>1, <1>3, <2>2 DEF RedisOK, Publish
  <2> QED
    BY <1>1, <1>3, <2>1, <2>2, <2>3 DEF RedisOK, Publish
<1>4. ASSUME NEW c \in Consumer, EnsureGroup(c)
      PROVE  RedisOK' /\ LoopsOK'
  <2>1. LoopsOK'
    BY <1>4, DropType DEF EnsureGroup, LoopsOK
  <2> QED
    BY <1>1, <1>4, <2>1 DEF RedisOK, EnsureGroup
<1>5. ASSUME NEW c \in Consumer, Scan(c)
      PROVE  RedisOK' /\ LoopsOK'
  <2>1. LoopsOK'
    BY <1>5, ScanTypes
  <2> QED
    BY <1>1, <1>5, <2>1 DEF RedisOK, Scan
<1>6. ASSUME NEW c \in Consumer, ReadBatch(c)
      PROVE  RedisOK' /\ LoopsOK'
  <2>1. /\ LoopsOK'
        /\ cursor' \in cursor..Len(stream)
        /\ \A e \in Event :
              pending'[e] \in {pending[e], [deliveries |-> 1, idle |-> FALSE]}
        /\ DOMAIN pending' = Event
    BY <1>6, ReadTypes
  <2>2. pending' \in [Event -> [deliveries : Nat, idle : BOOLEAN]]
    <3>1. pending' = [e \in Event |-> pending'[e]]
      BY <1>6 DEF ReadBatch
    <3>2. \A e \in Event : pending'[e] \in [deliveries : Nat, idle : BOOLEAN]
      <4>1. [deliveries |-> 1, idle |-> FALSE] \in [deliveries : Nat, idle : BOOLEAN]
        OBVIOUS
      <4>2. \A e \in Event : pending[e] \in [deliveries : Nat, idle : BOOLEAN]
        BY <1>1 DEF RedisOK
      <4> QED
        BY <2>1, <4>1, <4>2
    <3> QED
      BY <3>1, <3>2
  <2>3. /\ UNCHANGED <<committed, stream, group, marker, epoch, bumps, dlq, failures, expiries>>
    BY <1>6 DEF ReadBatch
  <2>4. cursor' \in 0..Len(stream')
    BY <1>1, <2>1, <2>3 DEF RedisOK
  <2> QED
    BY <1>1, <2>1, <2>2, <2>3, <2>4 DEF RedisOK
<1>7. ASSUME NEW c \in Consumer, Claim(c)
      PROVE  RedisOK' /\ LoopsOK'
  <2>1. Busy(c) /\ UNCHANGED <<committed, stream, group, cursor, marker, epoch, bumps, dlq,
                               failures, expiries>>
    BY <1>7 DEF Claim, Busy
  <2>2. /\ Entry(c) \in Event /\ Tail(worker[c].batch) \in Batches
        /\ Scanned(c) \in BOOLEAN
    BY <2>1, EntryType
  <2>3. CASE pending[Entry(c)].idle
    <3>1. LoopsOK'
      <4>1. \E pc \in {"effect", "dead", "ack"} : Goto(c, pc)
        BY <1>7, <2>3 DEF Claim
      <4> QED
        BY <2>1, <4>1, GotoType DEF LoopsOK
    <3>2. pending' \in [Event -> [deliveries : Nat, idle : BOOLEAN]]
      <4> DEFINE claimed == [deliveries |-> pending[Entry(c)].deliveries + 1, idle |-> FALSE]
      <4>1. pending' = [pending EXCEPT ![Entry(c)] = claimed]
        BY <1>7, <2>3 DEF Claim
      <4>2. claimed \in [deliveries : Nat, idle : BOOLEAN]
        BY <1>1, <2>2 DEF RedisOK
      <4> HIDE DEF claimed
      <4> QED
        BY <1>1, <4>1, <4>2 DEF RedisOK
    <3> QED
      BY <1>1, <2>1, <3>1, <3>2 DEF RedisOK
  <2>4. CASE ~pending[Entry(c)].idle
    <3>1. Advance(c, Tail(worker[c].batch), Scanned(c)) /\ pending' = pending
      BY <1>7, <2>4 DEF Claim, Proceed
    <3>2. LoopsOK'
      BY <2>2, <3>1, AdvanceType DEF LoopsOK
    <3> QED
      BY <1>1, <2>1, <3>1, <3>2 DEF RedisOK
  <2> QED
    BY <2>3, <2>4
<1>8. ASSUME NEW c \in Consumer, Effect(c) \/ DeadLetter(c)
      PROVE  RedisOK' /\ LoopsOK'
  <2>1. Busy(c) /\ Goto(c, "ack")
    BY <1>8 DEF Effect, DeadLetter, Busy
  <2>2. LoopsOK'
    BY <2>1, GotoType DEF LoopsOK
  <2>3. Entry(c) \in Event
    BY <2>1, EntryType
  <2>4. CASE Effect(c)
    <3>1. /\ marker' \in {marker, marker \cup {Entry(c)}}
          /\ epoch' \in {epoch, epoch + 1}
          /\ bumps' \in {bumps, [bumps EXCEPT ![Entry(c)] = @ + 1]}
          /\ UNCHANGED <<committed, stream, group, cursor, pending, dlq, failures, expiries>>
      BY <2>4 DEF Effect
    <3>2. bumps' \in [Event -> Nat]
      <4>1. [bumps EXCEPT ![Entry(c)] = @ + 1] \in [Event -> Nat]
        BY <1>1, <2>3, OneMore DEF RedisOK
      <4> QED
        BY <1>1, <3>1, <4>1 DEF RedisOK
    <3> QED
      BY <1>1, <2>2, <2>3, <3>1, <3>2 DEF RedisOK
  <2>5. CASE DeadLetter(c)
    <3>1. dlq' \in [Event -> Nat]
      BY <1>1, <2>3, <2>5, OneMore DEF RedisOK, DeadLetter
    <3> QED
      BY <1>1, <2>2, <2>5, <3>1 DEF RedisOK, DeadLetter
  <2> QED
    BY <1>8, <2>4, <2>5
<1>9. ASSUME NEW c \in Consumer, Ack(c)
      PROVE  RedisOK' /\ LoopsOK'
  <2>1. Busy(c) /\ Advance(c, Tail(worker[c].batch), Scanned(c))
    BY <1>9 DEF Ack, Busy, Proceed
  <2>2. /\ Entry(c) \in Event /\ Tail(worker[c].batch) \in Batches
        /\ Scanned(c) \in BOOLEAN
    BY <2>1, EntryType
  <2>3. LoopsOK'
    BY <2>1, <2>2, AdvanceType DEF LoopsOK
  <2>4. RedisOK'
    BY <1>1, <1>9, <2>2 DEF RedisOK, Ack, NotPending
  <2> QED
    BY <2>3, <2>4
<1>10. ASSUME NEW c \in Consumer, CommandFails(c) \/ Disconnect(c) \/ Restart(c)
       PROVE  RedisOK' /\ LoopsOK'
  <2>1. \E w \in {Starting, Fresh, Closed} : worker' = [worker EXCEPT ![c] = w]
    BY <1>10 DEF CommandFails, Disconnect, Restart
  <2>2. LoopsOK'
    BY <2>1, DropType DEF LoopsOK
  <2>3. failures' \in 0..MaxFailures
    BY <1>1, <1>10 DEF CommandFails, Disconnect, Restart, Failure, RedisOK
  <2>4. UNCHANGED <<committed, stream, group, cursor, pending, marker, epoch, bumps, dlq,
                    expiries>>
    BY <1>10 DEF CommandFails, Disconnect, Restart
  <2> QED
    BY <1>1, <2>2, <2>3, <2>4 DEF RedisOK
<1>11. CASE UNCHANGED vars
  BY <1>1, <1>11 DEF vars, RedisOK, LoopsOK, BusyHasEntry, Busy
<1> QED
  BY <1>2, <1>3, <1>4, <1>5, <1>6, <1>7, <1>8, <1>9, <1>10, <1>11 DEF Next, Consume

\* The first state has the types of every other.
LEMMA InitTypes == Init => TypeOK /\ BusyHasEntry
<1> SUFFICES ASSUME Init PROVE TypeOK /\ BusyHasEntry
  OBVIOUS
<1>1. /\ pending \in [Event -> [deliveries : Nat, idle : BOOLEAN]]
      /\ worker \in [Consumer -> [pc : States, batch : Batches]]
      /\ stream \in Seq(Event)
      /\ cursor \in 0..Len(stream)
  BY DEF Init, NotPending, Starting, States, Batches
<1>2. BusyHasEntry
  BY DEF Init, BusyHasEntry, Busy, Starting
<1>3. RedisOK
  <2>1. bumps \in [Event -> Nat] /\ dlq \in [Event -> Nat]
    BY DEF Init
  <2>2. 0 \in 0..MaxFailures /\ 0 \in 0..MaxExpiries
    BY EventsAssumption
  <2>3. failures \in 0..MaxFailures /\ expiries \in 0..MaxExpiries
    BY <2>2 DEF Init
  <2>4. committed \subseteq Event /\ group \in BOOLEAN /\ marker \subseteq Event /\ epoch \in Nat
    BY DEF Init
  <2> QED
    BY <1>1, <2>1, <2>3, <2>4 DEF RedisOK
<1> QED
  BY <1>1, <1>2, <1>3, TypeParts DEF LoopsOK

\* Every variable of the stream, the group and the loops keeps its type, for any
\* number of events and invalidators (reclaimStalePending, processBatch).
THEOREM TypeCorrect == Spec => []TypeOK
<1>1. TypeOK /\ BusyHasEntry /\ [Next]_vars => TypeOK' /\ BusyHasEntry'
  BY TypesInductive
<1> QED
  BY <1>1, InitTypes, PTL DEF Spec
-----------------------------------------------------------------------------
(* No entry leaves the pending list before it is settled *)

\* Who is about to acknowledge an entry has settled it.
AckersSettled == \A c \in Consumer : worker[c].pc = "ack" => Settled(Entry(c))

\* A marker lives only where the epoch was bumped: the script sets both.
MarkedIsBumped == \A e \in marker : bumps[e] > 0

SettledInv == TypeOK /\ BusyHasEntry /\ AckersSettled /\ MarkedIsBumped /\ AckedIsSettled

\* The counts only grow, so what is settled stays so.
LEMMA SettledStays ==
  ASSUME TypeOK, BusyHasEntry, [Next]_vars, NEW e \in Event, Settled(e)
  PROVE  Settled(e)'
<1>1. CASE UNCHANGED <<bumps, dlq>>
  BY <1>1 DEF Settled
<1>2. ASSUME NEW c \in Consumer, Effect(c)
      PROVE  Settled(e)'
  <2>1. Entry(c) \in Event
    BY <1>2, EntryType DEF Effect, Busy
  <2>2. dlq' = dlq /\ bumps' \in {bumps, [bumps EXCEPT ![Entry(c)] = @ + 1]}
    BY <1>2 DEF Effect
  <2>3. bumps'[e] >= bumps[e] /\ bumps[e] \in Nat /\ bumps'[e] \in Nat
    <3>1. CASE bumps' = bumps
      BY <3>1 DEF TypeOK
    <3>2. CASE bumps' = [bumps EXCEPT ![Entry(c)] = @ + 1]
      <4>1. bumps \in [Event -> Nat]
        BY DEF TypeOK
      <4> QED
        BY <2>1, <3>2, <4>1, OneMore
    <3> QED
      BY <2>2, <3>1, <3>2
  <2> QED
    BY <2>2, <2>3 DEF Settled
<1>3. ASSUME NEW c \in Consumer, DeadLetter(c)
      PROVE  Settled(e)'
  <2>1. Entry(c) \in Event
    BY <1>3, EntryType DEF DeadLetter, Busy
  <2>2. bumps' = bumps /\ dlq' = [dlq EXCEPT ![Entry(c)] = @ + 1]
    BY <1>3 DEF DeadLetter
  <2>3. dlq'[e] >= dlq[e] /\ dlq[e] \in Nat /\ dlq'[e] \in Nat
    BY <2>1, <2>2 DEF TypeOK
  <2> QED
    BY <2>2, <2>3 DEF Settled
<1>4. ASSUME NEW x \in Event, Commit(x) \/ Publish(x) \/ GoIdle(x) \/ MarkerExpires(x)
      PROVE  UNCHANGED <<bumps, dlq>>
  BY <1>4 DEF Commit, Publish, GoIdle, MarkerExpires, redisVars
<1>5. ASSUME NEW c \in Consumer,
             EnsureGroup(c) \/ Scan(c) \/ Claim(c) \/ ReadBatch(c) \/ Ack(c)
               \/ CommandFails(c) \/ Disconnect(c) \/ Restart(c)
      PROVE  UNCHANGED <<bumps, dlq>>
  BY <1>5 DEF EnsureGroup, Scan, Claim, ReadBatch, Ack, CommandFails, Disconnect, Restart,
     redisVars
<1>6. CASE UNCHANGED vars
  BY <1>1, <1>6 DEF vars, redisVars
<1> QED
  BY <1>1, <1>2, <1>3, <1>4, <1>5, <1>6 DEF Next, Consume

\* A step after which worker c is at no acknowledgment, and which leaves the
\* other workers alone, keeps AckersSettled.
LEMMA OthersSettled ==
  ASSUME TypeOK, BusyHasEntry, AckersSettled, [Next]_vars, NEW c \in Consumer,
         \A d \in Consumer \ {c} : worker'[d] = worker[d],
         worker'[c].pc = "ack" => Settled(Entry(c))'
  PROVE  AckersSettled'
<1> SUFFICES ASSUME NEW d \in Consumer, worker'[d].pc = "ack", d # c
             PROVE  Settled(Entry(d))'
  BY DEF AckersSettled
<1>1. worker'[d] = worker[d]
  OBVIOUS
<1>2. Entry(d)' = Entry(d)
  BY <1>1 DEF Entry
<1>3. Settled(Entry(d)) /\ Entry(d) \in Event
  BY <1>1, EntryType DEF AckersSettled, Busy
<1>4. \A e \in Event : e = Entry(d) => Settled(e)'
  BY <1>3, SettledStays
<1> QED
  BY <1>2, <1>3, <1>4 DEF Settled

\* Entries that were delivered and stay pending, or were settled, keep
\* AckedIsSettled.
LEMMA DeliveredStay ==
  ASSUME TypeOK, BusyHasEntry, AckedIsSettled, [Next]_vars,
         \A e \in Delivered' : e \in Event,
         \A e \in Delivered' \ Delivered : IsPending(e)',
         \A e \in Delivered : IsPending(e) => IsPending(e)' \/ Settled(e)
  PROVE  AckedIsSettled'
<1> SUFFICES ASSUME NEW e \in Delivered', ~IsPending(e)'
             PROVE  Settled(e)'
  BY DEF AckedIsSettled
<1>1. e \in Delivered /\ Settled(e)
  BY DEF AckedIsSettled
<1> QED
  BY <1>1, SettledStays

\* Acknowledging follows the effect or the dead letter; no other step takes an
\* entry from the pending list, and what is read goes onto it.
LEMMA SettledInductive ==
  ASSUME SettledInv, [Next]_vars
  PROVE  SettledInv'
<1> USE DEF SettledInv
<1>0. TypeOK' /\ BusyHasEntry'
  BY TypesInductive
<1> SUFFICES AckersSettled' /\ MarkedIsBumped' /\ AckedIsSettled'
  BY <1>0
<1>1. \A e \in Delivered : e \in Event
  BY DEF TypeOK, Delivered
<1>2. CASE UNCHANGED vars
  BY <1>2 DEF vars, redisVars, AckersSettled, MarkedIsBumped, AckedIsSettled, Settled, Entry,
     Delivered, IsPending
<1>3. ASSUME NEW x \in Event, Commit(x) \/ Publish(x) \/ GoIdle(x) \/ MarkerExpires(x)
      PROVE  AckersSettled' /\ MarkedIsBumped' /\ AckedIsSettled'
  <2>1. /\ UNCHANGED <<worker, cursor, bumps, dlq>>
        /\ marker' \subseteq marker
    BY <1>3 DEF Commit, Publish, GoIdle, MarkerExpires, redisVars
  <2>2. AckersSettled' /\ MarkedIsBumped'
    BY <2>1 DEF AckersSettled, Settled, Entry, MarkedIsBumped
  <2>3. Delivered' = Delivered
    <3>1. CASE Publish(x)
      <4>1. \A i \in 1..cursor : stream'[i] = stream[i]
        BY <3>1 DEF Publish, TypeOK
      <4> QED
        BY <2>1, <4>1 DEF Delivered
    <3>2. CASE Commit(x) \/ GoIdle(x) \/ MarkerExpires(x)
      BY <2>1, <3>2 DEF Commit, GoIdle, MarkerExpires, redisVars, Delivered
    <3> QED
      BY <1>3, <3>1, <3>2
  <2>4. \A e \in Event : IsPending(e) => IsPending(e)'
    <3>1. CASE GoIdle(x)
      <4> SUFFICES ASSUME NEW e \in Event, IsPending(e) PROVE IsPending(e)'
        OBVIOUS
      <4>1. pending \in [Event -> [deliveries : Nat, idle : BOOLEAN]]
        BY DEF TypeOK
      <4>2. CASE e # x
        BY <3>1, <4>1, <4>2 DEF GoIdle, IsPending, NotPending
      <4>3. CASE e = x
        <5>1. pending' = [pending EXCEPT ![x] = [pending[x] EXCEPT !.idle = TRUE]]
          BY <3>1 DEF GoIdle
        <5>2. pending'[x] = [deliveries |-> pending[x].deliveries, idle |-> TRUE]
          BY <4>1, <5>1, EntryGoesIdle
        <5>3. pending'[x] # NotPending
          BY <5>2 DEF NotPending
        <5> QED
          BY <4>3, <5>3 DEF IsPending, NotPending
      <4> QED
        BY <4>2, <4>3
    <3>2. CASE Commit(x) \/ Publish(x) \/ MarkerExpires(x)
      BY <3>2 DEF Commit, Publish, MarkerExpires, redisVars, IsPending, NotPending
    <3> QED
      BY <1>3, <3>1, <3>2
  <2>5. AckedIsSettled'
    BY <1>1, <2>3, <2>4, DeliveredStay
  <2> QED
    BY <2>2, <2>5
<1>4. ASSUME NEW c \in Consumer,
             EnsureGroup(c) \/ Scan(c) \/ CommandFails(c) \/ Disconnect(c) \/ Restart(c)
      PROVE  AckersSettled' /\ MarkedIsBumped' /\ AckedIsSettled'
  <2>1. UNCHANGED <<stream, cursor, pending, marker, bumps, dlq>>
    BY <1>4 DEF EnsureGroup, Scan, CommandFails, Disconnect, Restart, redisVars
  <2>2. MarkedIsBumped' /\ AckedIsSettled'
    BY <2>1 DEF MarkedIsBumped, AckedIsSettled, Delivered, IsPending, Settled
  <2>3. worker'[c].pc # "ack" /\ \A d \in Consumer \ {c} : worker'[d] = worker[d]
    <3>1. CASE Scan(c)
      BY <3>1, ScanTypes
    <3>2. CASE ~Scan(c)
      <4>1. \E w \in {Starting, Fresh, Closed} : worker' = [worker EXCEPT ![c] = w]
        BY <1>4, <3>2 DEF EnsureGroup, CommandFails, Disconnect, Restart
      <4> QED
        BY <4>1, DropType
    <3> QED
      BY <3>1, <3>2
  <2>4. AckersSettled'
    BY <2>3, OthersSettled
  <2> QED
    BY <2>2, <2>4
<1>5. ASSUME NEW c \in Consumer, ReadBatch(c)
      PROVE  AckersSettled' /\ MarkedIsBumped' /\ AckedIsSettled'
  <2>1. /\ worker'[c].pc # "ack" /\ \A d \in Consumer \ {c} : worker'[d] = worker[d]
        /\ cursor' \in cursor..Len(stream)
        /\ \A i \in (cursor + 1)..cursor' :
              pending'[stream[i]] = [deliveries |-> 1, idle |-> FALSE]
        /\ \A e \in Event :
              pending'[e] \in {pending[e], [deliveries |-> 1, idle |-> FALSE]}
    BY <1>5, ReadTypes
  <2>2. stream' = stream /\ marker' = marker /\ bumps' = bumps
    BY <1>5 DEF ReadBatch
  <2>3. AckersSettled' /\ MarkedIsBumped'
    BY <2>1, <2>2, OthersSettled DEF MarkedIsBumped
  <2>4. [deliveries |-> 1, idle |-> FALSE] # NotPending
    BY DEF NotPending
  <2>5. \A e \in Delivered' \ Delivered : IsPending(e)'
    <3>1. ASSUME NEW i \in 1..cursor', stream[i] \notin Delivered
          PROVE  pending'[stream[i]] # NotPending
      <4>1. i \in (cursor + 1)..cursor'
        BY <2>1, <3>1 DEF Delivered, TypeOK
      <4> QED
        BY <2>1, <2>4, <4>1
    <3>2. \A e \in Delivered' : \E i \in 1..cursor' : e = stream[i]
      BY <2>2 DEF Delivered
    <3> QED
      BY <3>1, <3>2 DEF IsPending, NotPending
  <2>6. \A e \in Delivered' : e \in Event
    <3>1. /\ cursor' \in 0..Len(stream) /\ Len(stream) \in Nat
          /\ \A i \in 1..Len(stream) : stream[i] \in Event
      BY <2>1 DEF TypeOK
    <3>2. \A e \in Delivered' : \E i \in 1..cursor' : e = stream[i]
      BY <2>2 DEF Delivered
    <3> QED
      BY <3>1, <3>2
  <2>7. \A e \in Delivered : IsPending(e) => IsPending(e)'
    BY <1>1, <2>1, <2>4 DEF IsPending, NotPending
  <2>8. AckedIsSettled'
    BY <2>5, <2>6, <2>7, DeliveredStay
  <2> QED
    BY <2>3, <2>8
<1>6. ASSUME NEW c \in Consumer, Claim(c)
      PROVE  AckersSettled' /\ MarkedIsBumped' /\ AckedIsSettled'
  <2>1. Busy(c) /\ UNCHANGED <<stream, cursor, marker, bumps, dlq>>
    BY <1>6 DEF Claim, Busy
  <2>2. /\ Entry(c) \in Event /\ Tail(worker[c].batch) \in Batches
        /\ Scanned(c) \in BOOLEAN
    BY <2>1, EntryType
  <2>3. pending \in [Event -> [deliveries : Nat, idle : BOOLEAN]]
    BY DEF TypeOK
  <2>4. /\ worker'[c].pc # "ack" /\ \A d \in Consumer \ {c} : worker'[d] = worker[d]
        /\ \A e \in Event : IsPending(e) => IsPending(e)'
    <3>1. CASE pending[Entry(c)].idle
      <4>1. \E pc \in {"effect", "dead"} : Goto(c, pc)
        BY <1>6, <3>1 DEF Claim
      <4>2. worker'[c].pc # "ack" /\ \A d \in Consumer \ {c} : worker'[d] = worker[d]
        <5>1. PICK pc \in {"effect", "dead"} : Goto(c, pc)
          BY <4>1
        <5>2. /\ worker'[c] = [pc |-> pc, batch |-> worker[c].batch]
              /\ \A d \in Consumer \ {c} : worker'[d] = worker[d]
          BY <2>1, <5>1, GotoType
        <5> QED
          BY <5>2
      <4> DEFINE claimed == [deliveries |-> pending[Entry(c)].deliveries + 1, idle |-> FALSE]
      <4>3. pending' = [pending EXCEPT ![Entry(c)] = claimed]
        BY <1>6, <3>1 DEF Claim
      <4>4. claimed # NotPending
        BY <2>2, <2>3 DEF NotPending
      <4> HIDE DEF claimed
      <4>5. \A e \in Event : pending[e] # NotPending => pending'[e] # NotPending
        BY <2>2, <2>3, <4>3, <4>4
      <4> QED
        BY <4>2, <4>5 DEF IsPending, NotPending
    <3>2. CASE ~pending[Entry(c)].idle
      <4>1. Advance(c, Tail(worker[c].batch), Scanned(c)) /\ pending' = pending
        BY <1>6, <3>2 DEF Claim, Proceed
      <4>2. worker'[c].pc # "ack" /\ \A d \in Consumer \ {c} : worker'[d] = worker[d]
        BY <2>2, <4>1, AdvanceType
      <4> QED
        BY <4>1, <4>2 DEF IsPending
    <3> QED
      BY <3>1, <3>2
  <2>5. AckersSettled' /\ MarkedIsBumped'
    BY <2>1, <2>4, OthersSettled DEF MarkedIsBumped
  <2>6. Delivered' = Delivered
    BY <2>1 DEF Delivered
  <2>7. AckedIsSettled'
    BY <1>1, <2>4, <2>6, DeliveredStay
  <2> QED
    BY <2>5, <2>7
<1>7. ASSUME NEW c \in Consumer, Effect(c) \/ DeadLetter(c)
      PROVE  AckersSettled' /\ MarkedIsBumped' /\ AckedIsSettled'
  <2>1. Busy(c) /\ Goto(c, "ack") /\ UNCHANGED <<stream, cursor, pending>>
    BY <1>7 DEF Effect, DeadLetter, Busy
  <2>2. Entry(c) \in Event
    BY <2>1, EntryType
  <2>3. /\ worker'[c].batch = worker[c].batch
        /\ \A d \in Consumer \ {c} : worker'[d] = worker[d]
    <3>1. /\ worker'[c] = [pc |-> "ack", batch |-> worker[c].batch]
          /\ \A d \in Consumer \ {c} : worker'[d] = worker[d]
      BY <2>1, GotoType
    <3> QED
      BY <3>1
  <2>4. Entry(c)' = Entry(c)
    BY <2>3 DEF Entry
  <2>5. bumps \in [Event -> Nat] /\ dlq \in [Event -> Nat] /\ marker \subseteq Event
    BY DEF TypeOK
  <2>6. Settled(Entry(c))' /\ MarkedIsBumped'
    <3>1. CASE DeadLetter(c)
      <4>1. dlq' = [dlq EXCEPT ![Entry(c)] = @ + 1] /\ UNCHANGED <<marker, bumps>>
        BY <3>1 DEF DeadLetter
      <4>2. dlq'[Entry(c)] > 0
        BY <2>2, <2>5, <4>1, OneMore
      <4> QED
        BY <2>4, <4>1, <4>2 DEF Settled, MarkedIsBumped
    <3>2. CASE Effect(c) /\ Entry(c) \in Unsupported \cup marker
      <4>1. UNCHANGED <<marker, bumps, dlq>>
        BY <3>2 DEF Effect
      <4>2. Settled(Entry(c))
        BY <3>2 DEF Settled, MarkedIsBumped
      <4> QED
        BY <2>4, <4>1, <4>2 DEF Settled, MarkedIsBumped
    <3>3. CASE Effect(c) /\ Entry(c) \notin Unsupported \cup marker
      <4>1. /\ marker' = marker \cup {Entry(c)}
            /\ bumps' = [bumps EXCEPT ![Entry(c)] = @ + 1]
        BY <3>3 DEF Effect
      <4>2. /\ bumps'[Entry(c)] > 0
            /\ \A e \in Event : bumps'[e] >= bumps[e] /\ bumps'[e] \in Nat /\ bumps[e] \in Nat
        BY <2>2, <2>5, <4>1, OneMore
      <4>3. MarkedIsBumped'
        BY <2>5, <4>1, <4>2 DEF MarkedIsBumped
      <4> QED
        BY <2>4, <4>2, <4>3 DEF Settled
    <3> QED
      BY <1>7, <3>1, <3>2, <3>3
  <2>7. AckersSettled'
    BY <2>3, <2>6, OthersSettled
  <2>8. AckedIsSettled'
    <3>1. Delivered' = Delivered /\ \A e \in Delivered : IsPending(e) => IsPending(e)'
      BY <2>1 DEF Delivered, IsPending
    <3> QED
      BY <1>1, <3>1, DeliveredStay
  <2> QED
    BY <2>6, <2>7, <2>8
<1>8. ASSUME NEW c \in Consumer, Ack(c)
      PROVE  AckersSettled' /\ MarkedIsBumped' /\ AckedIsSettled'
  <2>1. /\ Busy(c) /\ worker[c].pc = "ack" /\ Advance(c, Tail(worker[c].batch), Scanned(c))
        /\ pending' = [pending EXCEPT ![Entry(c)] = NotPending]
        /\ UNCHANGED <<stream, cursor, marker, bumps, dlq>>
    BY <1>8 DEF Ack, Busy, Proceed
  <2>2. /\ Entry(c) \in Event /\ Tail(worker[c].batch) \in Batches
        /\ Scanned(c) \in BOOLEAN
    BY <2>1, EntryType
  <2>3. worker'[c].pc # "ack" /\ \A d \in Consumer \ {c} : worker'[d] = worker[d]
    BY <2>1, <2>2, AdvanceType
  <2>4. AckersSettled' /\ MarkedIsBumped'
    BY <2>1, <2>3, OthersSettled DEF MarkedIsBumped
  <2>5. Settled(Entry(c))
    BY <2>1 DEF AckersSettled
  <2>6. \A e \in Event : e # Entry(c) /\ IsPending(e) => IsPending(e)'
    <3>1. \A e \in Event : e # Entry(c) => pending'[e] = pending[e]
      BY <2>1, <2>2 DEF TypeOK
    <3> QED
      BY <3>1 DEF IsPending, NotPending
  <2>7. Delivered' = Delivered
    BY <2>1 DEF Delivered
  <2>8. AckedIsSettled'
    BY <1>1, <2>5, <2>6, <2>7, DeliveredStay
  <2> QED
    BY <2>4, <2>8
<1> QED
  BY <1>2, <1>3, <1>4, <1>5, <1>6, <1>7, <1>8 DEF Next, Consume

\* No event is lost between the stream and the epoch: what left the pending list
\* bumped the asset epoch or is in the dead letter stream, whichever invalidators
\* read, claimed and acknowledged it and wherever one of them stopped
\* (applyLifecycleEffect and deadLetter come before XACK).
THEOREM NoEventIsLost == Spec => []AckedIsSettled
<1>1. Init => SettledInv
  <2> SUFFICES ASSUME Init PROVE SettledInv
    OBVIOUS
  <2>1. TypeOK /\ BusyHasEntry
    BY InitTypes
  <2>2. AckersSettled /\ MarkedIsBumped /\ AckedIsSettled
    BY DEF Init, AckersSettled, Starting, MarkedIsBumped, AckedIsSettled, Delivered
  <2> QED
    BY <2>1, <2>2 DEF SettledInv
<1>2. SettledInv /\ [Next]_vars => SettledInv'
  BY SettledInductive
<1>3. SettledInv => AckedIsSettled
  BY DEF SettledInv
<1> QED
  BY <1>1, <1>2, <1>3, PTL DEF Spec

-----------------------------------------------------------------------------
(* Only an expired marker lets an event bump the epoch again *)

\* An event bumped the epoch at most as often as markers expired, and once more
\* while its marker lives.
BumpsAccounted ==
    \A e \in Event : bumps[e] <= expiries + (IF e \in marker THEN 1 ELSE 0)

\* The script bumps only without a marker and leaves one; an expiry is counted.
LEMMA BumpsInductive ==
  ASSUME TypeOK, BusyHasEntry, BumpsAccounted, [Next]_vars
  PROVE  BumpsAccounted'
<1>1. /\ bumps \in [Event -> Nat] /\ expiries \in Nat
  BY EventsAssumption DEF TypeOK
<1>2. CASE UNCHANGED <<bumps, marker, expiries>>
  BY <1>2 DEF BumpsAccounted
<1>3. ASSUME NEW x \in Event, MarkerExpires(x)
      PROVE  BumpsAccounted'
  <2>1. bumps' = bumps /\ expiries' = expiries + 1 /\ marker' = marker \ {x} /\ x \in marker
    BY <1>3 DEF MarkerExpires
  <2> SUFFICES ASSUME NEW e \in Event
               PROVE  bumps'[e] <= expiries' + (IF e \in marker' THEN 1 ELSE 0)
    BY DEF BumpsAccounted
  <2>2. bumps[e] <= expiries + 1 /\ (e # x => bumps[e] <= expiries + (IF e \in marker THEN 1 ELSE 0))
    BY <1>1 DEF BumpsAccounted
  <2> QED
    BY <1>1, <2>1, <2>2
<1>4. ASSUME NEW c \in Consumer, Effect(c)
      PROVE  BumpsAccounted'
  <2>1. CASE Entry(c) \in Unsupported \cup marker
    BY <1>2, <1>4, <2>1 DEF Effect
  <2>2. CASE Entry(c) \notin Unsupported \cup marker
    <3>1. /\ marker' = marker \cup {Entry(c)} /\ expiries' = expiries
          /\ bumps' = [bumps EXCEPT ![Entry(c)] = @ + 1]
      BY <1>4, <2>2 DEF Effect
    <3>2. Entry(c) \in Event
      BY <1>4, EntryType DEF Effect, Busy
    <3> SUFFICES ASSUME NEW e \in Event
                 PROVE  bumps'[e] <= expiries' + (IF e \in marker' THEN 1 ELSE 0)
      BY DEF BumpsAccounted
    <3>3. CASE e = Entry(c)
      <4>1. bumps[e] <= expiries
        BY <1>1, <2>2, <3>3 DEF BumpsAccounted
      <4>2. bumps'[e] = bumps[e] + 1
        BY <1>1, <3>1, <3>2, <3>3, OneMore
      <4> QED
        BY <1>1, <3>1, <3>3, <4>1, <4>2
    <3>4. CASE e # Entry(c)
      <4>1. bumps'[e] = bumps[e] /\ (e \in marker' <=> e \in marker)
        BY <1>1, <3>1, <3>4
      <4> QED
        BY <3>1, <4>1 DEF BumpsAccounted
    <3> QED
      BY <3>3, <3>4
  <2> QED
    BY <2>1, <2>2
<1>5. ASSUME NEW x \in Event, Commit(x) \/ Publish(x) \/ GoIdle(x)
      PROVE  UNCHANGED <<bumps, marker, expiries>>
  BY <1>5 DEF Commit, Publish, GoIdle, redisVars
<1>6. ASSUME NEW c \in Consumer,
             EnsureGroup(c) \/ Scan(c) \/ Claim(c) \/ ReadBatch(c) \/ DeadLetter(c) \/ Ack(c)
               \/ CommandFails(c) \/ Disconnect(c) \/ Restart(c)
      PROVE  UNCHANGED <<bumps, marker, expiries>>
  BY <1>6 DEF EnsureGroup, Scan, Claim, ReadBatch, DeadLetter, Ack, CommandFails, Disconnect,
     Restart, redisVars
<1>7. CASE UNCHANGED vars
  BY <1>2, <1>7 DEF vars, redisVars
<1> QED
  BY <1>2, <1>3, <1>4, <1>5, <1>6, <1>7 DEF Next, Consume

\* The marker absorbs redeliveries: beyond the first, an event bumps the epoch
\* only when a marker had expired, however often it is claimed and delivered
\* again (applyLifecycleEffect).
THEOREM RedeliveriesAbsorbed == Spec => []RedeliveryAbsorbed
<1>1. Init => TypeOK /\ BusyHasEntry /\ BumpsAccounted
  <2> SUFFICES ASSUME Init PROVE BumpsAccounted
    BY InitTypes
  <2> QED
    BY DEF Init, BumpsAccounted
<1>2. TypeOK /\ BusyHasEntry /\ BumpsAccounted /\ [Next]_vars
        => (TypeOK /\ BusyHasEntry /\ BumpsAccounted)'
  BY TypesInductive, BumpsInductive
<1>3. TypeOK /\ BumpsAccounted => RedeliveryAbsorbed
  <2> SUFFICES ASSUME TypeOK, BumpsAccounted, NEW e \in Event PROVE bumps[e] <= 1 + expiries
    BY DEF RedeliveryAbsorbed
  <2>1. bumps[e] \in Nat /\ expiries \in Nat
    BY EventsAssumption DEF TypeOK
  <2> QED
    BY <2>1 DEF BumpsAccounted
<1> QED
  BY <1>1, <1>2, <1>3, PTL DEF Spec
=============================================================================
