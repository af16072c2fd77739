-------------------- MODULE NotificationPartitionTheorems --------------------
(***************************************************************************)
(* For every number of jobs, workers, attempts, poison records and faults: *)
(* the types of the partition; that committing an offset loses no work;    *)
(* and that no poison record and no isolated job escapes the operator.     *)
(***************************************************************************)
EXTENDS NotificationPartition, SequenceTheorems, TLAPS

Statuses == {"queued", "processing", "settled", "isolated", "gone"}
Steps == {"fetch", "deliver", "isolate", "publish", "execute", "commit"}

-----------------------------------------------------------------------------
(* Types *)

\* The log only grows: appending a record keeps the others where they are.
LEMMA AppendGrows ==
  ASSUME TypeOK, NEW j \in Job \cup {None}, NEW b \in BOOLEAN, j = None => b,
         log' = Append(log, [job |-> j, poison |-> b])
  PROVE  /\ log' \in Seq([job : Job \cup {None}, poison : BOOLEAN])
         /\ Len(log') = Len(log) + 1
         /\ \A i \in 1..Len(log) : log'[i] = log[i]
         /\ log'[Len(log')] = [job |-> j, poison |-> b]
         /\ \A i \in DOMAIN log' : log'[i].job = None => log'[i].poison
<1> DEFINE r == [job |-> j, poison |-> b]
<1>1. r \in [job : Job \cup {None}, poison : BOOLEAN] /\ r.job = j /\ r.poison = b
  OBVIOUS
<1> HIDE DEF r
<1>2. log \in Seq([job : Job \cup {None}, poison : BOOLEAN])
  BY DEF TypeOK
<1>3. /\ log' \in Seq([job : Job \cup {None}, poison : BOOLEAN])
      /\ Len(log') = Len(log) + 1
      /\ \A i \in 1..Len(log) : log'[i] = log[i]
      /\ log'[Len(log')] = r
  BY <1>1, <1>2 DEF r
<1>4. \A i \in DOMAIN log' : log'[i].job = None => log'[i].poison
  <2>1. DOMAIN log' = 1..(Len(log) + 1) /\ DOMAIN log = 1..Len(log) /\ Len(log) \in Nat
    BY <1>2, <1>3
  <2>2. \A i \in 1..(Len(log) + 1) : i \in 1..Len(log) \/ i = Len(log')
    BY <1>3, <2>1
  <2> QED
    BY <1>1, <1>3, <2>1, <2>2 DEF TypeOK
<1> QED
  BY <1>3, <1>4 DEF r

\* The relay and the other producers.
LEMMA ProducerTypes ==
  ASSUME TypeOK, NEW j \in Job \cup {None}, NEW b \in BOOLEAN, j = None => b,
         log' = Append(log, [job |-> j, poison |-> b]),
         job' \in [Job -> [status : Statuses, holder : Worker \cup {None},
                           tries : 0..MaxAttempts, due : BOOLEAN, row : BOOLEAN,
                           deleted : BOOLEAN]],
         faults' \in 0..MaxFaults,
         UNCHANGED <<committed, position, owner, dlq, worker>>
  PROVE  TypeOK'
<1>1. Len(log) \in Nat /\ Len(log') = Len(log) + 1
  BY AppendGrows DEF TypeOK
<1>2. 0..Len(log) \subseteq 0..Len(log') /\ 1..Len(log) \subseteq 1..Len(log')
  BY <1>1
<1>3. worker' \in [Worker -> [pc : Steps, hand : 0..Len(log'),
                              attempts : 0..MaxDeliveryAttempts]]
  BY <1>2 DEF TypeOK, Steps
<1> QED
  BY <1>2, <1>3, AppendGrows DEF TypeOK, Statuses, Steps

\* A reader that moves on to another step, tries again or stops.
LEMMA ReaderTypes ==
  ASSUME TypeOK, NEW w \in Worker, worker[w].pc # "fetch",
         \/ \E pc \in Steps : Goto(w, pc) /\ UNCHANGED owner
         \/ LeaveUncommitted(w)
         \/ Stop(w)
  PROVE  /\ worker' \in [Worker -> [pc : Steps, hand : 0..Len(log),
                                    attempts : 0..MaxDeliveryAttempts]]
         /\ owner' \in Worker \cup {None}
         /\ \A v \in Worker : worker'[v].pc # "fetch" => worker'[v].hand # 0
<1>1. worker \in [Worker -> [pc : Steps, hand : 0..Len(log),
                             attempts : 0..MaxDeliveryAttempts]]
      /\ owner \in Worker \cup {None} /\ Len(log) \in Nat
      /\ \A v \in Worker : worker[v].pc # "fetch" => worker[v].hand # 0
  BY DEF TypeOK, Steps
<1>2. CASE \E pc \in Steps : Goto(w, pc) /\ UNCHANGED owner
  BY <1>1, <1>2 DEF Goto
<1>3. ASSUME Stop(w)
      PROVE  /\ worker' \in [Worker -> [pc : Steps, hand : 0..Len(log),
                                        attempts : 0..MaxDeliveryAttempts]]
             /\ owner' \in Worker \cup {None}
             /\ \A v \in Worker : worker'[v].pc # "fetch" => worker'[v].hand # 0
  <2>1. Waiting \in [pc : Steps, hand : 0..Len(log), attempts : 0..MaxDeliveryAttempts]
        /\ Waiting.pc = "fetch"
    BY <1>1, PartitionAssumption DEF Waiting, Steps
  <2>2. worker' = [worker EXCEPT ![w] = Waiting] /\ owner' \in Worker \cup {None}
    BY <1>1, <1>3 DEF Stop
  <2> QED
    BY <1>1, <2>1, <2>2
<1>4. CASE LeaveUncommitted(w) /\ ~Stop(w)
  <2>1. /\ worker' = [worker EXCEPT ![w].pc = "deliver",
                                    ![w].attempts = worker[w].attempts + 1]
        /\ UNCHANGED owner
        /\ worker[w].attempts + 1 < MaxDeliveryAttempts
    BY <1>1, <1>4, PartitionAssumption DEF LeaveUncommitted
  <2>2. worker[w].attempts + 1 \in 0..MaxDeliveryAttempts
    BY <1>1, <2>1, PartitionAssumption
  <2> QED
    BY <1>1, <2>1, <2>2 DEF Steps
<1> QED
  BY <1>2, <1>3, <1>4

JobRows == [Job -> [status : Statuses, holder : Worker \cup {None},
                    tries : 0..MaxAttempts, due : BOOLEAN, row : BOOLEAN,
                    deleted : BOOLEAN]]

\* What the reader writes besides its own state: the jobs and the dead letters.
LEMMA ReaderStepTypes ==
  ASSUME TypeOK, NEW w \in Worker, worker[w].pc # "fetch",
         \/ \E pc \in Steps : Goto(w, pc) /\ UNCHANGED owner
         \/ LeaveUncommitted(w)
         \/ Stop(w),
         job' \in JobRows, dlq' \subseteq 1..Len(log), faults' \in 0..MaxFaults,
         UNCHANGED partition
  PROVE  TypeOK'
<1>1. UNCHANGED <<log, committed, position>>
  BY DEF partition
<1>2. /\ worker' \in [Worker -> [pc : Steps, hand : 0..Len(log),
                                 attempts : 0..MaxDeliveryAttempts]]
      /\ owner' \in Worker \cup {None}
      /\ \A v \in Worker : worker'[v].pc # "fetch" => worker'[v].hand # 0
  BY ReaderTypes
<1> QED
  BY <1>1, <1>2 DEF TypeOK, JobRows, Statuses, Steps

\* The record in hand is a record of the log, and names a job unless it is poison.
LEMMA InHand ==
  ASSUME TypeOK, NEW w \in Worker, worker[w].pc # "fetch"
  PROVE  /\ worker[w].hand \in 1..Len(log)
         /\ Len(log) \in Nat
         /\ Record(w) \in [job : Job \cup {None}, poison : BOOLEAN]
         /\ TheJob(w) \in Job \cup {None}
         /\ ~Record(w).poison => TheJob(w) \in Job
<1>1. worker[w].hand \in 0..Len(log) /\ worker[w].hand # 0 /\ Len(log) \in Nat
  BY DEF TypeOK
<1>2. log \in Seq([job : Job \cup {None}, poison : BOOLEAN])
      /\ \A i \in DOMAIN log : log[i].job = None => log[i].poison
  BY DEF TypeOK
<1>3. worker[w].hand \in 1..Len(log) /\ DOMAIN log = 1..Len(log)
  BY <1>1, <1>2
<1>4. Record(w) \in [job : Job \cup {None}, poison : BOOLEAN]
  <2> DEFINE R == [job : Job \cup {None}, poison : BOOLEAN]
  <2> HIDE DEF R
  <2>1. log \in Seq(R)
    BY <1>2 DEF R
  <2>2. log[worker[w].hand] \in R
    BY <1>3, <2>1, ElementOfSeq
  <2> QED
    BY <2>2 DEF R, Record
<1> QED
  BY <1>1, <1>2, <1>3, <1>4 DEF Record, TheJob

\* A step of a reader that holds a record.
LEMMA HoldingTypes ==
  ASSUME TypeOK, NEW w \in Worker,
         \/ Reject(w) \/ Isolate(w) \/ DeadLetter(w) \/ Claim(w) \/ AcknowledgeSettled(w)
         \/ Unavailable(w) \/ Finish(w) \/ Reschedule(w) \/ Unsettled(w)
         \/ CallFails(w)
  PROVE  TypeOK'
<1>1. job \in JobRows /\ faults \in 0..MaxFaults /\ dlq \subseteq 1..Len(log)
      /\ MaxFaults \in Nat /\ MaxAttempts \in Nat \ {0}
  BY PartitionAssumption DEF TypeOK, JobRows, Statuses
<1>2. worker[w].pc # "fetch"
  BY DEF Reject, Isolate, DeadLetter, Claim, AcknowledgeSettled, Unavailable, Finish,
         Reschedule, Unsettled, CallFails
<1>3. /\ worker[w].hand \in 1..Len(log)
      /\ TheJob(w) \in Job \cup {None}
      /\ ~Record(w).poison => TheJob(w) \in Job
  BY <1>2, InHand
<1>4. CASE Reject(w)
  <2>1. \E pc \in Steps : Goto(w, pc) /\ UNCHANGED owner
    BY <1>4 DEF Reject, Steps
  <2>2. UNCHANGED <<job, dlq, faults>> /\ UNCHANGED partition
    BY <1>4 DEF Reject
  <2> QED
    BY <1>1, <1>2, <2>1, <2>2, ReaderStepTypes
<1>5. CASE Isolate(w)
  <2>1. \E pc \in Steps : Goto(w, pc) /\ UNCHANGED owner
    BY <1>5 DEF Isolate, Steps
  <2>2. job' \in JobRows
    <3>1. PICK j \in Job \cup {None} : j = TheJob(w)
      BY <1>3
    <3>2. CASE j = None
      BY <1>1, <1>5, <3>1, <3>2, PartitionAssumption DEF Isolate, JobRows
    <3>3. CASE j \in Job
      <4>1. \/ job' = job
            \/ job' = [job EXCEPT ![j].status = "isolated", ![j].holder = None]
        BY <1>5, <3>1 DEF Isolate
      <4> QED
        BY <1>1, <3>3, <4>1 DEF JobRows, Statuses
    <3> QED
      BY <3>2, <3>3
  <2>3. UNCHANGED <<dlq, faults>> /\ UNCHANGED partition
    BY <1>5 DEF Isolate
  <2> QED
    BY <1>1, <1>2, <2>1, <2>2, <2>3, ReaderStepTypes
<1>6. CASE DeadLetter(w)
  <2>1. \E pc \in Steps : Goto(w, pc) /\ UNCHANGED owner
    BY <1>6 DEF DeadLetter, Steps
  <2>2. dlq' \subseteq 1..Len(log)
    BY <1>1, <1>3, <1>6 DEF DeadLetter
  <2>3. UNCHANGED <<job, faults>> /\ UNCHANGED partition
    BY <1>6 DEF DeadLetter
  <2> QED
    BY <1>1, <1>2, <2>1, <2>2, <2>3, ReaderStepTypes
<1>7. CASE Claim(w)
  <2>1. \E pc \in Steps : Goto(w, pc) /\ UNCHANGED owner
    BY <1>7 DEF Claim, Steps
  <2>2. TheJob(w) \in Job /\ job[TheJob(w)].tries + 1 \in 0..MaxAttempts
    <3>1. TheJob(w) \in Job
      BY <1>3, <1>7 DEF Claim, Poisonous
    <3>2. job[TheJob(w)].tries \in 0..MaxAttempts
      BY <1>1, <3>1 DEF JobRows
    <3>3. ~(job[TheJob(w)].tries >= MaxAttempts)
      BY <1>7 DEF Claim, Claimable, Exhausted
    <3> QED
      BY <1>1, <3>1, <3>2, <3>3
  <2>3. job' \in JobRows
    BY <1>1, <1>7, <2>2 DEF Claim, JobRows, Statuses
  <2>4. UNCHANGED <<dlq, faults>> /\ UNCHANGED partition
    BY <1>7 DEF Claim
  <2> QED
    BY <1>1, <1>2, <2>1, <2>3, <2>4, ReaderStepTypes
<1>8. CASE AcknowledgeSettled(w)
  <2>1. \E pc \in Steps : Goto(w, pc) /\ UNCHANGED owner
    BY <1>8 DEF AcknowledgeSettled, Steps
  <2>2. job' \in JobRows
    BY <1>1, <1>3, <1>8 DEF AcknowledgeSettled, JobRows, Statuses
  <2>3. UNCHANGED <<dlq, faults>> /\ UNCHANGED partition
    BY <1>8 DEF AcknowledgeSettled
  <2> QED
    BY <1>1, <1>2, <2>1, <2>2, <2>3, ReaderStepTypes
<1>9. CASE Unavailable(w) \/ Unsettled(w)
  <2>1. LeaveUncommitted(w) /\ UNCHANGED <<job, dlq, faults>> /\ UNCHANGED partition
    BY <1>9 DEF Unavailable, Unsettled
  <2> QED
    BY <1>1, <1>2, <2>1, ReaderStepTypes
<1>10. CASE Finish(w)
  <2>1. \E pc \in Steps : Goto(w, pc) /\ UNCHANGED owner
    BY <1>10 DEF Finish, Steps
  <2>2. job' \in JobRows
    <3>1. PICK j \in Job \cup {None} : j = TheJob(w)
      BY <1>3
    <3>2. CASE j = None
      BY <1>1, <1>10, <3>1, <3>2, PartitionAssumption DEF Finish, JobRows
    <3>3. CASE j \in Job
      BY <1>1, <1>10, <3>1, <3>3 DEF Finish, JobRows, Statuses
    <3> QED
      BY <3>2, <3>3
  <2>3. UNCHANGED <<dlq, faults>> /\ UNCHANGED partition
    BY <1>10 DEF Finish
  <2> QED
    BY <1>1, <1>2, <2>1, <2>2, <2>3, ReaderStepTypes
<1>11. CASE Reschedule(w)
  <2>1. \E pc \in Steps : Goto(w, pc) /\ UNCHANGED owner
    BY <1>11 DEF Reschedule, Steps
  <2>2. job' \in JobRows
    <3>1. PICK j \in Job \cup {None} : j = TheJob(w)
      BY <1>3
    <3>2. CASE j = None
      BY <1>1, <1>11, <3>1, <3>2, PartitionAssumption DEF Reschedule, JobRows
    <3>3. CASE j \in Job
      BY <1>1, <1>11, <3>1, <3>3 DEF Reschedule, JobRows, Statuses
    <3> QED
      BY <3>2, <3>3
  <2>3. UNCHANGED <<dlq, faults>> /\ UNCHANGED partition
    BY <1>11 DEF Reschedule
  <2> QED
    BY <1>1, <1>2, <2>1, <2>2, <2>3, ReaderStepTypes
<1>12. CASE CallFails(w)
  <2>1. LeaveUncommitted(w) /\ UNCHANGED <<job, dlq>> /\ UNCHANGED partition
    BY <1>12 DEF CallFails
  <2>2. faults' \in 0..MaxFaults
    BY <1>1, <1>12 DEF CallFails, Fault
  <2> QED
    BY <1>1, <1>2, <2>1, <2>2, ReaderStepTypes
<1> QED
  BY <1>4, <1>5, <1>6, <1>7, <1>8, <1>9, <1>10, <1>11, <1>12

\* The initial states are well typed.
LEMMA InitTypes == Init => TypeOK
<1> SUFFICES ASSUME Init PROVE TypeOK
  OBVIOUS
<1>1. Len(<< >>) = 0 /\ DOMAIN << >> = {} /\ << >> \in Seq([job : Job \cup {None}, poison : BOOLEAN])
  OBVIOUS
<1> QED
  BY <1>1, PartitionAssumption DEF Init, TypeOK, NewJob, Waiting

\* Every step keeps the types.
LEMMA NextTypes == TypeOK /\ [Next]_vars => TypeOK'
<1> SUFFICES ASSUME TypeOK, [Next]_vars PROVE TypeOK'
  OBVIOUS
<1>1. job \in JobRows /\ faults \in 0..MaxFaults /\ dlq \subseteq 1..Len(log)
      /\ MaxFaults \in Nat /\ MaxAttempts \in Nat \ {0} /\ Len(log) \in Nat
      /\ owner \in Worker \cup {None} /\ committed \in 0..Len(log) /\ position \in 0..Len(log)
  BY PartitionAssumption DEF TypeOK, JobRows, Statuses
<1>2. CASE UNCHANGED vars
  BY <1>2 DEF TypeOK, vars
<1>3. ASSUME NEW j \in Job, Publish(j) \/ PublishTwice(j)
      PROVE  TypeOK'
  <2>1. j \in Job \cup {None} /\ (j = None => FALSE) /\ FALSE \in BOOLEAN
    BY PartitionAssumption
  <2>2. job' \in JobRows /\ faults' \in 0..MaxFaults
    <3>1. CASE Publish(j)
      <4>1. job' = [job EXCEPT ![j].row = FALSE] /\ faults' = faults
        BY <3>1 DEF Publish
      <4> QED
        BY <1>1, <4>1 DEF JobRows
    <3>2. CASE PublishTwice(j)
      BY <1>1, <3>2 DEF PublishTwice
    <3> QED
      BY <1>3, <3>1, <3>2
  <2>3. log' = Append(log, [job |-> j, poison |-> FALSE])
        /\ UNCHANGED <<committed, position, owner, dlq, worker>>
    BY <1>3 DEF Publish, PublishTwice
  <2> QED
    BY <2>1, <2>2, <2>3, ProducerTypes DEF JobRows
<1>4. ASSUME NEW j \in Job \cup {None}, AppendPoison(j)
      PROVE  TypeOK'
  <2>1. log' = Append(log, [job |-> j, poison |-> TRUE])
        /\ UNCHANGED <<committed, position, owner, dlq, worker>>
        /\ job' \in JobRows /\ faults' \in 0..MaxFaults
    BY <1>1, <1>4 DEF AppendPoison
  <2> QED
    BY <2>1, ProducerTypes DEF JobRows
<1>5. ASSUME NEW j \in Job,
             LeaseExpires(j) \/ BecomeDue(j) \/ Replay(j) \/ Delete(j) \/ Restore(j) \/ Purge(j)
      PROVE  TypeOK'
  <2>1. UNCHANGED <<log, committed, position, owner, dlq, worker>>
    BY <1>5 DEF LeaseExpires, BecomeDue, Replay, Delete, Restore, Purge, partition
  <2>2. faults' \in 0..MaxFaults
    BY <1>1, <1>5 DEF LeaseExpires, BecomeDue, Replay, Delete, Restore, Purge, Fault
  <2>3. job' \in JobRows
    <3>1. CASE LeaseExpires(j)
      <4>1. job' = [job EXCEPT ![j].holder = None]
        BY <3>1 DEF LeaseExpires
      <4>2. job \in JobRows /\ "queued" \in Statuses /\ None \in Worker \cup {None}
        BY <1>1 DEF Statuses
      <4> QED
        BY <4>1, <4>2 DEF JobRows
    <3>2. CASE BecomeDue(j)
      <4>1. job' = [job EXCEPT ![j].due = TRUE]
        BY <3>2 DEF BecomeDue
      <4>2. job \in JobRows /\ "queued" \in Statuses /\ None \in Worker \cup {None}
        BY <1>1 DEF Statuses
      <4> QED
        BY <4>1, <4>2 DEF JobRows
    <3>3. CASE Replay(j)
      <4>1. job' = [job EXCEPT ![j].status = "queued", ![j].due = TRUE, ![j].row = TRUE]
        BY <3>3 DEF Replay
      <4>2. job \in JobRows /\ "queued" \in Statuses /\ None \in Worker \cup {None}
        BY <1>1 DEF Statuses
      <4> QED
        BY <4>1, <4>2 DEF JobRows
    <3>4. CASE Delete(j)
      <4>1. job' = [job EXCEPT ![j].deleted = TRUE]
        BY <3>4 DEF Delete
      <4> QED
        BY <1>1, <4>1 DEF JobRows
    <3>6. CASE Restore(j)
      <4>1. job' = [job EXCEPT ![j].deleted = FALSE]
        BY <3>6 DEF Restore
      <4> QED
        BY <1>1, <4>1 DEF JobRows
    <3>5. CASE Purge(j)
      <4>1. job' = [job EXCEPT ![j].status = "gone", ![j].holder = None, ![j].row = FALSE]
        BY <3>5 DEF Purge
      <4>2. job \in JobRows /\ "gone" \in Statuses /\ None \in Worker \cup {None}
        BY <1>1 DEF Statuses
      <4> QED
        BY <4>1, <4>2 DEF JobRows
    <3> QED
      BY <1>5, <3>1, <3>2, <3>3, <3>4, <3>5, <3>6
  <2> QED
    BY <2>1, <2>2, <2>3 DEF TypeOK, JobRows, Statuses
<1>6. ASSUME NEW w \in Worker, Fetch(w)
      PROVE  TypeOK'
  <2>1. position + 1 \in 0..Len(log) /\ position + 1 # 0
    BY <1>1, <1>6 DEF Fetch
  <2>2. [pc |-> "deliver", hand |-> position + 1, attempts |-> 0]
          \in [pc : Steps, hand : 0..Len(log), attempts : 0..MaxDeliveryAttempts]
    BY <2>1, PartitionAssumption DEF Steps
  <2>3. worker' \in [Worker -> [pc : Steps, hand : 0..Len(log),
                                attempts : 0..MaxDeliveryAttempts]]
        /\ \A v \in Worker : worker'[v].pc # "fetch" => worker'[v].hand # 0
    BY <1>6, <2>1, <2>2 DEF Fetch, TypeOK, Steps
  <2> QED
    BY <1>6, <2>1, <2>3 DEF Fetch, TypeOK, Steps
<1>7. ASSUME NEW w \in Worker, Commit(w)
      PROVE  TypeOK'
  <2>1. worker[w].pc # "fetch" /\ worker[w].hand \in 0..Len(log)
    BY <1>7 DEF Commit, TypeOK
  <2>2. worker' = [worker EXCEPT ![w] = Waiting] /\ committed' = worker[w].hand
        /\ UNCHANGED <<job, log, position, owner, dlq, faults>>
    BY <1>7 DEF Commit
  <2>3. Waiting \in [pc : Steps, hand : 0..Len(log), attempts : 0..MaxDeliveryAttempts]
        /\ Waiting.pc = "fetch"
    BY <1>1, PartitionAssumption DEF Waiting, Steps
  <2>4. worker' \in [Worker -> [pc : Steps, hand : 0..Len(log),
                                attempts : 0..MaxDeliveryAttempts]]
        /\ \A v \in Worker : worker'[v].pc # "fetch" => worker'[v].hand # 0
    BY <2>2, <2>3 DEF TypeOK, Steps
  <2> QED
    BY <2>1, <2>2, <2>4 DEF TypeOK, Steps
<1>8. ASSUME NEW w \in Worker, CommitRefused(w) \/ Crash(w)
      PROVE  TypeOK'
  <2>1. Stop(w) /\ UNCHANGED <<job, dlq>> /\ UNCHANGED partition
    BY <1>8 DEF CommitRefused, Crash
  <2>2. faults' \in 0..MaxFaults
    BY <1>1, <1>8 DEF CommitRefused, Crash, Fault
  <2>3. CASE worker[w].pc # "fetch"
    BY <1>1, <2>1, <2>2, <2>3, ReaderStepTypes
  <2>4. CASE worker[w].pc = "fetch"
    <3>1. Waiting \in [pc : Steps, hand : 0..Len(log), attempts : 0..MaxDeliveryAttempts]
          /\ Waiting.pc = "fetch"
      BY <1>1, PartitionAssumption DEF Waiting, Steps
    <3>2. worker' \in [Worker -> [pc : Steps, hand : 0..Len(log),
                                  attempts : 0..MaxDeliveryAttempts]]
          /\ \A v \in Worker : worker'[v].pc # "fetch" => worker'[v].hand # 0
      BY <2>1, <3>1 DEF Stop, TypeOK, Steps
    <3>3. owner' \in Worker \cup {None} /\ UNCHANGED <<log, committed, position>>
      BY <1>1, <2>1 DEF Stop, partition
    <3> QED
      BY <2>1, <2>2, <3>2, <3>3 DEF TypeOK, Steps
  <2> QED
    BY <2>3, <2>4
<1>9. ASSUME NEW w \in Worker, Assign(w)
      PROVE  TypeOK'
  <2>1. faults' \in 0..MaxFaults
    BY <1>1, <1>9 DEF Assign, Fault
  <2> QED
    BY <1>9, <2>1 DEF Assign, TypeOK
<1> QED
  BY <1>2, <1>3, <1>4, <1>5, <1>6, <1>7, <1>8, <1>9, HoldingTypes DEF Next, Read

\* The jobs, the partition and the readers have their types in every behaviour.
THEOREM TypeCorrect == Spec => []TypeOK
<1> QED
  BY InitTypes, NextTypes, PTL DEF Spec

-----------------------------------------------------------------------------
(* Offsets that may be committed *)

\* The offsets that are safe to commit: passing over their records loses no
\* work and leaves no poison and no isolated job unreported.
Clear == {n \in 0..Len(log) : (\A j \in Job : Woken(j, n) /\ Known(j, n)) /\ Buried(n)}

\* What a reader knows of the record in hand.  The last fact but one is what
\* makes the former owner's commit harmless: an assignment resumes at a
\* committed offset, so a position past the record in hand is never ahead of
\* what has been settled.
Knows(w) ==
    /\ worker[w].pc # "fetch" => worker[w].hand - 1 \in Clear
    /\ worker[w].pc = "commit" => worker[w].hand \in Clear
    /\ owner = w =>
         \/ position \in Clear
         \/ worker[w].pc # "fetch" /\ worker[w].hand = position
    /\ worker[w].pc \in {"isolate", "publish"} => Poisonous(w)
    /\ worker[w].pc = "execute" => ~Record(w).poison

\* Only a job that is processed is leased.
LeasedOnlyProcessing == \A j \in Job : job[j].holder # None => job[j].status = "processing"

\* The committed offset is clear, because every offset a reader will commit is.
IInv ==
    /\ TypeOK
    /\ LeasedOnlyProcessing
    /\ committed \in Clear
    /\ \A w \in Worker : Knows(w)

\* An offset stays clear when the log and the dead letters grow, a job that
\* opens keeps or gets an outbox row or a later notification, and a job that is
\* isolated is named by a poison record that will be, or has been, reported.
LEMMA ClearKept ==
  ASSUME TypeOK, TypeOK',
         Len(log) <= Len(log'),
         \A i \in 1..Len(log) : log'[i] = log[i],
         dlq \subseteq dlq',
         \A j \in Job : Open(j)' => \/ Open(j) /\ (job[j].row => job'[j].row)
                                    \/ job'[j].row
                                    \/ \E i \in (Len(log) + 1)..Len(log') :
                                          log'[i] = [job |-> j, poison |-> FALSE],
         \A j \in Job : job'[j].status = "isolated" =>
                           \/ job[j].status = "isolated"
                           \/ \E i \in 1..Len(log) : log[i] = [job |-> j, poison |-> TRUE]
  PROVE  Clear \subseteq Clear'
<1> SUFFICES ASSUME NEW n \in Clear PROVE n \in Clear'
  OBVIOUS
<1>1. Len(log) \in Nat /\ Len(log') \in Nat /\ n \in 0..Len(log) /\ n \in 0..Len(log')
  BY DEF TypeOK, Clear
<1>2. ASSUME NEW j \in Job PROVE Woken(j, n)'
  <2> SUFFICES ASSUME Open(j)', ~job'[j].row PROVE Announced(j, n)'
    BY DEF Woken
  <2>1. CASE \E i \in (Len(log) + 1)..Len(log') : log'[i] = [job |-> j, poison |-> FALSE]
    BY <1>1, <2>1 DEF Announced
  <2>2. CASE Open(j) /\ ~job[j].row
    <3>1. Announced(j, n)
      BY <2>2 DEF Clear, Woken
    <3>2. PICK i \in (n + 1)..Len(log) : log[i] = [job |-> j, poison |-> FALSE]
      BY <3>1 DEF Announced
    <3>3. i \in 1..Len(log) /\ i \in (n + 1)..Len(log')
      BY <1>1, <3>2
    <3> QED
      BY <3>2, <3>3 DEF Announced
  <2> QED
    BY <2>1, <2>2
<1>3. Buried(n)'
  <2>1. \A i \in 1..n : i \in 1..Len(log)
    BY <1>1
  <2> QED
    BY <2>1 DEF Clear, Buried
<1>4. ASSUME NEW j \in Job PROVE Known(j, n)'
  <2> SUFFICES ASSUME job'[j].status = "isolated"
               PROVE  \E i \in 1..Len(log') : /\ log'[i] = [job |-> j, poison |-> TRUE]
                                              /\ i \in dlq' \/ i > n
    BY DEF Known
  <2>1. CASE job[j].status = "isolated"
    <3>1. PICK i \in 1..Len(log) : log[i] = [job |-> j, poison |-> TRUE] /\ (i \in dlq \/ i > n)
      BY <2>1 DEF Clear, Known
    <3>2. i \in 1..Len(log')
      BY <1>1
    <3> QED
      BY <3>1, <3>2
  <2>2. CASE \E i \in 1..Len(log) : log[i] = [job |-> j, poison |-> TRUE]
    <3>1. PICK i \in 1..Len(log) : log[i] = [job |-> j, poison |-> TRUE]
      BY <2>2
    <3>2. i \in 1..Len(log') /\ (i \in 1..n \/ i > n)
      BY <1>1
    <3>3. log'[i] = [job |-> j, poison |-> TRUE] /\ log'[i].poison
      BY <3>1
    <3> QED
      BY <1>3, <3>2, <3>3 DEF Buried
  <2> QED
    BY <2>1, <2>2
<1> QED
  BY <1>1, <1>2, <1>3, <1>4 DEF Clear

\* The next offset is clear too once its record needs nothing more: a poison
\* record has its dead letter, and the job of a notification is closed or has
\* an outbox row.
LEMMA ClearAdvances ==
  ASSUME TypeOK', NEW n \in Clear', n + 1 \in 1..Len(log'),
         log'[n + 1].poison => n + 1 \in dlq',
         \A j \in Job : log'[n + 1] = [job |-> j, poison |-> FALSE]
                           => (Open(j)' => job'[j].row)
  PROVE  n + 1 \in Clear'
<1>1. Len(log') \in Nat /\ n \in 0..Len(log') /\ n + 1 \in 0..Len(log')
  BY DEF TypeOK, Clear
<1>2. ASSUME NEW j \in Job PROVE Woken(j, n + 1)'
  <2> SUFFICES ASSUME Open(j)', ~job'[j].row
               PROVE  \E i \in (n + 1 + 1)..Len(log') : log'[i] = [job |-> j, poison |-> FALSE]
    BY DEF Woken, Announced
  <2>1. Announced(j, n)'
    BY DEF Clear, Woken
  <2>2. PICK i \in (n + 1)..Len(log') : log'[i] = [job |-> j, poison |-> FALSE]
    BY <2>1 DEF Announced
  <2>3. i # n + 1
    BY <2>2
  <2> QED
    BY <1>1, <2>2, <2>3
<1>3. Buried(n + 1)'
  <2>1. \A i \in 1..(n + 1) : i \in 1..n \/ i = n + 1
    BY <1>1
  <2> QED
    BY <2>1 DEF Clear, Buried
<1>4. ASSUME NEW j \in Job PROVE Known(j, n + 1)'
  <2> SUFFICES ASSUME job'[j].status = "isolated"
               PROVE  \E i \in 1..Len(log') : /\ log'[i] = [job |-> j, poison |-> TRUE]
                                              /\ i \in dlq' \/ i > n + 1
    BY DEF Known
  <2>1. PICK i \in 1..Len(log') : /\ log'[i] = [job |-> j, poison |-> TRUE]
                                  /\ i \in dlq' \/ i > n
    BY DEF Clear, Known
  <2>2. i = n + 1 => i \in dlq'
    BY <2>1
  <2>3. i > n => i = n + 1 \/ i > n + 1
    BY <1>1
  <2> QED
    BY <2>1, <2>2, <2>3
<1> QED
  BY <1>1, <1>2, <1>3, <1>4 DEF Clear

\* No step makes a clear offset unclear.
LEMMA ClearGrows ==
  ASSUME IInv, [Next]_vars
  PROVE  Clear \subseteq Clear'
<1>1. TypeOK /\ TypeOK' /\ Len(log) \in Nat /\ job \in JobRows /\ job' \in JobRows
  <2>1. TypeOK /\ TypeOK'
    BY NextTypes DEF IInv
  <2>2. job \in JobRows /\ Len(log) \in Nat
    BY <2>1 DEF TypeOK, JobRows, Statuses
  <2>3. job' \in JobRows
    BY <2>1, Zenon DEF TypeOK, JobRows, Statuses
  <2> QED
    BY <2>1, <2>2, <2>3
<1>2. \A j \in Job : Open(j) <=> job[j].status \in {"queued", "processing"}
  BY DEF Open
<1>3. \A j \in Job : Open(j)' <=> job'[j].status \in {"queued", "processing"}
  BY DEF Open
<1> DEFINE Quiet == /\ UNCHANGED log /\ dlq \subseteq dlq'
                    /\ \A j \in Job : Open(j)' => \/ Open(j) /\ (job[j].row => job'[j].row)
                                                  \/ job'[j].row
                    /\ \A j \in Job : job'[j].status = "isolated" =>
                           \/ job[j].status = "isolated"
                           \/ \E i \in 1..Len(log) : log[i] = [job |-> j, poison |-> TRUE]
<1>4. ASSUME Quiet PROVE Clear \subseteq Clear'
  BY <1>1, <1>4, ClearKept
<1>5. ASSUME NEW j \in Job, Publish(j) \/ PublishTwice(j)
      PROVE  Clear \subseteq Clear'
  <2>1. log' = Append(log, [job |-> j, poison |-> FALSE]) /\ dlq' = dlq
    BY <1>5 DEF Publish, PublishTwice
  <2>2. /\ Len(log') = Len(log) + 1
        /\ \A i \in 1..Len(log) : log'[i] = log[i]
        /\ log'[Len(log')] = [job |-> j, poison |-> FALSE]
    BY <1>1, <2>1, AppendGrows
  <2>3. \A k \in Job : job'[k].status = job[k].status /\ (k # j => job'[k].row = job[k].row)
    <3>1. \/ job' = [job EXCEPT ![j].row = FALSE]
          \/ job' = job
      BY <1>5 DEF Publish, PublishTwice
    <3> QED
      BY <1>1, <3>1 DEF JobRows
  <2>4. \E i \in (Len(log) + 1)..Len(log') : log'[i] = [job |-> j, poison |-> FALSE]
    BY <1>1, <2>2
  <2>5. \A k \in Job : Open(k)' => \/ Open(k) /\ (job[k].row => job'[k].row)
                                   \/ \E i \in (Len(log) + 1)..Len(log') :
                                         log'[i] = [job |-> k, poison |-> FALSE]
    BY <1>2, <1>3, <2>3, <2>4
  <2>6. Len(log) <= Len(log') /\ dlq \subseteq dlq'
        /\ \A k \in Job : job'[k].status = "isolated" => job[k].status = "isolated"
    BY <1>1, <2>1, <2>2, <2>3
  <2> QED
    BY <1>1, <2>2, <2>5, <2>6, ClearKept
<1>6. ASSUME NEW j \in Job \cup {None}, AppendPoison(j)
      PROVE  Clear \subseteq Clear'
  <2>1. log' = Append(log, [job |-> j, poison |-> TRUE]) /\ dlq' = dlq /\ job' = job
    BY <1>6 DEF AppendPoison
  <2>2. Len(log') = Len(log) + 1 /\ \A i \in 1..Len(log) : log'[i] = log[i]
    BY <1>1, <2>1, AppendGrows
  <2> QED
    BY <1>1, <1>2, <1>3, <2>1, <2>2, ClearKept
<1>7. ASSUME NEW j \in Job,
             LeaseExpires(j) \/ BecomeDue(j) \/ Replay(j) \/ Delete(j) \/ Restore(j) \/ Purge(j)
      PROVE  Clear \subseteq Clear'
  <2>1. UNCHANGED <<log, dlq>>
    BY <1>7 DEF LeaseExpires, BecomeDue, Replay, Delete, Restore, Purge, partition
  <2>2. \A k \in Job :
           \/ job'[k].status = job[k].status /\ job'[k].row = job[k].row
           \/ job'[k].status = "queued" /\ job'[k].row
           \/ job'[k].status = "gone"
    <3>1. CASE LeaseExpires(j) \/ BecomeDue(j) \/ Delete(j) \/ Restore(j)
      BY <1>1, <3>1 DEF LeaseExpires, BecomeDue, Delete, Restore, JobRows
    <3>2. CASE Replay(j)
      BY <1>1, <3>2 DEF Replay, JobRows
    <3>3. CASE Purge(j)
      BY <1>1, <3>3 DEF Purge, JobRows
    <3> QED
      BY <1>7, <3>1, <3>2, <3>3
  <2> QED
    BY <1>2, <1>3, <1>4, <2>1, <2>2
<1>8. ASSUME NEW w \in Worker, Isolate(w)
      PROVE  Clear \subseteq Clear'
  <2>1. worker[w].pc = "isolate" /\ UNCHANGED <<log, dlq>>
        /\ Poisonous(w)
    BY <1>8 DEF Isolate, partition, IInv, Knows
  <2>2. /\ worker[w].hand \in 1..Len(log)
        /\ Record(w) \in [job : Job \cup {None}, poison : BOOLEAN]
    BY <1>1, <2>1, InHand
  <2>3. PICK k \in Job \cup {None} : k = TheJob(w)
    BY <2>2 DEF TheJob
  <2>4. \/ job' = job
        \/ job' = [job EXCEPT ![k].status = "isolated", ![k].holder = None] /\ Open(k)
    BY <1>8, <2>3 DEF Isolate
  <2>5. CASE job' = job
    BY <1>2, <1>3, <1>4, <2>1, <2>5
  <2>6. CASE k \in Job /\ Open(k)
             /\ job' = [job EXCEPT ![k].status = "isolated", ![k].holder = None]
    <3>1. log[worker[w].hand] = [job |-> k, poison |-> TRUE]
      BY <2>1, <2>2, <2>3, <2>6 DEF Poisonous, Open, Record, TheJob
    <3>2. \A j \in Job : IF j = k THEN job'[j].status = "isolated"
                         ELSE job'[j] = job[j]
      BY <1>1, <2>6 DEF JobRows
    <3> QED
      BY <1>2, <1>3, <1>4, <2>1, <2>2, <3>1, <3>2
  <2>7. CASE k = None
             /\ job' = [job EXCEPT ![k].status = "isolated", ![k].holder = None]
    <3>1. job' = job
      BY <1>1, <2>7, PartitionAssumption DEF JobRows
    <3> QED
      BY <2>5, <3>1
  <2> QED
    BY <2>3, <2>4, <2>5, <2>6, <2>7
<1>9. ASSUME NEW w \in Worker,
             Claim(w) \/ AcknowledgeSettled(w) \/ Finish(w) \/ Reschedule(w)
      PROVE  Clear \subseteq Clear'
  <2>1. UNCHANGED <<log, dlq>>
    BY <1>9 DEF Claim, AcknowledgeSettled, Finish, Reschedule, partition
  <2>2. worker[w].pc \in {"deliver", "execute"}
    BY <1>9 DEF Claim, AcknowledgeSettled, Finish, Reschedule
  <2>3. TheJob(w) \in Job
    <3>1. ~Record(w).poison
      BY <1>9, <2>2 DEF Claim, AcknowledgeSettled, Poisonous, Finish, Reschedule, IInv, Knows
    <3> QED
      BY <1>1, <2>2, <3>1, InHand
  <2>4. PICK j \in Job : j = TheJob(w)
    BY <2>3
  <2>5. \A k \in Job : k # j => job'[k] = job[k]
    <3>1. CASE Claim(w)
      BY <1>1, <2>4, <3>1 DEF Claim, JobRows
    <3>2. CASE AcknowledgeSettled(w)
      BY <1>1, <2>4, <3>2 DEF AcknowledgeSettled, JobRows
    <3>3. CASE Finish(w)
      BY <1>1, <2>4, <3>3 DEF Finish, JobRows
    <3>4. CASE Reschedule(w)
      BY <1>1, <2>4, <3>4 DEF Reschedule, JobRows
    <3> QED
      BY <1>9, <3>1, <3>2, <3>3, <3>4
  <2>6. \/ job'[j] = job[j]
        \/ job'[j].status = "settled"
        \/ job'[j].status = "queued" /\ job'[j].row
        \/ job'[j].status = "processing" /\ Open(j) /\ job'[j].row = job[j].row
    <3>1. CASE Claim(w)
      BY <1>1, <2>4, <3>1 DEF Claim, Claimable, JobRows
    <3>2. CASE AcknowledgeSettled(w)
      BY <1>1, <2>4, <3>2 DEF AcknowledgeSettled, JobRows
    <3>3. CASE Finish(w)
      BY <1>1, <2>4, <3>3 DEF Finish, JobRows
    <3>4. CASE Reschedule(w)
      BY <1>1, <2>4, <3>4 DEF Reschedule, JobRows
    <3> QED
      BY <1>9, <3>1, <3>2, <3>3, <3>4
  <2> QED
    BY <1>2, <1>3, <1>4, <2>1, <2>5, <2>6
<1>10. ASSUME UNCHANGED <<job, log>>, dlq \subseteq dlq'
       PROVE  Clear \subseteq Clear'
  <2>1. \A j \in Job : Open(j)' => Open(j) /\ (job[j].row => job'[j].row)
    BY <1>2, <1>3, <1>10
  <2>2. \A j \in Job : job'[j].status = "isolated" => job[j].status = "isolated"
    BY <1>10
  <2> QED
    BY <1>4, <1>10, <2>1, <2>2
<1>11. CASE UNCHANGED vars
  BY <1>10, <1>11 DEF vars
<1>12. ASSUME NEW w \in Worker,
              \/ Fetch(w) \/ Commit(w) \/ Reject(w) \/ DeadLetter(w) \/ Unavailable(w)
              \/ Unsettled(w) \/ CommitRefused(w) \/ CallFails(w) \/ Crash(w) \/ Assign(w)
       PROVE  UNCHANGED <<job, log>> /\ dlq \subseteq dlq'
  BY <1>12 DEF Fetch, Commit, Reject, DeadLetter, Unavailable, Unsettled, CommitRefused,
               CallFails, Crash, Assign, partition
<1> QED
  BY <1>5, <1>6, <1>7, <1>8, <1>9, <1>10, <1>11, <1>12 DEF Next, Read

-----------------------------------------------------------------------------
(* What the readers know *)

\* A record keeps its place in the log.
LEMMA LogGrows ==
  ASSUME TypeOK, [Next]_vars
  PROVE  \A i \in 1..Len(log) : log'[i] = log[i]
<1>1. ASSUME NEW j \in Job, Publish(j) \/ PublishTwice(j)
      PROVE  \A i \in 1..Len(log) : log'[i] = log[i]
  <2>1. log' = Append(log, [job |-> j, poison |-> FALSE])
    BY <1>1 DEF Publish, PublishTwice
  <2> QED
    BY <2>1, AppendGrows
<1>2. ASSUME NEW j \in Job \cup {None}, AppendPoison(j)
      PROVE  \A i \in 1..Len(log) : log'[i] = log[i]
  <2>1. log' = Append(log, [job |-> j, poison |-> TRUE])
    BY <1>2 DEF AppendPoison
  <2> QED
    BY <2>1, AppendGrows
<1>3. ASSUME NEW j \in Job,
             LeaseExpires(j) \/ BecomeDue(j) \/ Replay(j) \/ Delete(j) \/ Restore(j) \/ Purge(j)
      PROVE  UNCHANGED log
  BY <1>3 DEF LeaseExpires, BecomeDue, Replay, Delete, Restore, Purge, partition
<1>4. ASSUME NEW w \in Worker,
             Read(w) \/ CommitRefused(w) \/ CallFails(w) \/ Crash(w) \/ Assign(w)
      PROVE  UNCHANGED log
  BY <1>4 DEF Read, Fetch, Commit, Reject, Isolate, DeadLetter, Claim, AcknowledgeSettled,
              Unavailable, Finish, Reschedule, Unsettled, CommitRefused, CallFails, Crash,
              Assign, partition
<1>5. CASE UNCHANGED vars
  BY <1>5 DEF vars
<1> QED
  BY <1>1, <1>2, <1>3, <1>4, <1>5 DEF Next

\* The job a reader settles: its record is no poison, so it names one.
LEMMA SettlingNamesJob ==
  ASSUME IInv, NEW w \in Worker,
         Claim(w) \/ AcknowledgeSettled(w) \/ Finish(w) \/ Reschedule(w)
  PROVE  ~Record(w).poison /\ TheJob(w) \in Job
<1>1. worker[w].pc \in {"deliver", "execute"}
  BY DEF Claim, AcknowledgeSettled, Finish, Reschedule
<1>2. ~Record(w).poison
  BY <1>1 DEF Claim, AcknowledgeSettled, Poisonous, Finish, Reschedule, IInv, Knows
<1> QED
  BY <1>1, <1>2, InHand DEF IInv

\* The status and the lease of a job after a step: a lease goes with the status
\* "processing", and a purged job stays purged.
LEMMA JobSteps ==
  ASSUME IInv, [Next]_vars
  PROVE  /\ LeasedOnlyProcessing'
         /\ \A k \in Job : job[k].status = "gone" => job'[k].status = "gone"
<1> DEFINE Fine == \A k \in Job :
                     /\ job'[k].holder # None => job'[k].status = "processing"
                     /\ job[k].status = "gone" => job'[k].status = "gone"
<1>1. job \in JobRows
      /\ \A k \in Job : job[k].holder # None => job[k].status = "processing"
  BY DEF IInv, TypeOK, JobRows, Statuses, LeasedOnlyProcessing
<1>2. job' = job => Fine
  BY <1>1
<1>3. ASSUME NEW j \in Job,
             \/ Publish(j) \/ PublishTwice(j) \/ LeaseExpires(j) \/ BecomeDue(j) \/ Replay(j)
             \/ Delete(j) \/ Restore(j) \/ Purge(j)
      PROVE  Fine
  <2>1. CASE Publish(j) \/ LeaseExpires(j) \/ BecomeDue(j) \/ Delete(j) \/ Restore(j)
    <3>1. \A k \in Job : /\ job'[k].status = job[k].status
                         /\ job'[k].holder = job[k].holder \/ job'[k].holder = None
      BY <1>1, <2>1 DEF Publish, LeaseExpires, BecomeDue, Delete, Restore, JobRows
    <3> QED
      BY <1>1, <3>1
  <2>2. CASE PublishTwice(j)
    BY <1>2, <2>2 DEF PublishTwice
  <2>3. CASE Replay(j)
    <3>1. \A k \in Job : /\ job[k].status = "gone" => job'[k].status = "gone"
                         /\ job'[k].holder = job[k].holder
                         /\ job'[k].status # job[k].status => job[k].status = "isolated"
      BY <1>1, <2>3 DEF Replay, JobRows
    <3> QED
      BY <1>1, <3>1
  <2>4. CASE Purge(j)
    <3>1. \A k \in Job : IF k = j THEN job'[k].status = "gone" /\ job'[k].holder = None
                         ELSE job'[k] = job[k]
      BY <1>1, <2>4 DEF Purge, JobRows
    <3> QED
      BY <1>1, <3>1
  <2> QED
    BY <1>3, <2>1, <2>2, <2>3, <2>4
<1>4. ASSUME NEW w \in Worker, Isolate(w)
      PROVE  Fine
  <2>1. PICK k : k = TheJob(w)
    OBVIOUS
  <2>2. \/ job' = job
        \/ job' = [job EXCEPT ![k].status = "isolated", ![k].holder = None] /\ Open(k)
    BY <1>4, <2>1 DEF Isolate
  <2>3. ASSUME job' = [job EXCEPT ![k].status = "isolated", ![k].holder = None], Open(k)
        PROVE  Fine
    <3>1. \A j \in Job : job'[j] = job[j] \/ (j = k /\ job'[j].holder = None)
      BY <1>1, <2>3 DEF JobRows
    <3>2. Open(k) => job[k].status # "gone"
      BY DEF Open
    <3> QED
      BY <1>1, <2>3, <3>1, <3>2
  <2> QED
    BY <1>2, <2>2, <2>3
<1>5. ASSUME NEW w \in Worker,
             Claim(w) \/ AcknowledgeSettled(w) \/ Finish(w) \/ Reschedule(w)
      PROVE  Fine
  <2>1. PICK j \in Job : j = TheJob(w)
    BY <1>5, SettlingNamesJob
  <2>2. job[j].status # "gone" \/ job' = job
    <3>1. CASE Claim(w)
      BY <2>1, <3>1 DEF Claim, Claimable, Open
    <3>2. CASE AcknowledgeSettled(w)
      BY <2>1, <3>2 DEF AcknowledgeSettled, Open
    <3>3. CASE Finish(w) \/ Reschedule(w)
      <4>1. job[j].holder = w /\ w # None
        BY <2>1, <3>3, PartitionAssumption DEF Finish, Reschedule, Leased
      <4> QED
        BY <1>1, <4>1
    <3> QED
      BY <1>5, <3>1, <3>2, <3>3
  <2>3. \/ job' = job
        \/ /\ \A k \in Job : k # j => job'[k] = job[k]
           /\ job'[j].holder # None => job'[j].status = "processing"
    <3>1. CASE Claim(w)
      BY <1>1, <2>1, <3>1 DEF Claim, JobRows
    <3>2. CASE AcknowledgeSettled(w) /\ job' # job
      <4>1. job' = [job EXCEPT ![j].status = "settled"]
        BY <2>1, <3>2 DEF AcknowledgeSettled
      <4>2. job[j].holder = None
        BY <2>1, <3>2 DEF AcknowledgeSettled, Abandoned, Unleased, Open
      <4> QED
        BY <1>1, <4>1, <4>2 DEF JobRows
    <3>3. CASE Finish(w)
      BY <1>1, <2>1, <3>3 DEF Finish, JobRows
    <3>4. CASE Reschedule(w)
      BY <1>1, <2>1, <3>4 DEF Reschedule, JobRows
    <3> QED
      BY <1>5, <3>1, <3>2, <3>3, <3>4
  <2> QED
    BY <1>1, <1>2, <2>2, <2>3
<1>6. ASSUME NEW w \in Worker,
             \/ Fetch(w) \/ Commit(w) \/ Reject(w) \/ DeadLetter(w) \/ Unavailable(w)
             \/ Unsettled(w) \/ CommitRefused(w) \/ CallFails(w) \/ Crash(w) \/ Assign(w)
      PROVE  job' = job
  BY <1>6 DEF Fetch, Commit, Reject, DeadLetter, Unavailable, Unsettled, CommitRefused,
              CallFails, Crash, Assign, partition
<1>7. ASSUME NEW j \in Job \cup {None}, AppendPoison(j)
      PROVE  job' = job
  BY <1>7 DEF AppendPoison
<1>8. CASE UNCHANGED vars
  BY <1>2, <1>8 DEF vars, LeasedOnlyProcessing
<1>9. Fine
  BY <1>2, <1>3, <1>4, <1>5, <1>6, <1>7, <1>8 DEF Next, Read, vars
<1> QED
  BY <1>9 DEF LeasedOnlyProcessing

\* A record that is poison stays poison: the record does not change, and a job
\* that is purged does not come back.
LEMMA PoisonStays ==
  ASSUME IInv, [Next]_vars, NEW w \in Worker, worker[w].pc # "fetch"
  PROVE  /\ worker'[w].hand = worker[w].hand => Record(w)' = Record(w)
         /\ worker'[w].hand = worker[w].hand /\ Poisonous(w) => Poisonous(w)'
<1>1. worker[w].hand \in 1..Len(log)
      /\ (~Record(w).poison => TheJob(w) \in Job)
  BY InHand DEF IInv
<1>2. worker'[w].hand = worker[w].hand => Record(w)' = Record(w)
  BY <1>1, LogGrows DEF IInv, Record
<1>3. ASSUME worker'[w].hand = worker[w].hand, Poisonous(w)
      PROVE  Poisonous(w)'
  <2>1. Record(w)' = Record(w) /\ TheJob(w)' = TheJob(w)
    BY <1>2, <1>3 DEF TheJob
  <2>2. CASE Record(w).poison
    BY <2>1, <2>2 DEF Poisonous
  <2>3. CASE ~Record(w).poison
    <3>1. job'[TheJob(w)].status = "gone"
      BY <1>1, <1>3, <2>3, JobSteps DEF Poisonous
    <3> QED
      BY <2>1, <3>1 DEF Poisonous
  <2> QED
    BY <2>2, <2>3
<1> QED
  BY <1>2, <1>3

\* A reader that does not move keeps what it knows, unless it is given the
\* partition.
LEMMA BystanderKnows ==
  ASSUME IInv, [Next]_vars, NEW v \in Worker, worker'[v] = worker[v],
         owner' = v => owner = v /\ position' = position
  PROVE  Knows(v)'
<1>1. Clear \subseteq Clear' /\ Knows(v)
  BY ClearGrows DEF IInv
<1>2. worker[v].pc \in {"isolate", "publish"} => Poisonous(v)'
  BY <1>1, PoisonStays DEF Knows
<1>3. worker[v].pc = "execute" => ~Record(v)'.poison
  BY <1>1, PoisonStays DEF Knows
<1>4. owner' = v => \/ position' \in Clear'
                    \/ worker[v].pc # "fetch" /\ worker[v].hand = position'
  BY <1>1 DEF Knows
<1>5. /\ worker[v].pc # "fetch" => worker[v].hand - 1 \in Clear'
      /\ worker[v].pc = "commit" => worker[v].hand \in Clear'
  BY <1>1 DEF Knows
<1> QED
  BY <1>2, <1>3, <1>4, <1>5 DEF Knows

\* A reader that moves on with the record it holds.
LEMMA HolderKnows ==
  ASSUME IInv, [Next]_vars, NEW w \in Worker, worker[w].pc # "fetch",
         worker'[w].hand = worker[w].hand, worker'[w].pc # "fetch",
         UNCHANGED <<position, owner>>,
         worker'[w].pc = "commit" => worker[w].hand \in Clear',
         worker'[w].pc \in {"isolate", "publish"} => Poisonous(w),
         worker'[w].pc = "execute" => ~Record(w).poison
  PROVE  Knows(w)'
<1>1. Clear \subseteq Clear' /\ Knows(w)
  BY ClearGrows DEF IInv
<1>2. worker'[w].pc \in {"isolate", "publish"} => Poisonous(w)'
  BY PoisonStays
<1>3. worker'[w].pc = "execute" => ~Record(w)'.poison
  BY PoisonStays
<1>4. worker'[w].hand - 1 \in Clear'
      /\ (worker'[w].pc = "commit" => worker'[w].hand \in Clear')
      /\ (owner' = w => position' \in Clear' \/ worker'[w].hand = position')
  BY <1>1 DEF Knows
<1> QED
  BY <1>2, <1>3, <1>4 DEF Knows

\* A reader that has stopped or committed waits for the partition.
LEMMA WaitingKnows ==
  ASSUME NEW w \in Worker, worker'[w] = Waiting,
         owner' = w => position' \in Clear'
  PROVE  Knows(w)'
BY DEF Knows, Waiting

\* The step that makes a record ready to be committed makes its offset clear.
LEMMA ReadyIsClear ==
  ASSUME IInv, [Next]_vars, NEW w \in Worker,
         DeadLetter(w) \/ AcknowledgeSettled(w) \/ Finish(w) \/ Reschedule(w)
  PROVE  worker[w].hand \in Clear'
<1>1. worker[w].pc # "fetch" /\ UNCHANGED log
  BY DEF DeadLetter, AcknowledgeSettled, Finish, Reschedule, partition
<1> DEFINE n == worker[w].hand - 1
<1>2. TypeOK' /\ n \in Clear'
  BY <1>1, NextTypes, ClearGrows DEF IInv, Knows
<1>3. worker[w].hand \in 1..Len(log) /\ n + 1 = worker[w].hand
      /\ Record(w) = log'[worker[w].hand] /\ Len(log') = Len(log)
      /\ TheJob(w) = Record(w).job
  BY <1>1, InHand DEF IInv, Record, TheJob
<1>4. job \in JobRows
  BY DEF IInv, TypeOK, JobRows, Statuses
<1>5. CASE DeadLetter(w)
  <2>1. worker[w].hand \in dlq' /\ job' = job /\ Poisonous(w)
    BY <1>5 DEF DeadLetter, IInv, Knows
  <2>2. ASSUME NEW j \in Job, log'[n + 1] = [job |-> j, poison |-> FALSE]
        PROVE  ~Open(j)'
    <3>1. job'[j].status = "gone"
      BY <1>3, <2>1, <2>2 DEF Poisonous
    <3> QED
      BY <3>1 DEF Open
  <2> HIDE DEF n
  <2> QED
    BY <1>2, <1>3, <2>1, <2>2, ClearAdvances
<1>6. CASE AcknowledgeSettled(w) \/ Finish(w) \/ Reschedule(w)
  <2>1. ~Record(w).poison /\ TheJob(w) \in Job
    BY <1>6, SettlingNamesJob
  <2>2. PICK k \in Job : k = TheJob(w)
    BY <2>1
  <2>3. Open(k)' => job'[k].row
    <3>1. CASE AcknowledgeSettled(w)
      <4>1. job'[k].status \notin {"queued", "processing"}
        BY <1>4, <2>2, <3>1 DEF AcknowledgeSettled, JobRows, Open, Abandoned
      <4> QED
        BY <4>1 DEF Open
    <3>2. CASE Finish(w)
      <4>1. job'[k].status = "settled"
        BY <1>4, <2>2, <3>2 DEF Finish, JobRows
      <4> QED
        BY <4>1 DEF Open
    <3>3. CASE Reschedule(w)
      <4>1. job'[k].status = "settled" \/ job'[k].row
        BY <1>4, <2>2, <3>3 DEF Reschedule, JobRows
      <4> QED
        BY <4>1 DEF Open
    <3> QED
      BY <1>6, <3>1, <3>2, <3>3
  <2>4. \A j \in Job : log'[n + 1] = [job |-> j, poison |-> FALSE] => j = k
    BY <1>3, <2>2
  <2>5. ~log'[n + 1].poison
    BY <1>3, <2>1
  <2> HIDE DEF n
  <2> QED
    BY <1>2, <1>3, <2>3, <2>4, <2>5, ClearAdvances
<1> QED
  BY <1>5, <1>6

-----------------------------------------------------------------------------
(* The invariant *)

\* Initially the log is empty and nothing is passed over.
LEMMA InitInv == Init => IInv
<1> SUFFICES ASSUME Init PROVE IInv
  OBVIOUS
<1>1. TypeOK
  BY InitTypes
<1>2. Len(log) = 0 /\ committed = 0 /\ \A j \in Job : job[j] = NewJob
  BY DEF Init
<1>3. 0 \in Clear
  <2>1. \A j \in Job : Woken(j, 0) /\ Known(j, 0)
    BY <1>2 DEF Woken, Known, NewJob
  <2>2. Buried(0)
    BY DEF Buried
  <2> QED
    BY <1>2, <2>1, <2>2 DEF Clear
<1>4. LeasedOnlyProcessing
  BY <1>2 DEF LeasedOnlyProcessing, NewJob
<1>5. \A w \in Worker : Knows(w)
  BY PartitionAssumption DEF Init, Knows, Waiting
<1> QED
  BY <1>1, <1>2, <1>3, <1>4, <1>5 DEF IInv

\* A step of reader w leaves it knowing what it must.
LEMMA MoverKnows ==
  ASSUME IInv, [Next]_vars, NEW w \in Worker,
         Read(w) \/ CommitRefused(w) \/ CallFails(w) \/ Crash(w)
  PROVE  Knows(w)'
<1>1. /\ Clear \subseteq Clear' /\ Knows(w)
      /\ worker \in [Worker -> [pc : Steps, hand : 0..Len(log),
                                attempts : 0..MaxDeliveryAttempts]]
      /\ w # None /\ Len(log) \in Nat /\ position \in 0..Len(log)
  BY ClearGrows, PartitionAssumption DEF IInv, TypeOK, Steps
<1>2. ASSUME Stop(w) PROVE Knows(w)'
  <2>1. worker'[w] = Waiting /\ owner' # w
    BY <1>1, <1>2 DEF Stop
  <2> QED
    BY <2>1, WaitingKnows
<1>3. ASSUME NEW pc \in Steps, Goto(w, pc), UNCHANGED <<position, owner>>,
             worker[w].pc # "fetch", pc # "fetch",
             pc = "commit" => worker[w].hand \in Clear',
             pc \in {"isolate", "publish"} => Poisonous(w),
             pc = "execute" => ~Record(w).poison
      PROVE  Knows(w)'
  <2>1. worker'[w].pc = pc /\ worker'[w].hand = worker[w].hand
    BY <1>1, <1>3 DEF Goto
  <2> QED
    BY <1>3, <2>1, HolderKnows
<1>4. ASSUME LeaveUncommitted(w), UNCHANGED position, worker[w].pc # "fetch"
      PROVE  Knows(w)'
  <2>1. CASE Stop(w)
    BY <1>2, <2>1
  <2>2. CASE ~Stop(w)
    <3>1. /\ worker' = [worker EXCEPT ![w].pc = "deliver",
                                      ![w].attempts = worker[w].attempts + 1]
          /\ UNCHANGED owner
      BY <1>4, <2>2 DEF LeaveUncommitted
    <3>2. worker'[w].pc = "deliver" /\ worker'[w].hand = worker[w].hand
      BY <1>1, <3>1
    <3> QED
      BY <1>4, <3>1, <3>2, HolderKnows
  <2> QED
    BY <2>1, <2>2
<1>5. CASE Fetch(w)
  <2>1. /\ worker'[w] = [pc |-> "deliver", hand |-> position + 1, attempts |-> 0]
        /\ position' = position + 1 /\ owner = w /\ worker[w].pc = "fetch"
    BY <1>1, <1>5 DEF Fetch
  <2>2. position \in Clear'
    BY <1>1, <2>1 DEF Knows
  <2>3. worker'[w].pc = "deliver" /\ worker'[w].hand = position'
        /\ worker'[w].hand - 1 = position
    BY <1>1, <2>1
  <2> QED
    BY <2>2, <2>3 DEF Knows
<1>6. CASE Commit(w)
  <2>1. worker'[w] = Waiting /\ position' = position /\ owner' = owner
        /\ worker[w].pc = "commit"
    BY <1>1, <1>6 DEF Commit
  <2>2. worker[w].hand \in Clear'
    BY <1>1, <2>1 DEF Knows
  <2>3. owner' = w => position' \in Clear'
    BY <1>1, <2>1, <2>2 DEF Knows
  <2> QED
    BY <2>1, <2>3, WaitingKnows
<1>7. CASE Reject(w)
  <2>1. PICK pc \in {"publish", "isolate"} : Goto(w, pc)
    BY <1>7 DEF Reject
  <2>2. /\ UNCHANGED <<position, owner>> /\ worker[w].pc # "fetch" /\ Poisonous(w)
        /\ pc \in Steps
    BY <1>7 DEF Reject, partition, Steps
  <2> QED
    BY <1>3, <2>1, <2>2
<1>8. CASE Isolate(w)
  <2>1. /\ Goto(w, "publish") /\ UNCHANGED <<position, owner>> /\ worker[w].pc = "isolate"
        /\ "publish" \in Steps
    BY <1>8 DEF Isolate, partition, Steps
  <2>2. Poisonous(w)
    BY <1>1, <2>1 DEF Knows
  <2> QED
    BY <1>3, <2>1, <2>2
<1>9. CASE Claim(w)
  <2>1. /\ Goto(w, "execute") /\ UNCHANGED <<position, owner>> /\ worker[w].pc # "fetch"
        /\ "execute" \in Steps
    BY <1>9 DEF Claim, partition, Steps
  <2>2. ~Record(w).poison
    BY <1>9, SettlingNamesJob
  <2> QED
    BY <1>3, <2>1, <2>2
<1>10. CASE DeadLetter(w) \/ AcknowledgeSettled(w) \/ Finish(w) \/ Reschedule(w)
  <2>1. /\ Goto(w, "commit") /\ UNCHANGED <<position, owner>> /\ worker[w].pc # "fetch"
        /\ "commit" \in Steps
    BY <1>10 DEF DeadLetter, AcknowledgeSettled, Finish, Reschedule, partition, Steps
  <2>2. worker[w].hand \in Clear'
    BY <1>10, ReadyIsClear
  <2> QED
    BY <1>3, <2>1, <2>2
<1>11. CASE Unavailable(w) \/ Unsettled(w) \/ CallFails(w)
  <2>1. LeaveUncommitted(w) /\ UNCHANGED position /\ worker[w].pc # "fetch"
    BY <1>11 DEF Unavailable, Unsettled, CallFails, partition
  <2> QED
    BY <1>4, <2>1
<1>12. CASE CommitRefused(w) \/ Crash(w)
  BY <1>2, <1>12 DEF CommitRefused, Crash
<1> QED
  BY <1>5, <1>6, <1>7, <1>8, <1>9, <1>10, <1>11, <1>12 DEF Read

\* A step of one reader leaves the others, and their claim to the partition, alone.
LEMMA OthersStay ==
  ASSUME TypeOK, NEW w \in Worker, NEW v \in Worker, v # w,
         Read(w) \/ CommitRefused(w) \/ CallFails(w) \/ Crash(w) \/ Assign(w)
  PROVE  /\ worker'[v] = worker[v]
         /\ owner' = v => owner = v /\ position' = position
<1>1. worker \in [Worker -> [pc : Steps, hand : 0..Len(log),
                             attempts : 0..MaxDeliveryAttempts]]
      /\ v # None
  BY PartitionAssumption DEF TypeOK, Steps
<1>2. ASSUME LeaveUncommitted(w) \/ Stop(w), UNCHANGED position
      PROVE  /\ worker'[v] = worker[v]
             /\ owner' = v => owner = v /\ position' = position
  BY <1>1, <1>2 DEF LeaveUncommitted, Stop
<1>3. ASSUME NEW pc \in Steps, Goto(w, pc)
      PROVE  worker'[v] = worker[v]
  BY <1>1, <1>3 DEF Goto
<1>4. CASE Fetch(w) \/ Commit(w) \/ Assign(w)
  BY <1>1, <1>4 DEF Fetch, Commit, Assign
<1>5. CASE Unavailable(w) \/ Unsettled(w) \/ CallFails(w) \/ CommitRefused(w) \/ Crash(w)
  BY <1>2, <1>5 DEF Unavailable, Unsettled, CallFails, CommitRefused, Crash, partition
<1>6. CASE Reject(w) \/ Isolate(w) \/ DeadLetter(w) \/ Claim(w) \/ AcknowledgeSettled(w)
           \/ Finish(w) \/ Reschedule(w)
  <2>1. \E pc \in Steps : Goto(w, pc)
    BY <1>6 DEF Reject, Isolate, DeadLetter, Claim, AcknowledgeSettled, Finish, Reschedule, Steps
  <2>2. UNCHANGED <<position, owner>>
    BY <1>6 DEF Reject, Isolate, DeadLetter, Claim, AcknowledgeSettled, Finish, Reschedule,
                partition
  <2> QED
    BY <1>3, <2>1, <2>2
<1> QED
  BY <1>4, <1>5, <1>6 DEF Read

\* The committed offset stays clear and every reader keeps knowing what it must.
LEMMA NextInv == IInv /\ [Next]_vars => IInv'
<1> SUFFICES ASSUME IInv, [Next]_vars PROVE IInv'
  OBVIOUS
<1>1. TypeOK /\ TypeOK' /\ LeasedOnlyProcessing' /\ Clear \subseteq Clear'
      /\ committed \in Clear
  BY NextTypes, JobSteps, ClearGrows DEF IInv
<1>2. ASSUME UNCHANGED <<committed, position, owner, worker>>
      PROVE  committed' \in Clear' /\ \A v \in Worker : Knows(v)'
  BY <1>1, <1>2, BystanderKnows
<1>3. ASSUME NEW w \in Worker,
             Read(w) \/ CommitRefused(w) \/ CallFails(w) \/ Crash(w)
      PROVE  committed' \in Clear' /\ \A v \in Worker : Knows(v)'
  <2>1. \A v \in Worker : Knows(v)'
    BY <1>1, <1>3, MoverKnows, OthersStay, BystanderKnows
  <2>2. CASE Commit(w)
    BY <1>1, <2>1, <2>2 DEF Commit, IInv, Knows
  <2>3. CASE ~Commit(w)
    <3>1. committed' = committed
      BY <1>3, <2>3 DEF Read, Fetch, Reject, Isolate, DeadLetter, Claim, AcknowledgeSettled,
                        Unavailable, Finish, Reschedule, Unsettled, CommitRefused, CallFails,
                        Crash, partition
    <3> QED
      BY <1>1, <2>1, <3>1
  <2> QED
    BY <2>2, <2>3
<1>4. ASSUME NEW w \in Worker, Assign(w)
      PROVE  committed' \in Clear' /\ \A v \in Worker : Knows(v)'
  <2>1. UNCHANGED <<log, job, committed, worker>> /\ position' = committed /\ owner' = w
    BY <1>4 DEF Assign
  <2>2. committed' \in Clear'
    BY <1>1, <2>1
  <2>3. Knows(w)'
    <3>1. Knows(w) /\ position' \in Clear'
      BY <1>1, <2>1 DEF IInv
    <3>2. /\ worker[w].pc \in {"isolate", "publish"} => Poisonous(w)'
          /\ worker[w].pc = "execute" => ~Record(w)'.poison
      BY <2>1, <3>1, PoisonStays DEF Knows
    <3> QED
      BY <1>1, <2>1, <3>1, <3>2 DEF Knows
  <2> QED
    BY <1>1, <1>4, <2>2, <2>3, OthersStay, BystanderKnows
<1>5. ASSUME NEW j \in Job,
             \/ Publish(j) \/ PublishTwice(j) \/ LeaseExpires(j) \/ BecomeDue(j) \/ Replay(j)
             \/ Delete(j) \/ Restore(j) \/ Purge(j)
      PROVE  UNCHANGED <<committed, position, owner, worker>>
  BY <1>5 DEF Publish, PublishTwice, LeaseExpires, BecomeDue, Replay, Delete, Restore, Purge,
              partition
<1>6. ASSUME NEW j \in Job \cup {None}, AppendPoison(j)
      PROVE  UNCHANGED <<committed, position, owner, worker>>
  BY <1>6 DEF AppendPoison
<1>7. CASE UNCHANGED vars
  BY <1>1, <1>2, <1>7 DEF vars, IInv
<1> QED
  BY <1>1, <1>2, <1>3, <1>4, <1>5, <1>6, <1>7 DEF Next, IInv

\* Every reachable state satisfies the inductive invariant.
THEOREM Invariance == Spec => []IInv
<1> QED
  BY InitInv, NextInv, PTL DEF Spec

\* Committing an offset loses no work: in every behaviour, whatever the readers,
\* the group, the relay and the operator do, an unfinished job has an outbox row
\* or a notification that the group has not committed.
THEOREM NoWakeupLost == Spec => []WakeupKept
<1>1. IInv => WakeupKept
  BY DEF IInv, Clear, WakeupKept
<1> QED
  BY <1>1, Invariance, PTL

\* No poison record is passed over without a dead letter, and no job is isolated
\* without one, now or when its record is delivered again.
THEOREM QuarantineIsReported == Spec => []QuarantineReported
<1>1. IInv => QuarantineReported
  BY DEF IInv, Clear, QuarantineReported
<1> QED
  BY <1>1, Invariance, PTL

=============================================================================
