-------------------------- MODULE MediaJobTheorems --------------------------
(***************************************************************************)
(* For every number of workers, derivatives, attempts and renewals: the    *)
(* types of MediaJob; that job, version, outputs and pointer reach one     *)
(* outcome together and keep it; and that a job which has none always has  *)
(* something that will wake a worker up for it.                            *)
(***************************************************************************)
EXTENDS MediaJob, TLAPS

\* What a worker may be between two calls: a renewal it has yet to be told of
\* is one more than it knows.
WorkerStates ==
    {s \in [step : Steps, attempt : 0..MaxAttempts, renewal : 0..MaxRenewals,
            renewing : BOOLEAN, done : SUBSET Kinds, made : SUBSET Kinds,
            fresh : BOOLEAN] :
        s.renewing => s.renewal < MaxRenewals}

-----------------------------------------------------------------------------
(* Types *)

\* A worker that has nothing to do is well formed.
LEMMA IdleType == Idle \in WorkerStates
BY JobAssumption DEF Idle, Steps, WorkerStates

\* A message a worker still has to commit is in the queue.  (The count of
\* uncommitted messages cannot become negative.)
FreshQueued == \A w \in Workers : worker[w].fresh => backlog > 0

TypeInv ==
    /\ TypeOK
    /\ worker \in [Workers -> WorkerStates]
    /\ FreshQueued

\* Committing an offset leaves a well-formed queue and well-formed workers.
LEMMA CommitOffsetType ==
  ASSUME TypeInv, NEW w \in Workers, NEW fresh \in BOOLEAN,
         fresh => backlog > 0, CommitOffset(w, fresh)
  PROVE  backlog' \in 0..MaxBacklog /\ worker' \in [Workers -> WorkerStates]
<1>1. backlog' \in 0..MaxBacklog
  BY JobAssumption DEF TypeInv, TypeOK, CommitOffset
<1>2. worker \in [Workers -> WorkerStates]
  BY DEF TypeInv
<1>3. ASSUME NEW v \in Workers
      PROVE  [worker[v] EXCEPT !.fresh = FALSE] \in WorkerStates
  BY <1>2 DEF WorkerStates
<1>4. worker' \in [Workers -> WorkerStates]
  BY IdleType, <1>2, <1>3 DEF CommitOffset
<1> QED
  BY <1>1, <1>4

\* A step that changes one worker, and not the number of its message, keeps
\* the workers well formed if it leaves that one well formed.
LEMMA WorkerStep ==
  ASSUME TypeInv, NEW w \in Workers, NEW s \in WorkerStates,
         worker' = [worker EXCEPT ![w] = s],
         s.fresh => worker[w].fresh \/ backlog > 0,
         backlog' = backlog
  PROVE  worker' \in [Workers -> WorkerStates] /\ FreshQueued'
<1>1. worker \in [Workers -> WorkerStates]
  BY DEF TypeInv
<1>2. worker' \in [Workers -> WorkerStates]
  BY <1>1
<1>3. \A v \in Workers : worker'[v].fresh => backlog > 0
  BY <1>1 DEF TypeInv, FreshQueued
<1> QED
  BY <1>2, <1>3 DEF FreshQueued

\* A worker moves on to another step.
LEMMA MoveStep ==
  ASSUME TypeInv, NEW w \in Workers, NEW x \in Steps,
         worker' = [worker EXCEPT ![w].step = x], backlog' = backlog
  PROVE  worker' \in [Workers -> WorkerStates] /\ FreshQueued'
<1> DEFINE s == [worker[w] EXCEPT !.step = x]
<1>1. worker \in [Workers -> WorkerStates]
  BY DEF TypeInv
<1>2. s \in WorkerStates /\ s.fresh = worker[w].fresh
  BY <1>1 DEF WorkerStates
<1>3. worker' = [worker EXCEPT ![w] = s]
  OBVIOUS
<1> HIDE DEF s
<1> QED
  BY <1>2, <1>3, WorkerStep

\* A worker stops.
LEMMA StopStep ==
  ASSUME TypeInv, NEW w \in Workers,
         worker' = [worker EXCEPT ![w] = Idle], backlog' = backlog
  PROVE  worker' \in [Workers -> WorkerStates] /\ FreshQueued'
<1>1. Idle.fresh = FALSE
  BY DEF Idle
<1> QED
  BY <1>1, IdleType, WorkerStep

\* Committing an offset takes the message from everyone who was handling it.
LEMMA CommitOffsetKeeps ==
  ASSUME TypeInv, NEW w \in Workers, NEW fresh \in BOOLEAN,
         fresh => backlog > 0, CommitOffset(w, fresh)
  PROVE  FreshQueued'
<1>1. worker \in [Workers -> WorkerStates]
  BY DEF TypeInv
<1>2. CASE fresh
  <2>1. \A v \in Workers : worker'[v].fresh = FALSE
    BY <1>1, <1>2 DEF CommitOffset, Idle, WorkerStates
  <2> QED
    BY <2>1 DEF FreshQueued
<1>3. CASE ~fresh
  <2>1. backlog' = backlog
    BY <1>3 DEF CommitOffset
  <2>2. \A v \in Workers : worker'[v].fresh => worker[v].fresh
    BY <1>1, <1>3 DEF CommitOffset, Idle, WorkerStates
  <2> QED
    BY <2>1, <2>2 DEF TypeInv, FreshQueued
<1> QED
  BY <1>2, <1>3

\* The outbox, the reconciler, time, the operator and the asset's owner keep
\* the types.
LEMMA EnvironmentType ==
  ASSUME TypeInv,
         \/ Relay \/ Reconcile \/ LoseMessages \/ BecomeDue \/ LeaseExpires
         \/ DeleteOrRestoreAsset \/ Isolate \/ Replay
  PROVE  TypeInv'
<1> USE JobAssumption
<1>1. CASE RelayPublish
  BY <1>1 DEF TypeInv, TypeOK, FreshQueued, RelayPublish, jobVars, mediaVars
<1>2. CASE RelayMark
  BY <1>2 DEF TypeInv, TypeOK, FreshQueued, RelayMark, jobVars, mediaVars
<1>3. CASE Reconcile
  BY <1>3 DEF TypeInv, TypeOK, FreshQueued, Reconcile, jobVars, mediaVars
<1>4. CASE LoseMessages
  <2>1. worker \in [Workers -> WorkerStates]
    BY DEF TypeInv
  <2>2. \A v \in Workers : [worker[v] EXCEPT !.fresh = FALSE] \in WorkerStates
    BY <2>1 DEF WorkerStates
  <2>3. worker' \in [Workers -> WorkerStates]
    BY <1>4, <2>2 DEF LoseMessages
  <2>4. \A v \in Workers : worker'[v].fresh = FALSE
    BY <1>4, <2>1 DEF LoseMessages, WorkerStates
  <2>5. TypeOK'
    BY <1>4, <2>3 DEF TypeInv, TypeOK, WorkerStates, LoseMessages, jobVars, mediaVars
  <2> QED
    BY <2>3, <2>4, <2>5 DEF TypeInv, FreshQueued
<1>5. CASE BecomeDue
  BY <1>5 DEF TypeInv, TypeOK, FreshQueued, BecomeDue, mediaVars, queueVars
<1>6. CASE LeaseExpires
  <2>1. leaseLive' \in BOOLEAN
    BY <1>6 DEF LeaseExpires
  <2>2. UNCHANGED <<status, attempt, due, holder, renewal, isolated, mediaVars,
                    assetLive, queueVars, objects, worker>>
    BY <1>6 DEF LeaseExpires
  <2> QED
    BY <2>1, <2>2 DEF TypeInv, TypeOK, FreshQueued, mediaVars, queueVars
<1>7. CASE DeleteOrRestoreAsset
  <2>1. assetLive' \in BOOLEAN
    BY <1>7 DEF DeleteOrRestoreAsset
  <2> QED
    BY <1>7, <2>1 DEF TypeInv, TypeOK, FreshQueued, DeleteOrRestoreAsset,
       jobVars, mediaVars, queueVars
<1>8. CASE Isolate
  BY <1>8 DEF TypeInv, TypeOK, FreshQueued, Isolate, mediaVars, queueVars
<1>9. CASE Replay
  BY <1>9 DEF TypeInv, TypeOK, FreshQueued, Replay, mediaVars
<1> QED
  BY <1>1, <1>2, <1>3, <1>4, <1>5, <1>6, <1>7, <1>8, <1>9 DEF Relay

\* Claims keep the types.
LEMMA ReceiveType ==
  ASSUME TypeInv, NEW w \in Workers, Receive(w)
  PROVE  TypeInv'
<1> USE JobAssumption
<1>1. CASE Claim(w)
  <2> DEFINE s == [Idle EXCEPT !.step = "render", !.attempt = attempt + 1,
                               !.fresh = TRUE]
  <2>1. attempt + 1 \in 0..MaxAttempts
    BY <1>1 DEF TypeInv, TypeOK, Claim, Claimable
  <2>2. s \in WorkerStates
    BY <2>1, IdleType DEF WorkerStates, Steps
  <2>3. worker' = [worker EXCEPT ![w] = s] /\ backlog > 0 /\ backlog' = backlog
    BY <1>1 DEF Claim, Delivered, queueVars
  <2> HIDE DEF s
  <2>4. worker' \in [Workers -> WorkerStates] /\ FreshQueued'
    BY <2>2, <2>3, WorkerStep
  <2> QED
    BY <1>1, <2>1, <2>4 DEF TypeInv, TypeOK, WorkerStates, Claim, mediaVars, queueVars
<1>2. CASE RecoverExhausted(w)
  <2>1. backlog' \in 0..MaxBacklog /\ worker' \in [Workers -> WorkerStates]
    BY <1>2, CommitOffsetType DEF TypeInv, RecoverExhausted, Delivered
  <2>2. FreshQueued'
    BY <1>2, CommitOffsetKeeps DEF RecoverExhausted, Delivered
  <2> QED
    BY <1>2, <2>1, <2>2 DEF TypeInv, TypeOK, WorkerStates, RecoverExhausted, Fail
<1>3. CASE AcknowledgeSettled(w)
  <2>1. backlog' \in 0..MaxBacklog /\ worker' \in [Workers -> WorkerStates]
    BY <1>3, CommitOffsetType DEF TypeInv, AcknowledgeSettled, Delivered
  <2>2. FreshQueued'
    BY <1>3, CommitOffsetKeeps DEF AcknowledgeSettled, Delivered
  <2> QED
    BY <1>3, <2>1, <2>2 DEF TypeInv, TypeOK, WorkerStates, AcknowledgeSettled,
       jobVars, mediaVars
<1> QED
  BY <1>1, <1>2, <1>3 DEF Receive

\* Renewals and crashes keep the types.
LEMMA KeeperType ==
  ASSUME TypeInv, NEW w \in Workers, Renew(w) \/ Renewed(w) \/ Abandon(w)
  PROVE  TypeInv'
<1>1. worker \in [Workers -> WorkerStates]
  BY DEF TypeInv
<1>2. CASE Renew(w)
  <2> DEFINE s == [worker[w] EXCEPT !.renewing = TRUE]
  <2>1. s \in WorkerStates /\ s.fresh = worker[w].fresh
    BY <1>1, <1>2 DEF WorkerStates, Renew, Leased
  <2>2. worker' = [worker EXCEPT ![w] = s] /\ backlog' = backlog
    BY <1>2 DEF Renew, queueVars
  <2> HIDE DEF s
  <2>3. worker' \in [Workers -> WorkerStates] /\ FreshQueued'
    BY <2>1, <2>2, WorkerStep
  <2>4. renewal' \in 0..MaxRenewals
    BY <1>2, JobAssumption DEF TypeInv, TypeOK, Renew
  <2> QED
    BY <1>2, <2>3, <2>4 DEF TypeInv, TypeOK, WorkerStates, Renew, mediaVars,
       queueVars
<1>3. CASE Renewed(w)
  <2> DEFINE s == [worker[w] EXCEPT !.renewing = FALSE, !.renewal = @ + 1]
  <2>1. s \in WorkerStates /\ s.fresh = worker[w].fresh
    BY <1>1, <1>3, JobAssumption DEF WorkerStates, Renewed
  <2>2. worker' = [worker EXCEPT ![w] = s] /\ backlog' = backlog
    BY <1>3 DEF Renewed, queueVars
  <2> HIDE DEF s
  <2>3. worker' \in [Workers -> WorkerStates] /\ FreshQueued'
    BY <2>1, <2>2, WorkerStep
  <2> QED
    BY <1>3, <2>3 DEF TypeInv, TypeOK, WorkerStates, Renewed, jobVars,
       mediaVars, queueVars
<1>4. CASE Abandon(w)
  <2>1. worker' \in [Workers -> WorkerStates] /\ FreshQueued'
    BY <1>4, StopStep DEF Abandon, queueVars
  <2> QED
    BY <1>4, <2>1 DEF TypeInv, TypeOK, WorkerStates, Abandon, jobVars,
       mediaVars, queueVars
<1> QED
  BY <1>2, <1>3, <1>4

\* The steps of an execution that write nothing but objects keep the types.
LEMMA WorkType ==
  ASSUME TypeInv, NEW w \in Workers,
         \/ \E outcome \in {"upload", "reject", "settle"} : Render(w, outcome)
         \/ \E k \in Kinds : PutArtifact(w, k)
         \/ UploadFails(w) \/ PromoteRefused(w) \/ RejectRefused(w)
         \/ Discard(w) \/ SettleRefused(w) \/ Commit(w)
  PROVE  TypeInv'
<1>1. worker \in [Workers -> WorkerStates]
  BY DEF TypeInv
<1>2. ASSUME NEW outcome \in {"upload", "reject", "settle"}, Render(w, outcome)
      PROVE  TypeInv'
  <2>1. worker' \in [Workers -> WorkerStates] /\ FreshQueued'
    BY <1>2, MoveStep DEF Render, queueVars, Steps
  <2> QED
    BY <1>2, <2>1 DEF TypeInv, TypeOK, WorkerStates, Render, jobVars, mediaVars,
       queueVars
<1>3. ASSUME NEW k \in Kinds, PutArtifact(w, k)
      PROVE  TypeInv'
  <2> DEFINE made == IF k \in objects THEN worker[w].made ELSE worker[w].made \cup {k}
             step == IF worker[w].done \cup {k} = Kinds THEN "promote" ELSE "upload"
             s == [worker[w] EXCEPT !.done = worker[w].done \cup {k},
                                    !.made = made, !.step = step]
  <2>1. made \in SUBSET Kinds /\ step \in Steps
    BY <1>1 DEF WorkerStates, Steps
  <2> HIDE DEF made, step
  <2>2. s \in WorkerStates /\ s.fresh = worker[w].fresh
    BY <1>1, <2>1 DEF WorkerStates
  <2>3. worker' = [worker EXCEPT ![w] = s] /\ backlog' = backlog
    BY <1>3 DEF PutArtifact, queueVars, made, step
  <2> HIDE DEF s
  <2>4. worker' \in [Workers -> WorkerStates] /\ FreshQueued'
    BY <2>2, <2>3, WorkerStep
  <2>5. objects' \in SUBSET Kinds
    BY <1>3 DEF TypeInv, TypeOK, PutArtifact
  <2>6. UNCHANGED <<jobVars, mediaVars, assetLive, queueVars>>
    BY <1>3 DEF PutArtifact
  <2> QED
    BY <2>4, <2>5, <2>6 DEF TypeInv, TypeOK, WorkerStates, jobVars, mediaVars,
       queueVars
<1>4. CASE UploadFails(w)
  <2>1. worker' \in [Workers -> WorkerStates] /\ FreshQueued'
    BY <1>4, MoveStep DEF UploadFails, queueVars, Steps
  <2> QED
    BY <1>4, <2>1 DEF TypeInv, TypeOK, WorkerStates, UploadFails, jobVars,
       mediaVars, queueVars
<1>5. CASE PromoteRefused(w)
  <2>1. worker' \in [Workers -> WorkerStates] /\ FreshQueued'
    BY <1>5, MoveStep DEF PromoteRefused, queueVars, Steps
  <2> QED
    BY <1>5, <2>1 DEF TypeInv, TypeOK, WorkerStates, PromoteRefused, jobVars,
       mediaVars, queueVars
<1>6. CASE RejectRefused(w)
  <2>1. worker' \in [Workers -> WorkerStates] /\ FreshQueued'
    BY <1>6, MoveStep DEF RejectRefused, queueVars, Steps
  <2> QED
    BY <1>6, <2>1 DEF TypeInv, TypeOK, WorkerStates, RejectRefused, jobVars,
       mediaVars, queueVars
<1>7. CASE Discard(w)
  <2>1. worker' \in [Workers -> WorkerStates] /\ FreshQueued'
    <3>1. ASSUME NEW k \in Kinds,
                 worker' = [worker EXCEPT ![w].made = @ \ {k}]
          PROVE  worker' \in [Workers -> WorkerStates] /\ FreshQueued'
      <4> DEFINE s == [worker[w] EXCEPT !.made = worker[w].made \ {k}]
      <4>1. s \in WorkerStates /\ s.fresh = worker[w].fresh
        BY <1>1 DEF WorkerStates
      <4>2. worker' = [worker EXCEPT ![w] = s] /\ backlog' = backlog
        BY <1>7, <3>1 DEF Discard, queueVars
      <4> HIDE DEF s
      <4> QED
        BY <4>1, <4>2, WorkerStep
    <3>2. CASE worker' = [worker EXCEPT ![w].step = "settle"]
      BY <1>7, <3>2, MoveStep DEF Discard, queueVars, Steps
    <3>3. worker[w].made \subseteq Kinds
      BY <1>1 DEF WorkerStates
    <3> QED
      BY <1>7, <3>1, <3>2, <3>3 DEF Discard
  <2>2. objects' \subseteq objects
    BY <1>7 DEF Discard
  <2> QED
    BY <1>7, <2>1, <2>2 DEF TypeInv, TypeOK, WorkerStates, Discard, jobVars,
       mediaVars, queueVars
<1>8. CASE SettleRefused(w)
  <2>1. worker' \in [Workers -> WorkerStates] /\ FreshQueued'
    BY <1>8, StopStep DEF SettleRefused, queueVars
  <2> QED
    BY <1>8, <2>1 DEF TypeInv, TypeOK, WorkerStates, SettleRefused, jobVars,
       mediaVars, queueVars
<1>9. CASE Commit(w)
  <2>1. worker[w].fresh \in BOOLEAN /\ (worker[w].fresh => backlog > 0)
    BY <1>1 DEF TypeInv, FreshQueued, WorkerStates
  <2>2. CommitOffset(w, worker[w].fresh)
    BY <1>9 DEF Commit
  <2>3. backlog' \in 0..MaxBacklog /\ worker' \in [Workers -> WorkerStates]
    BY <2>1, <2>2, CommitOffsetType
  <2>4. FreshQueued'
    BY <2>1, <2>2, CommitOffsetKeeps
  <2> QED
    BY <1>9, <2>3, <2>4 DEF TypeInv, TypeOK, WorkerStates, Commit, jobVars, mediaVars
<1> QED
  BY <1>2, <1>3, <1>4, <1>5, <1>6, <1>7, <1>8, <1>9

\* The steps of an execution that settle the job keep the types.
LEMMA OutcomeType ==
  ASSUME TypeInv, NEW w \in Workers,
         \/ \E acknowledged \in BOOLEAN :
               Promote(w, acknowledged) \/ Reject(w, acknowledged)
         \/ SettleExhausted(w) \/ SettleRetry(w)
  PROVE  TypeInv'
<1>1. ASSUME NEW acknowledged \in BOOLEAN, Promote(w, acknowledged)
      PROVE  TypeInv'
  <2>1. worker' \in [Workers -> WorkerStates] /\ FreshQueued'
    BY <1>1, MoveStep DEF Promote, queueVars, Steps
  <2> QED
    BY <1>1, <2>1 DEF TypeInv, TypeOK, WorkerStates, Promote, queueVars
<1>2. ASSUME NEW acknowledged \in BOOLEAN, Reject(w, acknowledged)
      PROVE  TypeInv'
  <2>1. worker' \in [Workers -> WorkerStates] /\ FreshQueued'
    BY <1>2, MoveStep DEF Reject, queueVars, Steps
  <2> QED
    BY <1>2, <2>1 DEF TypeInv, TypeOK, WorkerStates, Reject, Fail, queueVars
<1>3. CASE SettleExhausted(w)
  <2>1. worker' \in [Workers -> WorkerStates] /\ FreshQueued'
    BY <1>3, MoveStep DEF SettleExhausted, queueVars, Steps
  <2> QED
    BY <1>3, <2>1 DEF TypeInv, TypeOK, WorkerStates, SettleExhausted, Fail, queueVars
<1>4. CASE SettleRetry(w)
  <2>1. worker' \in [Workers -> WorkerStates] /\ FreshQueued'
    BY <1>4, MoveStep DEF SettleRetry, Steps
  <2> QED
    BY <1>4, <2>1 DEF TypeInv, TypeOK, WorkerStates, SettleRetry, mediaVars
<1> QED
  BY <1>1, <1>2, <1>3, <1>4

\* Every variable of MediaJob keeps its type, and the message a worker handles
\* is never committed twice.
LEMMA TypeInvariant == Spec => []TypeInv
<1>1. Init => TypeInv
  <2> SUFFICES ASSUME Init PROVE TypeInv
    OBVIOUS
  <2>1. worker = [w \in Workers |-> Idle]
    BY DEF Init
  <2>2. worker \in [Workers -> WorkerStates]
    BY <2>1, IdleType
  <2>3. FreshQueued
    BY <2>1 DEF FreshQueued, Idle
  <2>4. TypeOK
    <3>1. worker \in [Workers -> [step : Steps, attempt : 0..MaxAttempts,
                                 renewal : 0..MaxRenewals, renewing : BOOLEAN,
                                 done : SUBSET Kinds, made : SUBSET Kinds,
                                 fresh : BOOLEAN]]
      BY <2>2 DEF WorkerStates
    <3>2. attempt \in 0..MaxAttempts /\ renewal \in 0..MaxRenewals
          /\ backlog \in 0..MaxBacklog
      BY JobAssumption DEF Init
    <3>3. outputs \in SUBSET Kinds /\ objects \in SUBSET Kinds
      BY DEF Init
    <3>4. due \in BOOLEAN /\ leaseLive \in BOOLEAN /\ isolated \in BOOLEAN
          /\ assetLive \in BOOLEAN /\ dispatched \in BOOLEAN /\ lost \in BOOLEAN
      BY DEF Init
    <3>5. /\ status \in {"queued", "processing", "completed", "failed"}
          /\ holder \in Workers \cup {None}
          /\ version \in {"pending", "completed", "failed"}
          /\ pointer \in {"none", "pending", "active"}
          /\ row \in {"none", "pending", "acked"}
      BY DEF Init
    <3> QED
      BY <3>1, <3>2, <3>3, <3>4, <3>5 DEF TypeOK
  <2> QED
    BY <2>2, <2>3, <2>4 DEF TypeInv
<1>2. TypeInv /\ [Next]_vars => TypeInv'
  <2> SUFFICES ASSUME TypeInv, [Next]_vars PROVE TypeInv'
    OBVIOUS
  <2>1. CASE UNCHANGED vars
    BY <2>1 DEF vars, jobVars, mediaVars, queueVars, TypeInv, TypeOK, FreshQueued
  <2>2. ASSUME NEW w \in Workers,
               Receive(w) \/ Renew(w) \/ Renewed(w) \/ Abandon(w) \/ Execute(w)
        PROVE  TypeInv'
    BY <2>2, ReceiveType, KeeperType, WorkType, OutcomeType DEF Execute
  <2> QED
    BY <2>1, <2>2, EnvironmentType DEF Next
<1> QED
  BY <1>1, <1>2, PTL DEF Spec

\* Every variable of MediaJob keeps its type, for any number of workers and
\* whatever bounds the attempts, the renewals and the backlog.
THEOREM TypeCorrect == Spec => []TypeOK
<1>1. TypeInv => TypeOK
  BY DEF TypeInv
<1> QED
  BY <1>1, TypeInvariant, PTL

-----------------------------------------------------------------------------
(* One outcome *)

Active == status \in {"queued", "processing"}

\* The steps in which the outcome of the job does not change: they leave its
\* rows alone, or move it between the two states in which it has none.
Undecided ==
    /\ UNCHANGED <<isolated, mediaVars>>
    /\ \/ UNCHANGED status
       \/ (Active /\ Active')

OutcomeKept ==
    /\ OutcomeConsistent'
    /\ version # "pending" => UNCHANGED <<status, mediaVars>>

\* An outcome is reached by one step as a whole, and no later step changes it.
LEMMA OutcomeStep ==
  ASSUME TypeInv, OutcomeConsistent, [Next]_vars
  PROVE  OutcomeKept
<1>1. ASSUME Undecided PROVE OutcomeKept
  BY <1>1 DEF OutcomeKept, Undecided, Active, OutcomeConsistent, TypeInv, TypeOK, mediaVars
<1>2. ASSUME status = "processing", Fail, UNCHANGED <<isolated, outputs>>
      PROVE  OutcomeKept
  BY <1>2 DEF OutcomeKept, Fail, OutcomeConsistent, TypeInv, TypeOK, mediaVars
<1>3. CASE UNCHANGED vars
  BY <1>1, <1>3 DEF vars, jobVars, Undecided
<1>4. CASE \/ Relay \/ Reconcile \/ LoseMessages \/ BecomeDue \/ LeaseExpires
           \/ DeleteOrRestoreAsset
  <2>1. UNCHANGED <<status, isolated, mediaVars>>
    BY <1>4 DEF Relay, RelayPublish, RelayMark, Reconcile, LoseMessages,
       BecomeDue, LeaseExpires, DeleteOrRestoreAsset, jobVars
  <2> QED
    BY <1>1, <2>1 DEF Undecided
<1>5. CASE Isolate
  BY <1>5 DEF OutcomeKept, Isolate, Isolatable, OutcomeConsistent, TypeInv, TypeOK, mediaVars
<1>6. CASE Replay
  BY <1>6 DEF OutcomeKept, Replay, OutcomeConsistent, TypeInv, TypeOK, mediaVars
<1>7. ASSUME NEW w \in Workers, Receive(w) PROVE OutcomeKept
  <2>1. CASE Claim(w)
    BY <1>1, <2>1 DEF Claim, Claimable, Undecided, Active
  <2>2. CASE RecoverExhausted(w)
    BY <1>2, <2>2 DEF RecoverExhausted
  <2>3. CASE AcknowledgeSettled(w)
    BY <1>1, <2>3 DEF AcknowledgeSettled, Undecided, jobVars
  <2> QED
    BY <1>7, <2>1, <2>2, <2>3 DEF Receive
<1>8. ASSUME NEW w \in Workers, Renew(w) \/ Renewed(w) \/ Abandon(w)
      PROVE  OutcomeKept
  <2>1. UNCHANGED <<status, isolated, mediaVars>>
    BY <1>8 DEF Renew, Renewed, Abandon, jobVars
  <2> QED
    BY <1>1, <2>1 DEF Undecided
<1>9. ASSUME NEW w \in Workers, Execute(w) PROVE OutcomeKept
  <2>1. ASSUME UNCHANGED <<status, isolated, mediaVars>> PROVE OutcomeKept
    BY <1>1, <2>1 DEF Undecided
  <2>2. ASSUME NEW outcome \in {"upload", "reject", "settle"}, Render(w, outcome)
        PROVE  OutcomeKept
    BY <2>1, <2>2 DEF Render, jobVars
  <2>3. ASSUME NEW k \in Kinds, PutArtifact(w, k) PROVE OutcomeKept
    BY <2>1, <2>3 DEF PutArtifact, jobVars
  <2>4. CASE UploadFails(w) \/ PromoteRefused(w) \/ RejectRefused(w) \/ Discard(w)
             \/ SettleRefused(w) \/ Commit(w)
    BY <2>1, <2>4 DEF UploadFails, PromoteRefused, RejectRefused, Discard,
       SettleRefused, Commit, jobVars
  <2>5. ASSUME NEW acknowledged \in BOOLEAN, Promote(w, acknowledged) PROVE OutcomeKept
    BY <2>5 DEF OutcomeKept, Promote, Leased, OutcomeConsistent, TypeInv, TypeOK, mediaVars
  <2>6. ASSUME NEW acknowledged \in BOOLEAN, Reject(w, acknowledged) PROVE OutcomeKept
    BY <1>2, <2>6 DEF Reject, Leased
  <2>7. CASE SettleExhausted(w)
    BY <1>2, <2>7 DEF SettleExhausted, Leased
  <2>8. CASE SettleRetry(w)
    BY <1>1, <2>8 DEF SettleRetry, Leased, Undecided, Active
  <2> QED
    BY <1>9, <2>2, <2>3, <2>4, <2>5, <2>6, <2>7, <2>8 DEF Execute
<1> QED
  BY <1>3, <1>4, <1>5, <1>6, <1>7, <1>8, <1>9 DEF Next

\* Whatever interrupts the workers, job, version, outputs and pointer reach
\* their outcome together.
THEOREM OutcomesAgree == Spec => []OutcomeConsistent
<1>1. Init => OutcomeConsistent
  BY DEF Init, OutcomeConsistent
<1>2. TypeInv /\ OutcomeConsistent /\ [Next]_vars => OutcomeConsistent'
  BY OutcomeStep DEF OutcomeKept
<1> QED
  BY <1>1, <1>2, TypeInvariant, PTL DEF Spec

\* No redelivery, isolation, replay or superseded worker changes, repeats or
\* takes back an outcome.
THEOREM OutcomesLast == Spec => OutcomeFinal
<1>1. TypeInv /\ OutcomeConsistent /\ [Next]_vars
      => [version # "pending" => UNCHANGED <<status, mediaVars>>]_vars
  BY OutcomeStep DEF OutcomeKept
<1> QED
  BY <1>1, TypeInvariant, OutcomesAgree, PTL DEF Spec, OutcomeFinal

\* A version is only given up by its content being rejected, under the lease,
\* or after the last attempt.
THEOREM GivenUpLate == Spec => GivenUpOnlyWhenExhausted
<1>1. TypeInv /\ [Next]_vars
      => [version = "pending" /\ version' = "failed"
          => \/ attempt = MaxAttempts
             \/ \E w \in Workers : holder = w /\ worker[w].step = "reject"]_vars
  <2> SUFFICES ASSUME TypeInv, Next, version = "pending", version' = "failed"
               PROVE  \/ attempt = MaxAttempts
                      \/ \E w \in Workers : holder = w /\ worker[w].step = "reject"
    OBVIOUS
  <2>1. Exhausted => attempt = MaxAttempts
    BY JobAssumption DEF Exhausted, TypeInv, TypeOK
  <2>2. version' # version
    OBVIOUS
  <2>3. ~(\/ Relay \/ Reconcile \/ LoseMessages \/ BecomeDue \/ LeaseExpires
          \/ DeleteOrRestoreAsset \/ Isolate \/ Replay)
    BY <2>2 DEF Relay, RelayPublish, RelayMark, Reconcile, LoseMessages, BecomeDue,
       LeaseExpires, DeleteOrRestoreAsset, Isolate, Replay, mediaVars
  <2>4. PICK w \in Workers : Receive(w) \/ Renew(w) \/ Renewed(w) \/ Abandon(w)
                            \/ Execute(w)
    BY <2>3 DEF Next
  <2>5. ~(Renew(w) \/ Renewed(w) \/ Abandon(w))
    BY <2>2 DEF Renew, Renewed, Abandon, mediaVars
  <2>6. Receive(w) => RecoverExhausted(w)
    BY <2>2 DEF Receive, Claim, AcknowledgeSettled, mediaVars
  <2>7. Execute(w) => \/ SettleExhausted(w)
                      \/ \E acknowledged \in BOOLEAN : Reject(w, acknowledged)
    BY <2>2 DEF Execute, Render, PutArtifact, UploadFails, Promote, PromoteRefused,
       RejectRefused, Discard, SettleRetry, SettleRefused, Commit, mediaVars
  <2> QED
    BY <2>1, <2>4, <2>5, <2>6, <2>7 DEF RecoverExhausted, SettleExhausted, Reject,
       Leased
<1> QED
  BY <1>1, TypeInvariant, PTL DEF Spec, GivenUpOnlyWhenExhausted

-----------------------------------------------------------------------------
(* No lost wake-up *)

\* Some worker is about to commit the front message of the queue.
Committing == \E w \in Workers : worker[w].step = "commit" /\ worker[w].fresh

\* The message that is about to be committed does not count as the job's next
\* notification.
Notified ==
    /\ row = "none" => dispatched
    /\ Active => \/ row = "pending"
                 \/ lost
                 \/ backlog >= 2
                 \/ (backlog = 1 /\ ~Committing)

\* A step that adds nothing to commit, takes nothing from the queue and does
\* not start the job again keeps it notified.
LEMMA NotifiedFrame ==
  ASSUME TypeInv, Notified, Active' => Active, Committing' => Committing,
         UNCHANGED <<row, dispatched, lost, backlog>>
  PROVE  Notified'
BY DEF Notified, TypeInv, TypeOK

\* The next notification of a job that has no outcome is never the last thing
\* to be marked published, retried or committed away.
LEMMA NotifiedStep ==
  ASSUME TypeInv, OutcomeConsistent, Notified, [Next]_vars
  PROVE  Notified'
<1>0. /\ worker \in [Workers -> WorkerStates]
      /\ backlog \in Nat
      /\ Committing => backlog >= 1
      /\ ~Committing \/ Committing
  <2>1. backlog \in Nat
    BY JobAssumption DEF TypeInv, TypeOK
  <2>2. Committing => backlog >= 1
    BY <2>1 DEF TypeInv, FreshQueued, Committing
  <2> QED
    BY <2>1, <2>2 DEF TypeInv
<1>1. CASE UNCHANGED vars
  <2>1. UNCHANGED <<row, dispatched, lost, backlog, status, worker>>
    BY <1>1 DEF vars, jobVars, queueVars
  <2> QED
    BY <2>1, NotifiedFrame DEF Active, Committing
<1>2. CASE RelayPublish
  <2>1. /\ row' = "acked" /\ backlog' = backlog + 1
        /\ UNCHANGED <<dispatched, lost, status, worker>>
    BY <1>2 DEF RelayPublish, jobVars
  <2>2. Committing' = Committing /\ Active' = Active
    BY <2>1 DEF Committing, Active
  <2>3. CASE Committing
    BY <1>0, <2>1, <2>2, <2>3 DEF Notified
  <2>4. CASE ~Committing
    <3>1. backlog' = 1 \/ backlog' >= 2
      BY <1>0, <2>1
    <3> QED
      BY <2>1, <2>2, <2>4, <3>1 DEF Notified
  <2> QED
    BY <2>3, <2>4
<1>3. CASE RelayMark
  <2>1. /\ row = "acked" /\ row' = "none" /\ dispatched'
        /\ UNCHANGED <<backlog, lost, status, worker>>
    BY <1>3 DEF RelayMark, jobVars
  <2>2. Committing' = Committing /\ Active' = Active
    BY <2>1 DEF Committing, Active
  <2> QED
    BY <2>1, <2>2 DEF Notified
<1>4. CASE Reconcile
  BY <1>4 DEF Reconcile, Notified
<1>5. CASE LoseMessages
  BY <1>5 DEF LoseMessages, Notified
<1>6. CASE BecomeDue \/ LeaseExpires \/ DeleteOrRestoreAsset
  <2>1. UNCHANGED <<row, dispatched, lost, backlog, status, worker>>
    BY <1>6 DEF BecomeDue, LeaseExpires, DeleteOrRestoreAsset, jobVars, queueVars
  <2> QED
    BY <2>1, NotifiedFrame DEF Active, Committing
<1>7. CASE Isolate
  <2>1. ~Active' /\ UNCHANGED <<row, dispatched>>
    BY <1>7 DEF Isolate, Active, queueVars
  <2> QED
    BY <2>1 DEF Notified
<1>8. CASE Replay
  BY <1>8 DEF Replay, Notified
<1>9. ASSUME NEW w \in Workers, Receive(w) PROVE Notified'
  <2>1. CASE Claim(w)
    <3>1. Active /\ UNCHANGED <<row, dispatched, lost, backlog>>
      BY <2>1 DEF Claim, Claimable, Active, queueVars
    <3>2. \A v \in Workers : worker'[v].step = "commit" /\ worker'[v].fresh
                           => worker[v].step = "commit" /\ worker[v].fresh
      BY <1>0, <2>1 DEF Claim, Idle
    <3> QED
      BY <3>1, <3>2, NotifiedFrame DEF Committing
  <2>2. CASE RecoverExhausted(w)
    <3>1. ~Active' /\ UNCHANGED <<row, dispatched>>
      BY <2>2 DEF RecoverExhausted, Fail, Active
    <3> QED
      BY <3>1 DEF Notified
  <2>3. CASE AcknowledgeSettled(w)
    <3>1. ~Active' /\ UNCHANGED <<row, dispatched>>
      BY <2>3 DEF AcknowledgeSettled, Settled, OutcomeConsistent, Active, jobVars
    <3> QED
      BY <3>1 DEF Notified
  <2> QED
    BY <1>9, <2>1, <2>2, <2>3 DEF Receive
<1>10. ASSUME UNCHANGED <<row, dispatched, lost, backlog, status>>,
              \A v \in Workers : worker'[v].step = "commit" /\ worker'[v].fresh
                             => worker[v].step = "commit" /\ worker[v].fresh
       PROVE  Notified'
  BY <1>10, NotifiedFrame DEF Committing, Active
<1>11. ASSUME NEW w \in Workers, Renew(w) \/ Renewed(w) \/ Abandon(w)
       PROVE  Notified'
  <2>1. UNCHANGED <<row, dispatched, lost, backlog, status>>
    BY <1>11 DEF Renew, Renewed, Abandon, jobVars, queueVars
  <2>2. \A v \in Workers : worker'[v].step = "commit" /\ worker'[v].fresh
                         => worker[v].step = "commit" /\ worker[v].fresh
    BY <1>0, <1>11 DEF Renew, Renewed, Abandon, Idle, WorkerStates
  <2> QED
    BY <1>10, <2>1, <2>2
<1>12. ASSUME NEW w \in Workers, Execute(w) PROVE Notified'
  <2>1. ASSUME NEW outcome \in {"upload", "reject", "settle"}, Render(w, outcome)
        PROVE  Notified'
    <3>1. \A v \in Workers : worker'[v].step = "commit" /\ worker'[v].fresh
                           => worker[v].step = "commit" /\ worker[v].fresh
      BY <1>0, <2>1 DEF Render, WorkerStates
    <3> QED
      BY <1>10, <2>1, <3>1 DEF Render, jobVars, queueVars
  <2>2. ASSUME NEW k \in Kinds, PutArtifact(w, k) PROVE Notified'
    <3>1. \A v \in Workers : worker'[v].step = "commit" /\ worker'[v].fresh
                           => worker[v].step = "commit" /\ worker[v].fresh
      BY <1>0, <2>2 DEF PutArtifact, WorkerStates
    <3> QED
      BY <1>10, <2>2, <3>1 DEF PutArtifact, jobVars, queueVars
  <2>3. CASE \/ UploadFails(w) \/ PromoteRefused(w) \/ RejectRefused(w)
             \/ Discard(w) \/ SettleRefused(w)
    <3>1. \A v \in Workers : worker'[v].step = "commit" /\ worker'[v].fresh
                           => worker[v].step = "commit" /\ worker[v].fresh
      BY <1>0, <2>3 DEF UploadFails, PromoteRefused, RejectRefused, Discard,
         SettleRefused, Idle, WorkerStates
    <3>2. UNCHANGED <<row, dispatched, lost, backlog, status>>
      BY <2>3 DEF UploadFails, PromoteRefused, RejectRefused, Discard,
         SettleRefused, jobVars, queueVars
    <3> QED
      BY <1>10, <3>1, <3>2
  <2>4. ASSUME NEW acknowledged \in BOOLEAN,
               Promote(w, acknowledged) \/ Reject(w, acknowledged)
        PROVE  Notified'
    <3>1. ~Active' /\ UNCHANGED <<row, dispatched>>
      BY <2>4 DEF Promote, Reject, Fail, Active, queueVars
    <3> QED
      BY <3>1 DEF Notified
  <2>5. CASE SettleExhausted(w)
    <3>1. ~Active' /\ UNCHANGED <<row, dispatched>>
      BY <2>5 DEF SettleExhausted, Fail, Active, queueVars
    <3> QED
      BY <3>1 DEF Notified
  <2>6. CASE SettleRetry(w)
    BY <2>6 DEF SettleRetry, Notified
  <2>7. CASE Commit(w)
    <3>1. UNCHANGED <<row, dispatched, lost, status>> /\ worker[w].step = "commit"
          /\ CommitOffset(w, worker[w].fresh)
      BY <2>7 DEF Commit, jobVars
    <3>2. CASE worker[w].fresh
      <4>1. Committing /\ backlog' = backlog - 1
        BY <3>1, <3>2 DEF Committing, CommitOffset
      <4>2. ~Committing'
        BY <1>0, <3>1, <3>2 DEF Committing, CommitOffset, Idle, WorkerStates
      <4>3. backlog >= 2 => backlog' = 1 \/ backlog' >= 2
        BY <1>0, <4>1
      <4> QED
        BY <3>1, <4>1, <4>2, <4>3 DEF Notified, Active
    <3>3. CASE ~worker[w].fresh
      <4>1. backlog' = backlog
        BY <3>1, <3>3 DEF CommitOffset
      <4>2. \A v \in Workers : worker'[v].step = "commit" /\ worker'[v].fresh
                             => worker[v].step = "commit" /\ worker[v].fresh
        BY <1>0, <3>1, <3>3 DEF CommitOffset, Idle
      <4> QED
        BY <1>10, <3>1, <4>1, <4>2
    <3> QED
      BY <3>2, <3>3
  <2> QED
    BY <1>12, <2>1, <2>2, <2>3, <2>4, <2>5, <2>6, <2>7 DEF Execute
<1> QED
  BY <1>1, <1>2, <1>3, <1>4, <1>5, <1>6, <1>7, <1>8, <1>9, <1>11, <1>12
     DEF Next, Relay

\* A job that still has to run always has a row or a message that will have it
\* run, or the reconciler will find it.
THEOREM WakeupsLast == Spec => []NoLostWakeup
<1>1. Init => Notified
  BY DEF Init, Notified
<1>2. TypeInv /\ OutcomeConsistent /\ Notified /\ [Next]_vars => Notified'
  BY NotifiedStep
<1>3. TypeInv /\ Notified => NoLostWakeup
  <2> SUFFICES ASSUME TypeInv, Notified, Active
               PROVE  row # "none" \/ backlog > 0 \/ (lost /\ dispatched)
    BY DEF NoLostWakeup, Active
  <2>1. CASE row = "pending"
    BY <2>1
  <2>2. CASE lost
    BY <2>2 DEF Notified
  <2>3. CASE backlog >= 2 \/ backlog = 1
    BY <2>3, JobAssumption DEF TypeInv, TypeOK
  <2> QED
    BY <2>1, <2>2, <2>3 DEF Notified
<1> QED
  BY <1>1, <1>2, <1>3, TypeInvariant, OutcomesAgree, PTL DEF Spec
=============================================================================
