------------------------ MODULE MediaObjectTheorems ------------------------
(***************************************************************************)
(* What MediaUpload promises of the rows and the stored objects, for every *)
(* number of assets, uploads, clients and sweepers and every configured    *)
(* duration: the pending pointer and the single upload in flight, the      *)
(* finality of a closed session, the accepted original, and the storage of *)
(* a purged upload.                                                        *)
(***************************************************************************)
EXTENDS MediaUploadTheorems

\* The usage counters stay within the quota whatever requests, sweepers and
\* purges do between each other's transactions (reserveQuota).
THEOREM QuotaKept == Spec => []QuotaRespected
BY LedgerCorrect, PTL

\* What the ledger's invariant says of the rows, before and after a step.
Rows == TypeOK /\ TypeOK' /\ RowsConsistent /\ RowsConsistent'

-----------------------------------------------------------------------------
(* The pending pointer *)

\* PendingPointerExact is not inductive: a commit sets the pointer of an asset
\* that might have a version pending, or another session open.  The invariant
\* adds that an asset has one open session at most, and none while its pointer
\* is set, and that a row has an owner.
PointerInv ==
    /\ \A u \in Uploads : state[u] = "none" <=> owner[u] = None
    /\ PendingPointerExact
    /\ \A u, v \in OpenSessions : owner[u] = owner[v] => u = v
    /\ \A u \in OpenSessions : pending[owner[u]] = None

\* Steps that leave the rows and the pointers alone.
LEMMA FrameKeepsPointer ==
  ASSUME PointerInv, UNCHANGED <<pending, state, owner, version>>
  PROVE  PointerInv'
BY DEF PointerInv, PendingPointerExact, OpenSessions

\* Admission opens a session on an asset that has no other and nothing pending
\* (CreateUploadSession: the lapsed sessions are expired in the same
\* transaction).
LEMMA CreateKeepsPointer ==
  ASSUME Rows, PointerInv,
         NEW a \in Assets, NEW u \in Uploads, NEW b \in 1..MaxUploadBytes,
         Create(a, u, b)
  PROVE  PointerInv'
<1> DEFINE lapsed == {v \in Uploads : owner[v] = a /\ Lapsed(v)}
<1> USE DEF Rows
<1>1. /\ state[u] = "none" /\ owner[u] = None /\ version[u] = "none"
      /\ pending[a] = None
      /\ u \notin lapsed
      /\ \A v \in lapsed : state[v] = "created"
      /\ \A v \in OpenSessions \ lapsed : owner[v] # a
  BY DEF Create, NothingPending, PointerInv, RowsConsistent, Lapsed
<1>2. /\ state' = [v \in Uploads |-> CASE v = u        -> "created"
                                       [] v \in lapsed -> "expired"
                                       [] OTHER        -> state[v]]
      /\ owner' = [owner EXCEPT ![u] = a]
      /\ UNCHANGED <<pending, version>>
  BY DEF Create
<1> HIDE DEF lapsed
<1>3. /\ state'[u] = "created" /\ owner'[u] = a
      /\ \A v \in Uploads \ {u} :
            /\ owner'[v] = owner[v]
            /\ v \in lapsed => state'[v] = "expired"
            /\ v \notin lapsed => state'[v] = state[v]
  BY <1>1, <1>2 DEF TypeOK
<1>4. \A v \in OpenSessions' : v = u \/ (v \in OpenSessions /\ owner[v] # a)
  BY <1>1, <1>3 DEF OpenSessions
<1>5. \A v \in Uploads : state'[v] = "none" <=> owner'[v] = None
  BY <1>1, <1>3, IdentityAssumption DEF PointerInv
<1>6. PendingPointerExact'
  <2> SUFFICES ASSUME NEW x \in Assets, NEW v \in Uploads
               PROVE  pending[x] = v <=> owner'[v] = x /\ version[v] = "pending"
    BY <1>2 DEF PendingPointerExact
  <2>1. CASE v = u
    BY <1>1, <2>1, IdentityAssumption DEF PointerInv, PendingPointerExact
  <2>2. CASE v # u
    BY <1>3, <2>2 DEF PointerInv, PendingPointerExact
  <2> QED
    BY <2>1, <2>2
<1>7. \A v, x \in OpenSessions' : owner'[v] = owner'[x] => v = x
  BY <1>3, <1>4 DEF PointerInv, OpenSessions
<1>8. \A v \in OpenSessions' : pending'[owner'[v]] = None
  BY <1>1, <1>2, <1>3, <1>4 DEF PointerInv, OpenSessions
<1> QED
  BY <1>5, <1>6, <1>7, <1>8 DEF PointerInv

\* A commit points the asset at its new version, and closes the only session
\* the asset had (CommitUpload).
LEMMA CommitKeepsPointer ==
  ASSUME Rows, PointerInv, NEW c \in Clients, FinishCommit(c)
  PROVE  PointerInv'
<1> DEFINE u == request[c].upload
           a == owner[u]
<1> USE DEF Rows
<1>1. u \in Uploads /\ state[u] = "created" /\ version[u] = "none"
  BY DEF FinishCommit, Usable, TypeOK, RowsConsistent
<1>2. /\ pending[a] = None
      /\ state' = [state EXCEPT ![u] = "committed"]
      /\ version' = [version EXCEPT ![u] = "pending"]
      /\ pending' = [pending EXCEPT ![a] = u]
      /\ owner' = owner
  BY DEF FinishCommit, NothingPending, sessionVars
<1> HIDE DEF u
<1>3. a \in Assets
  BY <1>1 DEF PointerInv, TypeOK
<1>4. OpenSessions' = OpenSessions \ {u} /\ u \in OpenSessions
  BY <1>1, <1>2 DEF OpenSessions, TypeOK
<1>5. \A v \in OpenSessions' : owner[v] # a
  BY <1>4 DEF PointerInv
<1> HIDE DEF a
<1>6. /\ version'[u] = "pending" /\ pending'[a] = u
      /\ \A v \in Uploads \ {u} : version'[v] = version[v] /\ state'[v] = state[v]
      /\ \A x \in Assets \ {a} : pending'[x] = pending[x]
      /\ state'[u] = "committed"
  BY <1>1, <1>2, <1>3 DEF TypeOK
<1>7. \A v \in Uploads : state'[v] = "none" <=> owner'[v] = None
  BY <1>1, <1>2, <1>6 DEF PointerInv
<1>8. PendingPointerExact'
  <2> SUFFICES ASSUME NEW x \in Assets, NEW v \in Uploads
               PROVE  pending'[x] = v <=> owner[v] = x /\ version'[v] = "pending"
    BY <1>2 DEF PendingPointerExact
  <2>1. a = owner[u]
    BY DEF a
  <2>2. CASE x = a
    <3>1. \A y \in Uploads : owner[y] = a => version[y] # "pending"
      BY <1>2, <1>3, IdentityAssumption DEF PointerInv, PendingPointerExact
    <3> QED
      BY <1>6, <2>1, <2>2, <3>1
  <2>3. CASE x # a
    <3>1. CASE v = u
      BY <1>1, <1>6, <2>1, <2>3, <3>1 DEF PointerInv, PendingPointerExact
    <3>2. CASE v # u
      BY <1>6, <2>3, <3>2 DEF PointerInv, PendingPointerExact
    <3> QED
      BY <3>1, <3>2
  <2> QED
    BY <2>2, <2>3
<1>9. \A v \in OpenSessions' : pending'[owner'[v]] = None
  <2> SUFFICES ASSUME NEW v \in OpenSessions' PROVE pending'[owner[v]] = None
    BY <1>2
  <2>1. v \in OpenSessions /\ v \in Uploads /\ owner[v] # a
    BY <1>4, <1>5 DEF OpenSessions
  <2>2. owner[v] \in Assets
    BY <2>1 DEF PointerInv, OpenSessions, TypeOK
  <2> QED
    BY <1>6, <2>1, <2>2 DEF PointerInv
<1>10. \A v, x \in OpenSessions' : owner'[v] = owner'[x] => v = x
  BY <1>2, <1>4 DEF PointerInv
<1> QED
  BY <1>7, <1>8, <1>9, <1>10 DEF PointerInv

\* A closed session had no version, so the pointer did not name it
\* (transitionOpenUploadSession, expireUploadSession).
LEMMA CloseKeepsPointer ==
  ASSUME Rows, PointerInv, NEW u \in Uploads,
         NEW target \in {"cancelled", "expired"}, Close(u, target)
  PROVE  PointerInv'
<1>1. /\ state[u] = "created"
      /\ state' = [state EXCEPT ![u] = target]
      /\ UNCHANGED <<owner, pending, version>>
  BY DEF Close, Closable, sessionVars
<1>2. OpenSessions' = OpenSessions \ {u}
  BY <1>1 DEF OpenSessions, Rows, TypeOK
<1>3. \A v \in Uploads : state'[v] = "none" <=> state[v] = "none"
  BY <1>1 DEF Rows, TypeOK
<1> QED
  BY <1>1, <1>2, <1>3 DEF PointerInv, PendingPointerExact

\* The outcome of a version clears the pointer that names it, and no other
\* (CompleteAndPromote, failMediaVersion).
LEMMA OutcomeKeepsPointer ==
  ASSUME Rows, PointerInv, NEW u \in Uploads, CompleteVersion(u) \/ FailVersion(u)
  PROVE  PointerInv'
<1> USE DEF Rows
<1>1. /\ version[u] = "pending"
      /\ version' = [version EXCEPT ![u] = "completed"] \/
         version' = [version EXCEPT ![u] = "failed"]
      /\ UNCHANGED <<state, owner>>
  BY DEF CompleteVersion, FailVersion, sessionVars
<1>2. owner[u] \in Assets
  BY <1>1 DEF RowsConsistent, PointerInv, TypeOK
<1>3. pending[owner[u]] = u
  BY <1>1, <1>2 DEF PointerInv, PendingPointerExact
<1>4. pending' = [pending EXCEPT ![owner[u]] = None]
  BY <1>3 DEF CompleteVersion, FailVersion, PointerCleared
<1>5. /\ version'[u] # "pending" /\ pending'[owner[u]] = None
      /\ \A v \in Uploads \ {u} : version'[v] = version[v]
      /\ \A x \in Assets \ {owner[u]} : pending'[x] = pending[x]
  BY <1>1, <1>2, <1>4 DEF TypeOK
<1>6. PendingPointerExact'
  <2> SUFFICES ASSUME NEW x \in Assets, NEW v \in Uploads
               PROVE  pending'[x] = v <=> owner[v] = x /\ version'[v] = "pending"
    BY <1>1 DEF PendingPointerExact
  <2>1. CASE v = u
    <3>1. x # owner[u] => pending[x] # u
      BY DEF PointerInv, PendingPointerExact
    <3> QED
      BY <1>5, <2>1, <3>1, IdentityAssumption
  <2>2. CASE v # u
    <3>1. x = owner[u] => ~(owner[v] = x /\ version[v] = "pending")
      BY <1>3, <2>2 DEF PointerInv, PendingPointerExact
    <3> QED
      BY <1>5, <2>2, <3>1, IdentityAssumption DEF PointerInv, PendingPointerExact
  <2> QED
    BY <2>1, <2>2
<1>7. OpenSessions' = OpenSessions
  BY <1>1 DEF OpenSessions
<1>8. \A v \in OpenSessions' : pending'[owner'[v]] = None
  BY <1>1, <1>2, <1>4, <1>7 DEF PointerInv, TypeOK
<1> QED
  BY <1>1, <1>6, <1>7, <1>8 DEF PointerInv

\* Removing the media rows of an asset clears its pointer and leaves nothing
\* the pointer could have named (FinalizeLifecyclePurgeAsset).
LEMMA PurgeKeepsPointer ==
  ASSUME Rows, PointerInv, NEW a \in Assets, PurgeFinalize(a)
  PROVE  PointerInv'
<1> DEFINE mine == UploadsOf(a)
<1> USE DEF Rows
<1>1. /\ state' = [u \in Uploads |-> IF u \in mine THEN "gone" ELSE state[u]]
      /\ version' = [u \in Uploads |-> IF u \in mine THEN "none" ELSE version[u]]
      /\ pending' = [pending EXCEPT ![a] = None]
      /\ owner' = owner
  BY DEF PurgeFinalize, sessionVars
<1>2. \A u \in Uploads : u \in mine <=> owner[u] = a /\ state[u] \notin {"none", "gone"}
  BY DEF UploadsOf, RowExists
<1> HIDE DEF mine
<1>3. \A u \in Uploads : owner[u] = a => version'[u] # "pending"
  BY <1>1, <1>2 DEF RowsConsistent
<1>4. \A u \in Uploads : owner[u] # a => version'[u] = version[u] /\ state'[u] = state[u]
  BY <1>1, <1>2
<1>5. PendingPointerExact'
  <2> SUFFICES ASSUME NEW x \in Assets, NEW u \in Uploads
               PROVE  pending'[x] = u <=> owner[u] = x /\ version'[u] = "pending"
    BY <1>1 DEF PendingPointerExact
  <2>1. CASE x = a
    BY <1>1, <1>3, <2>1, IdentityAssumption DEF TypeOK
  <2>2. CASE x # a
    <3>1. pending'[x] = pending[x]
      BY <1>1, <2>2 DEF TypeOK
    <3>2. CASE owner[u] = a
      BY <2>2, <3>1, <3>2 DEF PointerInv, PendingPointerExact
    <3>3. CASE owner[u] # a
      BY <1>4, <3>1, <3>3 DEF PointerInv, PendingPointerExact
    <3> QED
      BY <3>2, <3>3
  <2> QED
    BY <2>1, <2>2
<1>6. \A u \in OpenSessions' : u \in OpenSessions /\ owner[u] # a
  BY <1>1, <1>2 DEF OpenSessions
<1>7. \A u \in OpenSessions' : pending'[owner'[u]] = None
  <2> SUFFICES ASSUME NEW u \in OpenSessions' PROVE pending'[owner[u]] = None
    BY <1>1
  <2>1. u \in OpenSessions /\ owner[u] # a /\ owner[u] \in Assets
    BY <1>6 DEF PointerInv, OpenSessions, TypeOK
  <2> QED
    BY <1>1, <2>1 DEF PointerInv, TypeOK
<1>8. \A u \in Uploads : state'[u] = "none" <=> owner'[u] = None
  BY <1>1, <1>2 DEF PointerInv
<1> QED
  BY <1>1, <1>5, <1>6, <1>7, <1>8 DEF PointerInv

\* Every step of every request, worker, sweeper and purge keeps the pointers.
LEMMA PointerInductive ==
  ASSUME Rows, PointerInv, [Next]_vars
  PROVE  PointerInv'
<1>1. ASSUME NEW a \in Assets, NEW u \in Uploads, NEW b \in 1..MaxUploadBytes,
             Create(a, u, b)
      PROVE  PointerInv'
  BY <1>1, CreateKeepsPointer
<1>2. ASSUME NEW c \in Clients, FinishCommit(c)
      PROVE  PointerInv'
  BY <1>2, CommitKeepsPointer
<1>3. ASSUME NEW u \in Uploads, NEW target \in {"cancelled", "expired"},
             Close(u, target)
      PROVE  PointerInv'
  BY <1>3, CloseKeepsPointer
<1>4. ASSUME NEW u \in Uploads, CompleteVersion(u) \/ FailVersion(u)
      PROVE  PointerInv'
  BY <1>4, OutcomeKeepsPointer
<1>5. ASSUME NEW a \in Assets, PurgeFinalize(a)
      PROVE  PointerInv'
  BY <1>5, PurgeKeepsPointer
<1>6. ASSUME NEW u \in Uploads,
             \/ \E content \in {"exact", "other"} : Put(u, content)
             \/ \E c \in Clients, op \in {"refresh", "commit"} : BeginRequest(c, op, u)
             \/ WriteDerivative(u) \/ DiscardDerivative(u)
      PROVE  PointerInv'
  BY <1>6, FrameKeepsPointer
     DEF Put, BeginRequest, WriteDerivative, DiscardDerivative, sessionVars
<1>7. ASSUME NEW c \in Clients, FinishRefresh(c) \/ EndRequest(c)
      PROVE  PointerInv'
  BY <1>7, FrameKeepsPointer DEF FinishRefresh, EndRequest, sessionVars
<1>8. ASSUME NEW w \in Sweepers,
             \/ \E u \in Uploads : SweepClaim(w, u)
             \/ SweepDeleteDerived(w) \/ SweepDeleteRaw(w)
             \/ SweepMark(w) \/ SweepAbort(w)
      PROVE  PointerInv'
  BY <1>8, FrameKeepsPointer
     DEF SweepClaim, SweepDeleteDerived, SweepDeleteRaw, SweepMark, SweepAbort,
         sessionVars
<1>9. ASSUME NEW a \in Assets,
             \/ SoftDelete(a) \/ Restore(a) \/ StartPurge(a) \/ PurgeList(a)
             \/ \E o \in Objects : PurgeDelete(a, o)
             \/ PurgeMark(a) \/ PurgeDone(a) \/ PurgeAbort(a)
      PROVE  PointerInv'
  BY <1>9, FrameKeepsPointer
     DEF SoftDelete, Restore, StartPurge, PurgeList, PurgeDelete, PurgeMark,
         PurgeDone, PurgeAbort, sessionVars
<1>10. CASE Tick
  BY <1>10, FrameKeepsPointer DEF Tick, sessionVars
<1>11. CASE UNCHANGED vars
  BY <1>11, FrameKeepsPointer DEF vars, sessionVars
<1> QED
  BY <1>1, <1>2, <1>3, <1>4, <1>5, <1>6, <1>7, <1>8, <1>9, <1>10, <1>11
     DEF Next, ClientNext, WorkerNext, SweepNext, LifecycleNext

\* The invariant of the rows and the pointers together.
LEMMA PointerInvariant == Spec => []PointerInv
<1>1. Init => PointerInv
  BY IdentityAssumption DEF Init, PointerInv, PendingPointerExact, OpenSessions
<1>2. LedgerInv /\ LedgerInv' /\ PointerInv /\ [Next]_vars => PointerInv'
  BY PointerInductive DEF LedgerInv, Rows
<1> QED
  BY <1>1, <1>2, LedgerInvariant, PTL DEF Spec

\* The pending pointer of an asset is set exactly while one of its versions is
\* pending and names that one, however commits, outcomes and purges interleave
\* (CommitUpload, CompleteAndPromote, failMediaVersion,
\* FinalizeLifecyclePurgeAsset).
THEOREM PointerIsExact == Spec => []PendingPointerExact
<1>1. PointerInv => PendingPointerExact
  BY DEF PointerInv
<1> QED
  BY <1>1, PointerInvariant, PTL

\* An asset never has two uploads in flight, be they open sessions or versions
\* being processed (the partial unique index and the pointer check of
\* CreateUploadSession and CommitUpload).
THEOREM OneInFlight == Spec => []OneUploadInFlight
<1>1. LedgerInv /\ PointerInv => OneUploadInFlight
  <2> SUFFICES ASSUME LedgerInv, PointerInv, NEW u \in Uploads, NEW v \in Uploads,
                      state[u] = "created" \/ version[u] = "pending",
                      state[v] = "created" \/ version[v] = "pending",
                      owner[u] = owner[v]
               PROVE  u = v
    BY DEF OneUploadInFlight
  <2>1. owner[u] \in Assets /\ owner[v] \in Assets
    BY DEF LedgerInv, RowsConsistent, PointerInv, TypeOK
  <2>2. CASE state[u] = "created" /\ state[v] = "created"
    BY <2>2 DEF PointerInv, OpenSessions
  <2>3. CASE version[u] = "pending" /\ version[v] = "pending"
    BY <2>1, <2>3 DEF PointerInv, PendingPointerExact
  <2>4. CASE state[u] = "created" /\ version[v] = "pending"
    BY <2>1, <2>4, IdentityAssumption
       DEF PointerInv, PendingPointerExact, OpenSessions
  <2>5. CASE version[u] = "pending" /\ state[v] = "created"
    BY <2>1, <2>5, IdentityAssumption
       DEF PointerInv, PendingPointerExact, OpenSessions
  <2> QED
    BY <2>2, <2>3, <2>4, <2>5
<1> QED
  BY <1>1, LedgerInvariant, PointerInvariant, PTL

-----------------------------------------------------------------------------
(* Finality of sessions and versions *)

\* One step never reopens a closed session nor settles a version again: a
\* closed session has no version, a commit needs an open one, an outcome a
\* pending version.
LEMMA StepKeepsClosed ==
  ASSUME Rows, [Next]_vars, NEW u \in Uploads
  PROVE  /\ state[u] \in {"cancelled", "expired"}
            => state'[u] \in {state[u], "gone"} /\ version'[u] = "none"
         /\ version[u] \in {"completed", "failed"}
            => version'[u] \in {version[u], "none"}
<1> USE DEF Rows
<1> DEFINE Final == /\ state[u] \in {"cancelled", "expired"}
                       => state'[u] \in {state[u], "gone"}
                    /\ version[u] \in {"completed", "failed"}
                       => version'[u] \in {version[u], "none"}
<1>1. ASSUME NEW a \in Assets, NEW v \in Uploads, NEW b \in 1..MaxUploadBytes,
             Create(a, v, b)
      PROVE  Final
  <2>1. state[v] = "none" /\ version' = version
    BY <1>1 DEF Create
  <2>2. state[u] \in {"cancelled", "expired"} => state'[u] = state[u]
    BY <1>1, <2>1 DEF Create, Lapsed
  <2> QED
    BY <2>1, <2>2
<1>2. ASSUME NEW c \in Clients, FinishCommit(c)
      PROVE  Final
  <2> DEFINE v == request[c].upload
  <2>1. /\ v \in Uploads /\ state[v] = "created" /\ version[v] = "none"
        /\ state' = [state EXCEPT ![v] = "committed"]
        /\ version' = [version EXCEPT ![v] = "pending"]
    BY <1>2 DEF FinishCommit, Usable, TypeOK, RowsConsistent
  <2> HIDE DEF v
  <2> QED
    BY <2>1 DEF TypeOK
<1>3. ASSUME NEW v \in Uploads, NEW target \in {"cancelled", "expired"},
             Close(v, target)
      PROVE  Final
  BY <1>3 DEF Close, Closable, TypeOK
<1>4. ASSUME NEW v \in Uploads, CompleteVersion(v) \/ FailVersion(v)
      PROVE  Final
  BY <1>4 DEF CompleteVersion, FailVersion, TypeOK
<1>5. ASSUME NEW a \in Assets, PurgeFinalize(a)
      PROVE  Final
  BY <1>5 DEF PurgeFinalize
<1>6. ASSUME UNCHANGED <<state, version>>
      PROVE  Final
  BY <1>6
<1>7. Final
  <2> HIDE DEF Final
  <2>1. CASE Tick \/ UNCHANGED vars
    BY <1>6, <2>1 DEF Tick, vars
  <2>2. CASE ClientNext
    BY <1>1, <1>2, <1>3, <1>6, <2>2
       DEF ClientNext, Put, BeginRequest, FinishRefresh, EndRequest
  <2>3. CASE WorkerNext
    BY <1>4, <1>6, <2>3 DEF WorkerNext, WriteDerivative, DiscardDerivative
  <2>4. CASE SweepNext
    BY <1>3, <1>6, <2>4
       DEF SweepNext, SweepClaim, SweepDeleteDerived, SweepDeleteRaw, SweepMark,
           SweepAbort
  <2>5. CASE LifecycleNext
    BY <1>5, <1>6, <2>5
       DEF LifecycleNext, SoftDelete, Restore, StartPurge, PurgeList,
           PurgeDelete, PurgeMark, PurgeDone, PurgeAbort
  <2> QED
    BY <2>1, <2>2, <2>3, <2>4, <2>5 DEF Next
<1>8. state'[u] # "committed" => version'[u] = "none"
  BY DEF RowsConsistent
<1> QED
  BY <1>7, <1>8

\* A cancelled or expired session is never committed afterwards, whatever a
\* request that had read it before still does, and the outcome of a version is
\* final (transitionOpenUploadSession, CommitUpload, CompleteAndPromote).
THEOREM ClosedIsFinal == Spec => ClosedStaysClosed
<1> DEFINE Final == \A u \in Uploads :
              /\ state[u] \in {"cancelled", "expired"}
                 => state'[u] \in {state[u], "gone"} /\ version'[u] = "none"
              /\ version[u] \in {"completed", "failed"}
                 => version'[u] \in {version[u], "none"}
<1>1. LedgerInv /\ LedgerInv' /\ [Next]_vars => [Final]_vars
  BY StepKeepsClosed DEF LedgerInv, Rows
<1> HIDE DEF Final
<1>2. Spec => [][Final]_vars
  BY <1>1, LedgerInvariant, PTL DEF Spec
<1> QED
  BY <1>2 DEF Final, ClosedStaysClosed

-----------------------------------------------------------------------------
(* The accepted original *)

\* No path leads from here back to a version in use.
Shelved(u) == version[u] = "failed" \/ state[u] \in {"cancelled", "expired", "gone"}

\* AcceptedOriginalKept rests on what the processes remember: a commit in
\* flight has verified the object of a session that is still open, a sweep
\* entry names an upload nobody can use any more, and a purge deletes what the
\* manifest lists.
OriginalInv ==
    /\ AcceptedOriginalKept
    /\ \A c \in Clients : request[c] # None =>
          /\ state[request[c].upload] # "none"
          /\ /\ request[c].op = "commit"
             /\ state[request[c].upload] = "created"
             /\ <<request[c].upload, "raw">> \notin manifest
             => raw[request[c].upload] = "exact"
    /\ \A w \in Sweepers : sweep[w] # None => Shelved(sweep[w].upload)
    /\ \A a \in Assets : purger[a] # None => purger[a].todo \subseteq manifest

\* What every step but a commit leaves true of an upload's rows.
Onward(u) ==
    /\ version'[u] \in {"pending", "completed"}
       => version[u] \in {"pending", "completed"}
    /\ Shelved(u)
       => version'[u] = "failed" \/ state'[u] \in {"cancelled", "expired", "gone"}
    /\ state'[u] = "created" => state[u] \in {"none", "created"}
    /\ state[u] # "none" => state'[u] # "none"

\* Only a commit brings an upload into use.
LEMMA RowsGoOnward ==
  ASSUME Rows, NEW u \in Uploads, [Next]_vars,
         ~ \E c \in Clients : FinishCommit(c)
  PROVE  Onward(u)
<1> USE DEF Rows
<1>1. ASSUME NEW a \in Assets, NEW v \in Uploads, NEW b \in 1..MaxUploadBytes,
             Create(a, v, b)
      PROVE  Onward(u)
  <2>1. /\ state[v] = "none" /\ version' = version /\ version[v] = "none"
        /\ v # u => state'[u] \in {state[u], "expired"}
        /\ v = u => state'[u] = "created"
        /\ state'[u] = "expired" => state[u] \in {"created", "expired"}
    BY <1>1 DEF Create, Lapsed, RowsConsistent
  <2> QED
    BY <2>1 DEF Onward, Shelved
<1>2. ASSUME NEW v \in Uploads, NEW target \in {"cancelled", "expired"},
             Close(v, target)
      PROVE  Onward(u)
  BY <1>2 DEF Close, Closable, TypeOK, Onward, Shelved
<1>3. ASSUME NEW v \in Uploads, CompleteVersion(v) \/ FailVersion(v)
      PROVE  Onward(u)
  BY <1>3 DEF CompleteVersion, FailVersion, TypeOK, Onward, Shelved
<1>4. ASSUME NEW a \in Assets, PurgeFinalize(a)
      PROVE  Onward(u)
  <2>1. /\ state'[u] = IF u \in UploadsOf(a) THEN "gone" ELSE state[u]
        /\ version'[u] = IF u \in UploadsOf(a) THEN "none" ELSE version[u]
    BY <1>4 DEF PurgeFinalize
  <2> QED
    BY <2>1 DEF Onward, Shelved
<1>5. ASSUME UNCHANGED <<state, version>>
      PROVE  Onward(u)
  BY <1>5 DEF Onward, Shelved
<1>6. CASE Tick \/ UNCHANGED vars
  BY <1>5, <1>6 DEF Tick, vars
<1>7. CASE ClientNext
  BY <1>1, <1>2, <1>5, <1>7
     DEF ClientNext, Put, BeginRequest, FinishRefresh, EndRequest
<1>8. CASE WorkerNext
  BY <1>3, <1>5, <1>8 DEF WorkerNext, WriteDerivative, DiscardDerivative
<1>9. CASE SweepNext
  BY <1>2, <1>5, <1>9
     DEF SweepNext, SweepClaim, SweepDeleteDerived, SweepDeleteRaw, SweepMark,
         SweepAbort
<1>10. CASE LifecycleNext
  BY <1>4, <1>5, <1>10
     DEF LifecycleNext, SoftDelete, Restore, StartPurge, PurgeList,
         PurgeDelete, PurgeMark, PurgeDone, PurgeAbort
<1> QED
  BY <1>6, <1>7, <1>8, <1>9, <1>10 DEF Next

\* Steps that leave the stored originals alone, after which every process
\* remembers at most what it did.
LEMMA FrameKeepsOriginal ==
  ASSUME TypeOK, OriginalInv, UNCHANGED raw,
         \A u \in Uploads : Onward(u),
         \A c \in Clients : request'[c] \in {None, request[c]},
         \A w \in Sweepers : sweep'[w] # None =>
            sweep[w] # None /\ sweep'[w].upload = sweep[w].upload,
         manifest \subseteq manifest',
         \A a \in Assets : purger'[a] # None => purger'[a].todo \subseteq manifest'
  PROVE  OriginalInv'
<1>1. AcceptedOriginalKept'
  BY DEF OriginalInv, AcceptedOriginalKept, Onward
<1>2. ASSUME NEW c \in Clients, request'[c] # None
      PROVE  /\ state'[request'[c].upload] # "none"
             /\ /\ request'[c].op = "commit"
                /\ state'[request'[c].upload] = "created"
                /\ <<request'[c].upload, "raw">> \notin manifest'
                => raw[request'[c].upload] = "exact"
  <2>1. request'[c] = request[c] /\ request[c] # None
    BY <1>2
  <2>2. request[c].upload \in Uploads
    BY <2>1 DEF TypeOK
  <2> QED
    BY <2>1, <2>2 DEF OriginalInv, Onward
<1>3. ASSUME NEW w \in Sweepers, sweep'[w] # None
      PROVE  \/ version'[sweep'[w].upload] = "failed"
             \/ state'[sweep'[w].upload] \in {"cancelled", "expired", "gone"}
  <2>1. /\ sweep[w] # None /\ sweep'[w].upload = sweep[w].upload
        /\ sweep[w].upload \in Uploads
    BY <1>3 DEF TypeOK
  <2> QED
    BY <2>1 DEF OriginalInv, Onward
<1> QED
  BY <1>1, <1>2, <1>3 DEF OriginalInv, Shelved

\* A commit is let through only for an open session, whose object it had
\* verified before (CommitUpload).
LEMMA CommitKeepsOriginal ==
  ASSUME Rows, OriginalInv, NEW c \in Clients, FinishCommit(c)
  PROVE  OriginalInv'
<1> DEFINE u == request[c].upload
<1> USE DEF Rows
<1>1. u \in Uploads /\ state[u] = "created" /\ version[u] = "none"
  BY DEF FinishCommit, Usable, TypeOK, RowsConsistent
<1>2. /\ state' = [state EXCEPT ![u] = "committed"]
      /\ version' = [version EXCEPT ![u] = "pending"]
      /\ request' = [request EXCEPT ![c] = None]
      /\ UNCHANGED <<raw, sweep, manifest, purger>>
  BY DEF FinishCommit, objectVars, purgeVars
<1>3. <<u, "raw">> \notin manifest => raw[u] = "exact"
  BY <1>1 DEF FinishCommit, OriginalInv
<1> HIDE DEF u
<1>4. /\ state'[u] = "committed" /\ version'[u] = "pending"
      /\ \A v \in Uploads \ {u} : state'[v] = state[v] /\ version'[v] = version[v]
  BY <1>1, <1>2 DEF TypeOK
<1>5. AcceptedOriginalKept'
  BY <1>2, <1>3, <1>4 DEF OriginalInv, AcceptedOriginalKept
<1>6. ASSUME NEW d \in Clients, request'[d] # None
      PROVE  /\ state'[request'[d].upload] # "none"
             /\ /\ request'[d].op = "commit"
                /\ state'[request'[d].upload] = "created"
                /\ <<request'[d].upload, "raw">> \notin manifest'
                => raw'[request'[d].upload] = "exact"
  <2>1. /\ request'[d] = request[d] /\ request[d] # None
        /\ request[d].upload \in Uploads
    BY <1>2, <1>6 DEF TypeOK
  <2> QED
    BY <1>2, <1>4, <2>1 DEF OriginalInv
<1>7. ASSUME NEW w \in Sweepers, sweep[w] # None
      PROVE  \/ version'[sweep[w].upload] = "failed"
             \/ state'[sweep[w].upload] \in {"cancelled", "expired", "gone"}
  <2>1. sweep[w].upload \in Uploads /\ Shelved(sweep[w].upload)
    BY <1>7 DEF OriginalInv, TypeOK
  <2>2. sweep[w].upload # u
    BY <1>1, <2>1 DEF Shelved
  <2> QED
    BY <1>4, <2>1, <2>2 DEF Shelved
<1> QED
  BY <1>2, <1>5, <1>6, <1>7 DEF OriginalInv, Shelved

\* A commit begins by verifying the object; a refresh needs it absent.
LEMMA BeginKeepsOriginal ==
  ASSUME TypeOK, OriginalInv, NEW c \in Clients, NEW op \in {"refresh", "commit"},
         NEW u \in Uploads, BeginRequest(c, op, u)
  PROVE  OriginalInv'
<1>1. /\ state[u] = "created"
      /\ raw[u] = IF op = "refresh" THEN "absent" ELSE "exact"
      /\ request' = [request EXCEPT ![c] = [op |-> op, upload |-> u]]
      /\ UNCHANGED <<state, version, raw, sweep, manifest, purger>>
  BY DEF BeginRequest, Usable, objectVars, purgeVars
<1>2. /\ request'[c] = [op |-> op, upload |-> u]
      /\ \A d \in Clients \ {c} : request'[d] = request[d]
  BY <1>1 DEF TypeOK
<1>3. ASSUME NEW d \in Clients, request'[d] # None
      PROVE  /\ state[request'[d].upload] # "none"
             /\ /\ request'[d].op = "commit"
                /\ state[request'[d].upload] = "created"
                /\ <<request'[d].upload, "raw">> \notin manifest
                => raw[request'[d].upload] = "exact"
  <2>1. CASE d = c
    BY <1>1, <1>2, <2>1
  <2>2. CASE d # c
    BY <1>2, <1>3, <2>2 DEF OriginalInv
  <2> QED
    BY <2>1, <2>2
<1> QED
  BY <1>1, <1>3 DEF OriginalInv, AcceptedOriginalKept, Shelved

\* Only an absent object is ever written, so no verified one is replaced
\* (If-None-Match on the presigned PUT).
LEMMA PutKeepsOriginal ==
  ASSUME TypeOK, OriginalInv, NEW u \in Uploads,
         NEW content \in {"exact", "other"}, Put(u, content)
  PROVE  OriginalInv'
<1>1. /\ raw[u] = "absent"
      /\ UNCHANGED <<state, version, request, sweep, manifest, purger>>
      /\ \A v \in Uploads : raw[v] = "exact" => raw'[v] = "exact"
  BY DEF Put, CreateOnly, TypeOK, purgeVars
<1>2. \A c \in Clients : request[c] # None => request[c].upload \in Uploads
  BY DEF TypeOK
<1> QED
  BY <1>1, <1>2 DEF OriginalInv, AcceptedOriginalKept, Shelved

\* The sweep lists and deletes only what nobody can use any more
\* (ClaimPurgeableMediaObjects).
LEMMA SweepKeepsOriginal ==
  ASSUME Rows, OriginalInv, NEW w \in Sweepers,
         (\E u \in Uploads : SweepClaim(w, u)) \/ SweepDeleteRaw(w)
  PROVE  OriginalInv'
<1> USE DEF Rows
<1>1. UNCHANGED <<state, version, request, manifest, purger>>
  BY DEF SweepClaim, SweepDeleteRaw, purgeVars
<1>2. ASSUME NEW u \in Uploads, SweepClaim(w, u)
      PROVE  OriginalInv'
  <2>1. Shelved(u) /\ raw' = raw
    BY <1>2 DEF SweepClaim, Reclaimable, Abandoned, Shelved, objectVars
  <2>2. /\ sweep'[w].upload = u
        /\ \A v \in Sweepers \ {w} : sweep'[v] = sweep[v]
    <3>1. CASE version[u] = "none"
      BY <1>2, <3>1 DEF SweepClaim, TypeOK
    <3>2. CASE version[u] # "none"
      BY <1>2, <3>2 DEF SweepClaim, TypeOK
    <3> QED
      BY <3>1, <3>2
  <2>3. \A v \in Sweepers : sweep'[v] # None => Shelved(sweep'[v].upload)
    BY <2>1, <2>2 DEF OriginalInv
  <2> QED
    BY <1>1, <2>1, <2>3 DEF OriginalInv, AcceptedOriginalKept, Shelved
<1>3. ASSUME SweepDeleteRaw(w)
      PROVE  OriginalInv'
  <2> DEFINE u == sweep[w].upload
  <2>1. /\ sweep[w] # None /\ u \in Uploads /\ Shelved(u)
        /\ raw' = [raw EXCEPT ![u] = "absent"]
    BY <1>3 DEF SweepDeleteRaw, OriginalInv, TypeOK
  <2>2. version[u] \notin {"pending", "completed"} /\ state[u] # "created"
    BY <2>1 DEF Shelved, RowsConsistent
  <2>3. \A v \in Sweepers : sweep'[v] # None =>
           sweep[v] # None /\ sweep'[v].upload = sweep[v].upload
    BY <1>3 DEF SweepDeleteRaw, TypeOK
  <2> HIDE DEF u
  <2>4. \A v \in Uploads \ {u} : raw'[v] = raw[v]
    BY <2>1 DEF TypeOK
  <2>5. AcceptedOriginalKept'
    BY <1>1, <2>2, <2>4 DEF OriginalInv, AcceptedOriginalKept
  <2>6. ASSUME NEW c \in Clients, request[c] # None, request[c].op = "commit",
               state[request[c].upload] = "created",
               <<request[c].upload, "raw">> \notin manifest
        PROVE  raw'[request[c].upload] = "exact"
    BY <2>2, <2>4, <2>6 DEF OriginalInv, TypeOK
  <2> QED
    BY <1>1, <2>3, <2>5, <2>6 DEF OriginalInv, Shelved
<1> QED
  BY <1>2, <1>3

\* A purge deletes what its manifest lists, which AcceptedOriginalKept excepts.
LEMMA DeleteKeepsOriginal ==
  ASSUME TypeOK, OriginalInv, NEW a \in Assets, NEW o \in Objects,
         PurgeDelete(a, o)
  PROVE  OriginalInv'
<1>1. /\ o \in manifest
      /\ UNCHANGED <<state, version, request, sweep, manifest>>
      /\ purger' = [purger EXCEPT ![a].todo = purger[a].todo \ {o}]
      /\ raw' = IF o[2] = "raw" THEN [raw EXCEPT ![o[1]] = "absent"] ELSE raw
  BY DEF PurgeDelete, OriginalInv
<1>2. o[1] \in Uploads /\ o = <<o[1], o[2]>>
  BY DEF Objects
<1>3. \A v \in Uploads : <<v, "raw">> \notin manifest => raw'[v] = raw[v]
  BY <1>1, <1>2 DEF TypeOK
<1>4. AcceptedOriginalKept'
  BY <1>1, <1>3 DEF OriginalInv, AcceptedOriginalKept
<1>5. ASSUME NEW c \in Clients, request[c] # None, request[c].op = "commit",
             state[request[c].upload] = "created",
             <<request[c].upload, "raw">> \notin manifest
      PROVE  raw'[request[c].upload] = "exact"
  BY <1>3, <1>5 DEF OriginalInv, TypeOK
<1>6. \A x \in Assets : purger'[x] # None => purger'[x].todo \subseteq manifest
  <2>1. purger[a] # None
    BY DEF PurgeDelete
  <2>2. purger'[a].todo = purger[a].todo \ {o}
    BY <1>1, <2>1 DEF TypeOK
  <2>3. \A x \in Assets \ {a} : purger'[x] = purger[x]
    BY <1>1 DEF TypeOK
  <2> QED
    BY <2>1, <2>2, <2>3 DEF OriginalInv
<1> QED
  BY <1>1, <1>4, <1>5, <1>6 DEF OriginalInv, Shelved

\* Every step of every process keeps the accepted originals.
LEMMA OriginalInductive ==
  ASSUME Rows, OriginalInv, [Next]_vars
  PROVE  OriginalInv'
<1>1. CASE \E c \in Clients : FinishCommit(c)
  BY <1>1, CommitKeepsOriginal
<1>2. CASE ~ \E c \in Clients : FinishCommit(c)
  <2>1. \A u \in Uploads : Onward(u)
    BY <1>2, RowsGoOnward
  <2>2. ASSUME UNCHANGED raw,
               \A c \in Clients : request'[c] \in {None, request[c]},
               \A w \in Sweepers : sweep'[w] # None =>
                  sweep[w] # None /\ sweep'[w].upload = sweep[w].upload,
               manifest \subseteq manifest',
               \A a \in Assets : purger'[a] # None =>
                  purger'[a].todo \subseteq manifest'
        PROVE  OriginalInv'
    BY <2>1, <2>2, FrameKeepsOriginal DEF Rows
  <2>3. ASSUME NEW c \in Clients, NEW op \in {"refresh", "commit"},
               NEW u \in Uploads, BeginRequest(c, op, u)
        PROVE  OriginalInv'
    BY <2>3, BeginKeepsOriginal DEF Rows
  <2>4. ASSUME NEW u \in Uploads, NEW content \in {"exact", "other"}, Put(u, content)
        PROVE  OriginalInv'
    BY <2>4, PutKeepsOriginal DEF Rows
  <2>5. ASSUME NEW w \in Sweepers,
               (\E u \in Uploads : SweepClaim(w, u)) \/ SweepDeleteRaw(w)
        PROVE  OriginalInv'
    BY <2>5, SweepKeepsOriginal
  <2>6. ASSUME NEW a \in Assets, NEW o \in Objects, PurgeDelete(a, o)
        PROVE  OriginalInv'
    BY <2>6, DeleteKeepsOriginal DEF Rows
  <2>7. ASSUME UNCHANGED <<raw, request, sweep, manifest, purger>>
        PROVE  OriginalInv'
    BY <2>2, <2>7 DEF OriginalInv
  <2>8. ASSUME NEW c \in Clients, FinishRefresh(c) \/ EndRequest(c)
        PROVE  OriginalInv'
    <3>1. UNCHANGED <<raw, sweep, manifest, purger>>
      BY <2>8 DEF FinishRefresh, EndRequest, objectVars, purgeVars
    <3>2. \A d \in Clients : request'[d] \in {None, request[d]}
      BY <2>8 DEF FinishRefresh, EndRequest, Rows, TypeOK
    <3> QED
      BY <2>2, <3>1, <3>2 DEF OriginalInv
  <2>9. ASSUME NEW w \in Sweepers, SweepDeleteDerived(w) \/ SweepMark(w) \/ SweepAbort(w)
        PROVE  OriginalInv'
    <3>1. UNCHANGED <<raw, request, manifest, purger>>
      BY <2>9 DEF SweepDeleteDerived, SweepMark, SweepAbort, objectVars, purgeVars
    <3>2. \A v \in Sweepers : sweep'[v] # None =>
             sweep[v] # None /\ sweep'[v].upload = sweep[v].upload
      BY <2>9 DEF SweepDeleteDerived, SweepMark, SweepAbort, Rows, TypeOK
    <3> QED
      BY <2>2, <3>1, <3>2 DEF OriginalInv
  <2>10. ASSUME NEW a \in Assets,
                PurgeList(a) \/ PurgeMark(a) \/ PurgeFinalize(a) \/ PurgeAbort(a)
         PROVE  OriginalInv'
    <3>1. UNCHANGED <<raw, request, sweep>> /\ manifest \subseteq manifest'
      BY <2>10 DEF PurgeList, PurgeMark, PurgeFinalize, PurgeAbort, objectVars
    <3>2. purger'[a] # None => purger'[a].todo \subseteq manifest'
      <4>1. CASE PurgeList(a)
        <5> DEFINE listed == {o \in manifest' \ marked : owner[o[1]] = a}
        <5>1. purger' = [purger EXCEPT ![a] =
                 [step |-> "delete", todo |-> listed, batch |-> listed]]
          BY <4>1 DEF PurgeList
        <5>2. listed \subseteq manifest'
          OBVIOUS
        <5> HIDE DEF listed
        <5> QED
          BY <5>1, <5>2 DEF Rows, TypeOK
      <4>2. CASE PurgeMark(a) \/ PurgeFinalize(a) \/ PurgeAbort(a)
        BY <4>2 DEF PurgeMark, PurgeFinalize, PurgeAbort, Rows, TypeOK
      <4> QED
        BY <2>10, <4>1, <4>2
    <3>3. \A x \in Assets \ {a} : purger'[x] = purger[x]
      BY <2>10 DEF PurgeList, PurgeMark, PurgeFinalize, PurgeAbort, Rows, TypeOK
    <3>4. \A x \in Assets : purger'[x] # None => purger'[x].todo \subseteq manifest'
      BY <3>1, <3>2, <3>3 DEF OriginalInv
    <3> QED
      BY <2>2, <3>1, <3>4
  <2>11. CASE Tick \/ UNCHANGED vars
    BY <2>7, <2>11 DEF Tick, vars, objectVars, purgeVars
  <2>12. CASE ClientNext
    BY <1>2, <2>3, <2>4, <2>7, <2>8, <2>12
       DEF ClientNext, Create, Close, objectVars, purgeVars
  <2>13. CASE WorkerNext
    BY <2>7, <2>13
       DEF WorkerNext, CompleteVersion, FailVersion, WriteDerivative,
           DiscardDerivative, objectVars, purgeVars
  <2>14. CASE SweepNext
    BY <2>5, <2>7, <2>9, <2>14 DEF SweepNext, Close, objectVars, purgeVars
  <2>15. CASE LifecycleNext
    BY <2>6, <2>7, <2>10, <2>15
       DEF LifecycleNext, SoftDelete, Restore, StartPurge, PurgeDone,
           objectVars, purgeVars
  <2> QED
    BY <2>11, <2>12, <2>13, <2>14, <2>15 DEF Next
<1> QED
  BY <1>1, <1>2

\* The object a commit verified stays as it was for as long as its version is
\* pending or completed: no sweep entry listed before, no PUT with an old
\* credential, no expiry and no commit from a stale read touches it, until a
\* purge lists it (CommitUpload, ClaimPurgeableMediaObjects,
\* createPurgeObjectManifest).
THEOREM OriginalIsKept == Spec => []AcceptedOriginalKept
<1>1. Init => OriginalInv
  BY DEF Init, OriginalInv, AcceptedOriginalKept
<1>2. LedgerInv /\ LedgerInv' /\ OriginalInv /\ [Next]_vars => OriginalInv'
  BY OriginalInductive DEF LedgerInv, Rows
<1>3. OriginalInv => AcceptedOriginalKept
  BY DEF OriginalInv
<1> QED
  BY <1>1, <1>2, <1>3, LedgerInvariant, PTL DEF Spec

-----------------------------------------------------------------------------
(* The storage of a purged upload *)

\* Nobody can store anything for the upload any more: its credential is dead,
\* and no execution of its version still runs.
DeadEnd(u) ==
    /\ credential[u] <= clock
    /\ \/ version[u] = "none" /\ state[u] \in {"cancelled", "expired", "gone"}
       \/ version[u] = "failed" /\ closedAt[u] + HardDeadline <= clock

\* A credential dies CredentialTTL after its session was last open, so when the
\* quarantine of an upload is over neither a PUT nor a worker can add to what
\* the sweep deletes.  The invariant says so of what a sweeper has listed and
\* of what is marked, and what a sweeper has deleted so far.
PurgedInv ==
    /\ \A u \in Uploads : credential[u] <= clock + CredentialTTL
    /\ \A u \in Uploads : Abandoned(u) => credential[u] <= closedAt[u] + CredentialTTL
    /\ \A u \in derived : state[u] \in {"committed", "gone"}
    /\ \A u \in purged : DeadEnd(u) /\ raw[u] = "absent" /\ u \notin derived
    /\ \A w \in Sweepers : sweep[w] # None =>
          /\ DeadEnd(sweep[w].upload)
          /\ sweep[w].step # "derived" => sweep[w].upload \notin derived
          /\ sweep[w].step = "mark" => raw[sweep[w].upload] = "absent"

\* The quarantine is at least as long as a credential lives and as an
\* execution may run, as with the defaults (days against minutes).
QuarantineOutlasts == CredentialTTL <= Quarantine /\ HardDeadline <= Quarantine

\* Once dead, an upload stays dead, and what is gone of its objects stays gone.
\* (Nothing re-reads the session on a presigned PUT, and a worker that lost its
\* lease may go on: only time rules them out.)
LEMMA DeadEndLasts ==
  ASSUME Rows, [Next]_vars, NEW u \in Uploads, DeadEnd(u)
  PROVE  /\ DeadEnd(u)'
         /\ raw[u] = "absent" => raw'[u] = "absent"
         /\ u \notin derived => u \notin derived'
<1> USE DEF Rows
<1> DEFINE Lasts == /\ DeadEnd(u)'
                    /\ raw[u] = "absent" => raw'[u] = "absent"
                    /\ u \notin derived => u \notin derived'
<1>1. /\ state[u] \notin {"none", "created"} /\ version[u] # "pending"
      /\ ~WorkerMayBeRunning(u)
      /\ ~(clock < credential[u])
  <2>1. clock \in Nat /\ credential[u] \in Nat /\ closedAt[u] \in Nat /\ HardDeadline \in Nat
    BY ConfigAssumption DEF TypeOK
  <2>2. CASE version[u] = "none"
    BY <2>1, <2>2 DEF DeadEnd, WorkerMayBeRunning
  <2>3. CASE version[u] = "failed" /\ closedAt[u] + HardDeadline <= clock
    <3>1. ~(clock < closedAt[u] + HardDeadline)
      BY <2>1, <2>3
    <3> QED
      BY <2>1, <2>3, <3>1 DEF DeadEnd, WorkerMayBeRunning, RowsConsistent
  <2> QED
    BY <2>2, <2>3 DEF DeadEnd
<1>2. ASSUME NEW a \in Assets, NEW v \in Uploads, NEW b \in 1..MaxUploadBytes,
             Create(a, v, b)
      PROVE  Lasts
  <2>1. u # v /\ ~Lapsed(u)
    BY <1>1, <1>2 DEF Create, Lapsed
  <2>2. /\ state'[u] = state[u] /\ closedAt'[u] = closedAt[u]
        /\ credential'[u] = credential[u]
        /\ UNCHANGED <<clock, version, raw, derived>>
    BY <1>2, <2>1 DEF Create, TypeOK, objectVars
  <2> QED
    BY <2>2 DEF DeadEnd
<1>3. ASSUME NEW v \in Uploads, NEW content \in {"exact", "other"}, Put(v, content)
      PROVE  Lasts
  <2>1. u # v
    BY <1>1, <1>3 DEF Put
  <2> QED
    BY <1>3, <2>1 DEF Put, DeadEnd, TypeOK, sessionVars
<1>4. ASSUME NEW c \in Clients, FinishRefresh(c)
      PROVE  Lasts
  <2>1. u # request[c].upload
    BY <1>1, <1>4 DEF FinishRefresh, Usable
  <2>2. credential'[u] = credential[u]
    BY <1>4, <2>1 DEF FinishRefresh, TypeOK
  <2> QED
    BY <1>4, <2>2 DEF FinishRefresh, DeadEnd, objectVars
<1>5. ASSUME NEW c \in Clients, FinishCommit(c)
      PROVE  Lasts
  <2>1. u # request[c].upload
    BY <1>1, <1>5 DEF FinishCommit, Usable
  <2>2. state'[u] = state[u] /\ version'[u] = version[u]
    BY <1>5, <2>1 DEF FinishCommit, TypeOK
  <2> QED
    BY <1>5, <2>2 DEF FinishCommit, DeadEnd, sessionVars, objectVars
<1>6. ASSUME NEW v \in Uploads, NEW target \in {"cancelled", "expired"},
             Close(v, target)
      PROVE  Lasts
  <2>1. u # v
    BY <1>1, <1>6 DEF Close, Closable
  <2>2. state'[u] = state[u] /\ closedAt'[u] = closedAt[u]
    BY <1>6, <2>1 DEF Close, TypeOK
  <2> QED
    BY <1>6, <2>2 DEF Close, DeadEnd, sessionVars, objectVars
<1>7. ASSUME NEW v \in Uploads, CompleteVersion(v) \/ FailVersion(v)
      PROVE  Lasts
  <2>1. u # v
    BY <1>1, <1>7 DEF CompleteVersion, FailVersion
  <2>2. version'[u] = version[u] /\ closedAt'[u] = closedAt[u]
    BY <1>7, <2>1 DEF CompleteVersion, FailVersion, TypeOK
  <2> QED
    BY <1>7, <2>2 DEF CompleteVersion, FailVersion, DeadEnd, sessionVars, objectVars
<1>8. ASSUME NEW v \in Uploads, WriteDerivative(v) \/ DiscardDerivative(v)
      PROVE  Lasts
  <2>1. u # v
    BY <1>1, <1>8 DEF WriteDerivative, DiscardDerivative
  <2>2. u \in derived' => u \in derived
    BY <1>8, <2>1 DEF WriteDerivative, DiscardDerivative
  <2> QED
    BY <1>8, <2>2 DEF WriteDerivative, DiscardDerivative, DeadEnd, sessionVars
<1>9. ASSUME NEW w \in Sweepers,
             \/ \E v \in Uploads : SweepClaim(w, v)
             \/ SweepDeleteDerived(w) \/ SweepDeleteRaw(w)
             \/ SweepMark(w) \/ SweepAbort(w)
      PROVE  Lasts
  <2>1. UNCHANGED <<clock, state, version, closedAt, credential>>
    BY <1>9 DEF SweepClaim, SweepDeleteDerived, SweepDeleteRaw, SweepMark,
                SweepAbort, sessionVars
  <2>2. /\ raw[u] = "absent" => raw'[u] = "absent"
        /\ u \in derived' => u \in derived
    BY <1>9 DEF SweepClaim, SweepDeleteDerived, SweepDeleteRaw, SweepMark,
                SweepAbort, objectVars, TypeOK
  <2> QED
    BY <2>1, <2>2 DEF DeadEnd
<1>10. ASSUME NEW a \in Assets, NEW o \in Objects, PurgeDelete(a, o)
      PROVE  Lasts
  <2>1. /\ raw[u] = "absent" => raw'[u] = "absent"
        /\ u \in derived' => u \in derived
    BY <1>10 DEF PurgeDelete, TypeOK
  <2> QED
    BY <1>10, <2>1 DEF PurgeDelete, DeadEnd, sessionVars
<1>11. ASSUME NEW a \in Assets, PurgeFinalize(a)
      PROVE  Lasts
  <2>1. /\ state'[u] = IF u \in UploadsOf(a) THEN "gone" ELSE state[u]
        /\ version'[u] = IF u \in UploadsOf(a) THEN "none" ELSE version[u]
        /\ UNCHANGED <<clock, closedAt, credential, raw, derived>>
    BY <1>11 DEF PurgeFinalize, sessionVars, objectVars
  <2> QED
    BY <2>1 DEF DeadEnd
<1>12. ASSUME UNCHANGED <<clock, state, version, closedAt, credential, raw, derived>>
      PROVE  Lasts
  BY <1>12 DEF DeadEnd
<1>13. ASSUME Tick PROVE Lasts
  <2>1. /\ clock' = clock + 1
        /\ UNCHANGED <<state, version, closedAt, credential, raw, derived>>
    BY <1>13 DEF Tick, sessionVars, objectVars
  <2>2. clock \in Nat /\ credential[u] \in Nat /\ closedAt[u] \in Nat /\ HardDeadline \in Nat
    BY ConfigAssumption DEF TypeOK
  <2>3. /\ credential[u] <= clock => credential[u] <= clock + 1
        /\ closedAt[u] + HardDeadline <= clock => closedAt[u] + HardDeadline <= clock + 1
    BY <2>2
  <2> QED
    BY <2>1, <2>3 DEF DeadEnd
<1> HIDE DEF Lasts
<1>14. Lasts
  <2>1. CASE UNCHANGED vars
    BY <1>12, <2>1 DEF vars, sessionVars, objectVars
  <2>2. CASE ClientNext
    <3>1. ASSUME NEW c \in Clients, EndRequest(c)
          PROVE  Lasts
      BY <1>12, <3>1 DEF EndRequest, sessionVars, objectVars
    <3>2. ASSUME NEW c \in Clients, NEW op \in {"refresh", "commit"},
                 NEW v \in Uploads, BeginRequest(c, op, v)
          PROVE  Lasts
      BY <1>12, <3>2 DEF BeginRequest, sessionVars, objectVars
    <3> QED
      BY <1>2, <1>3, <1>4, <1>5, <1>6, <2>2, <3>1, <3>2 DEF ClientNext
  <2>3. CASE WorkerNext
    BY <1>7, <1>8, <2>3 DEF WorkerNext
  <2>4. CASE SweepNext
    BY <1>6, <1>9, <2>4 DEF SweepNext
  <2>5. CASE LifecycleNext
    <3>1. ASSUME NEW a \in Assets,
                 \/ SoftDelete(a) \/ Restore(a) \/ StartPurge(a) \/ PurgeList(a)
                 \/ PurgeMark(a) \/ PurgeDone(a) \/ PurgeAbort(a)
          PROVE  Lasts
      BY <1>12, <3>1
         DEF SoftDelete, Restore, StartPurge, PurgeList, PurgeMark, PurgeDone,
             PurgeAbort, sessionVars, objectVars
    <3> QED
      BY <1>10, <1>11, <2>5, <3>1 DEF LifecycleNext
  <2>6. Tick \/ ClientNext \/ WorkerNext \/ SweepNext \/ LifecycleNext \/ UNCHANGED vars
    BY DEF Next
  <2> QED
    BY <1>13, <2>1, <2>2, <2>3, <2>4, <2>5, <2>6
<1> QED
  BY <1>14 DEF Lasts

\* No step grants a credential beyond CredentialTTL, and none at all to a
\* session that is closed (CreateUploadSession, RefreshUploadSession).
LEMMA CredentialsBounded ==
  ASSUME Rows, PurgedInv, [Next]_vars, NEW u \in Uploads
  PROVE  /\ credential'[u] <= clock' + CredentialTTL
         /\ Abandoned(u)' => credential'[u] <= closedAt'[u] + CredentialTTL
<1> USE DEF Rows
<1> DEFINE Bounded == /\ credential'[u] <= clock' + CredentialTTL
                      /\ Abandoned(u)' => credential'[u] <= closedAt'[u] + CredentialTTL
<1>1. /\ clock \in Nat /\ credential[u] \in Nat /\ closedAt[u] \in Nat
      /\ CredentialTTL \in Nat /\ SessionTTL \in Nat
      /\ credential[u] <= clock + CredentialTTL
      /\ Abandoned(u) => credential[u] <= closedAt[u] + CredentialTTL
  BY ConfigAssumption DEF TypeOK, PurgedInv
<1>2. ASSUME NEW a \in Assets, NEW v \in Uploads, NEW b \in 1..MaxUploadBytes,
             Create(a, v, b)
      PROVE  Bounded
  <2>1. /\ credential' = [credential EXCEPT ![v] = clock + CredentialTTL]
        /\ UNCHANGED <<clock, version>>
    BY <1>2 DEF Create
  <2>2. CASE u = v
    <3>1. credential'[u] = clock + CredentialTTL /\ state'[u] = "created"
      <4>1. state'[v] = "created"
        <5> DEFINE lapsed == {x \in Uploads : owner[x] = a /\ Lapsed(x)}
        <5>1. v \notin lapsed
          BY <1>2 DEF Create, Lapsed
        <5>2. state' = [x \in Uploads |-> CASE x = v        -> "created"
                                           [] x \in lapsed -> "expired"
                                           [] OTHER        -> state[x]]
          BY <1>2 DEF Create
        <5> HIDE DEF lapsed
        <5> QED
          BY <5>1, <5>2
      <4>2. credential \in [Uploads -> Nat]
        BY DEF TypeOK
      <4>3. credential'[v] = clock + CredentialTTL
        BY <2>1, <4>2
      <4> QED
        BY <2>2, <4>1, <4>3
    <3>2. ~Abandoned(u)'
      BY <3>1 DEF Abandoned, RowsConsistent
    <3> QED
      BY <1>1, <2>1, <3>1, <3>2
  <2>3. CASE u # v
    <3>1. credential'[u] = credential[u]
      BY <2>1, <2>3 DEF TypeOK
    <3>2. \/ state'[u] = state[u] /\ closedAt'[u] = closedAt[u]
          \/ closedAt'[u] = clock
      BY <1>2, <2>3 DEF Create
    <3>3. state'[u] = state[u] /\ Abandoned(u)' => Abandoned(u)
      BY <2>1 DEF Abandoned
    <3> QED
      BY <1>1, <2>1, <3>1, <3>2, <3>3
  <2> QED
    BY <2>2, <2>3
<1>3. ASSUME NEW c \in Clients, FinishRefresh(c)
      PROVE  Bounded
  <2>1. UNCHANGED <<clock, state, version, closedAt>>
    BY <1>3 DEF FinishRefresh
  <2>2. CASE u = request[c].upload
    <3>1. /\ credential'[u] = Earlier(clock + CredentialTTL, expires[u])
          /\ state[u] = "created"
      BY <1>3, <2>2 DEF FinishRefresh, Usable, TypeOK
    <3>2. credential'[u] <= clock + CredentialTTL
      <4>1. expires[u] \in Nat
        BY DEF TypeOK
      <4> QED
        BY <1>1, <3>1, <4>1 DEF Earlier
    <3>3. ~Abandoned(u)'
      BY <2>1, <3>1 DEF Abandoned, RowsConsistent
    <3> QED
      BY <2>1, <3>2, <3>3
  <2>3. CASE u # request[c].upload
    <3>1. credential'[u] = credential[u]
      BY <1>3, <2>3 DEF FinishRefresh, TypeOK
    <3>2. Abandoned(u)' => Abandoned(u)
      BY <2>1 DEF Abandoned
    <3> QED
      BY <1>1, <2>1, <3>1, <3>2
  <2> QED
    BY <2>2, <2>3
<1>4. ASSUME NEW v \in Uploads,
             Close(v, "cancelled") \/ Close(v, "expired") \/ FailVersion(v)
      PROVE  Bounded
  <2>1. UNCHANGED <<clock, credential>> /\ closedAt' = [closedAt EXCEPT ![v] = clock]
    BY <1>4 DEF Close, FailVersion, sessionVars
  <2>2. CASE u = v
    <3>1. closedAt'[u] = clock
      BY <2>1, <2>2 DEF TypeOK
    <3> QED
      BY <1>1, <2>1, <3>1
  <2>3. CASE u # v
    <3>1. /\ closedAt'[u] = closedAt[u] /\ state'[u] = state[u]
          /\ version'[u] = version[u]
      BY <1>4, <2>1, <2>3 DEF Close, FailVersion, TypeOK
    <3>2. Abandoned(u)' => Abandoned(u)
      BY <3>1 DEF Abandoned
    <3> QED
      BY <1>1, <2>1, <3>1, <3>2
  <2> QED
    BY <2>2, <2>3
<1>5. ASSUME UNCHANGED <<credential, closedAt>>, clock' \in {clock, clock + 1},
             Abandoned(u)' => Abandoned(u)
      PROVE  Bounded
  BY <1>1, <1>5
<1>6. ASSUME UNCHANGED <<clock, state, version, closedAt, credential>>
      PROVE  Bounded
  BY <1>5, <1>6 DEF Abandoned
<1>7. ASSUME NEW c \in Clients, FinishCommit(c)
      PROVE  Bounded
  <2> DEFINE v == request[c].upload
  <2>1. /\ state' = [state EXCEPT ![v] = "committed"]
        /\ version' = [version EXCEPT ![v] = "pending"]
        /\ v \in Uploads
        /\ UNCHANGED <<clock, closedAt, credential>>
    BY <1>7 DEF FinishCommit, sessionVars, TypeOK
  <2> HIDE DEF v
  <2>2. Abandoned(u)' => Abandoned(u)
    <3>1. u = v => state'[u] = "committed" /\ version'[u] = "pending"
      BY <2>1 DEF TypeOK
    <3>2. u # v => state'[u] = state[u] /\ version'[u] = version[u]
      BY <2>1 DEF TypeOK
    <3> QED
      BY <3>1, <3>2 DEF Abandoned
  <2> QED
    BY <1>5, <2>1, <2>2
<1>8. ASSUME NEW v \in Uploads, CompleteVersion(v)
      PROVE  Bounded
  <2>1. UNCHANGED <<clock, state, closedAt, credential>>
    BY <1>8 DEF CompleteVersion, sessionVars
  <2>2. version'[u] \in {version[u], "completed"}
    BY <1>8 DEF CompleteVersion, TypeOK
  <2>3. Abandoned(u)' => Abandoned(u)
    BY <2>1, <2>2 DEF Abandoned
  <2> QED
    BY <1>5, <2>1, <2>3
<1>9. ASSUME NEW a \in Assets, PurgeFinalize(a)
      PROVE  Bounded
  <2>1. /\ state'[u] = IF u \in UploadsOf(a) THEN "gone" ELSE state[u]
        /\ version'[u] = IF u \in UploadsOf(a) THEN "none" ELSE version[u]
        /\ UNCHANGED <<clock, closedAt, credential>>
    BY <1>9 DEF PurgeFinalize, sessionVars
  <2>2. Abandoned(u)' => Abandoned(u)
    BY <2>1 DEF Abandoned
  <2> QED
    BY <1>5, <2>1, <2>2
<1>10. ASSUME Tick PROVE Bounded
  <2>1. clock' = clock + 1 /\ UNCHANGED <<credential, closedAt, state, version>>
    BY <1>10 DEF Tick, sessionVars
  <2>2. Abandoned(u)' => Abandoned(u)
    BY <2>1 DEF Abandoned
  <2> QED
    BY <1>5, <2>1, <2>2
<1> HIDE DEF Bounded
<1>11. Bounded
  <2>1. CASE UNCHANGED vars
    BY <1>6, <2>1 DEF vars, sessionVars
  <2>2. CASE ClientNext
    <3>1. ASSUME NEW c \in Clients, EndRequest(c)
          PROVE  Bounded
      BY <1>6, <3>1 DEF EndRequest, sessionVars
    <3>2. ASSUME NEW v \in Uploads,
                 \/ \E content \in {"exact", "other"} : Put(v, content)
                 \/ \E c \in Clients, op \in {"refresh", "commit"} : BeginRequest(c, op, v)
          PROVE  Bounded
      BY <1>6, <3>2 DEF Put, BeginRequest, sessionVars
    <3> QED
      BY <1>2, <1>3, <1>4, <1>7, <2>2, <3>1, <3>2 DEF ClientNext
  <2>3. CASE WorkerNext
    <3>1. ASSUME NEW v \in Uploads, WriteDerivative(v) \/ DiscardDerivative(v)
          PROVE  Bounded
      BY <1>6, <3>1 DEF WriteDerivative, DiscardDerivative, sessionVars
    <3> QED
      BY <1>4, <1>8, <2>3, <3>1 DEF WorkerNext
  <2>4. CASE SweepNext
    <3>1. ASSUME NEW w \in Sweepers,
                 \/ \E v \in Uploads : SweepClaim(w, v)
                 \/ SweepDeleteDerived(w) \/ SweepDeleteRaw(w)
                 \/ SweepMark(w) \/ SweepAbort(w)
          PROVE  Bounded
      BY <1>6, <3>1
         DEF SweepClaim, SweepDeleteDerived, SweepDeleteRaw, SweepMark,
             SweepAbort, sessionVars
    <3> QED
      BY <1>4, <2>4, <3>1 DEF SweepNext
  <2>5. CASE LifecycleNext
    <3>1. ASSUME NEW a \in Assets,
                 \/ SoftDelete(a) \/ Restore(a) \/ StartPurge(a) \/ PurgeList(a)
                 \/ \E o \in Objects : PurgeDelete(a, o)
                 \/ PurgeMark(a) \/ PurgeDone(a) \/ PurgeAbort(a)
          PROVE  Bounded
      BY <1>6, <3>1
         DEF SoftDelete, Restore, StartPurge, PurgeList, PurgeDelete, PurgeMark,
             PurgeDone, PurgeAbort, sessionVars
    <3> QED
      BY <1>9, <2>5, <3>1 DEF LifecycleNext
  <2>6. Tick \/ ClientNext \/ WorkerNext \/ SweepNext \/ LifecycleNext \/ UNCHANGED vars
    BY DEF Next
  <2> QED
    BY <1>10, <2>1, <2>2, <2>3, <2>4, <2>5, <2>6
<1> QED
  BY <1>11 DEF Bounded

\* Derivatives are only stored for an upload that was committed.
LEMMA DerivedCommitted ==
  ASSUME Rows, PurgedInv, [Next]_vars, NEW u \in Uploads, u \in derived'
  PROVE  state'[u] \in {"committed", "gone"}
<1> USE DEF Rows
<1>1. u \in derived \/ state[u] = "committed"
  <2>1. CASE \E v \in Uploads : WriteDerivative(v)
    <3>1. PICK v \in Uploads : WriteDerivative(v)
      BY <2>1
    <3>2. state[v] = "committed" /\ derived' = derived \cup {v}
      BY <3>1 DEF WriteDerivative, WorkerMayBeRunning, RowsConsistent
    <3> QED
      BY <3>2
  <2>2. CASE ~ \E v \in Uploads : WriteDerivative(v)
    <3>1. derived' \subseteq derived
      BY <2>2 DEF Next, vars, objectVars, Tick, ClientNext, Create, Put, BeginRequest,
             FinishRefresh, FinishCommit, EndRequest, Close, WorkerNext,
             CompleteVersion, FailVersion, DiscardDerivative, SweepNext, SweepClaim,
             SweepDeleteDerived, SweepDeleteRaw, SweepMark, SweepAbort, LifecycleNext,
             SoftDelete, Restore, StartPurge, PurgeList, PurgeDelete, PurgeMark,
             PurgeFinalize, PurgeDone, PurgeAbort
    <3> QED
      BY <3>1
  <2> QED
    BY <2>1, <2>2
<1>2. state[u] \in {"committed", "gone"}
  BY <1>1 DEF PurgedInv
<1>3. CASE \E c \in Clients : FinishCommit(c)
  BY <1>2, <1>3 DEF FinishCommit, TypeOK
<1>4. CASE ~ \E c \in Clients : FinishCommit(c)
  <2>1. ASSUME NEW a \in Assets, NEW v \in Uploads, NEW b \in 1..MaxUploadBytes,
               Create(a, v, b)
        PROVE  state'[u] = state[u]
    BY <1>2, <2>1 DEF Create, Lapsed
  <2>2. ASSUME NEW v \in Uploads, NEW target \in {"cancelled", "expired"},
               Close(v, target)
        PROVE  state'[u] = state[u]
    BY <1>2, <2>2 DEF Close, Closable, TypeOK
  <2>3. ASSUME NEW a \in Assets, PurgeFinalize(a)
        PROVE  state'[u] \in {state[u], "gone"}
    BY <2>3 DEF PurgeFinalize
  <2> QED
    BY <1>2, <1>4, <2>1, <2>2, <2>3
       DEF Next, vars, Tick, ClientNext, Put, BeginRequest, FinishRefresh, EndRequest,
           WorkerNext, CompleteVersion, FailVersion, WriteDerivative,
           DiscardDerivative, SweepNext, SweepClaim, SweepDeleteDerived,
           SweepDeleteRaw, SweepMark, SweepAbort, LifecycleNext, SoftDelete,
           Restore, StartPurge, PurgeList, PurgeDelete, PurgeMark, PurgeDone,
           PurgeAbort
<1> QED
  BY <1>3, <1>4

\* A sweep lists an upload only when nobody can store anything for it any more
\* (ClaimPurgeableMediaObjects after the quarantine).
LEMMA ClaimedIsDead ==
  ASSUME Rows, PurgedInv, QuarantineOutlasts, NEW u \in Uploads, Reclaimable(u)
  PROVE  DeadEnd(u) /\ (version[u] = "none" => u \notin derived)
<1> USE DEF Rows
<1>1. Abandoned(u) /\ closedAt[u] + Quarantine <= clock
  BY DEF Reclaimable, Quarantined
<1>2. /\ clock \in Nat /\ credential[u] \in Nat /\ closedAt[u] \in Nat
      /\ CredentialTTL \in Nat /\ Quarantine \in Nat /\ HardDeadline \in Nat
  BY ConfigAssumption DEF TypeOK
<1>3. credential[u] <= closedAt[u] + CredentialTTL
  BY <1>1 DEF PurgedInv
<1>4. credential[u] <= clock /\ closedAt[u] + HardDeadline <= clock
  BY <1>1, <1>2, <1>3 DEF QuarantineOutlasts
<1> QED
  BY <1>1, <1>4 DEF DeadEnd, Abandoned, PurgedInv

\* A step of a sweeper, or of anybody else, leaves every entry of the sweep
\* true to what its step says.
LEMMA EntriesStayDead ==
  ASSUME Rows, PurgedInv, QuarantineOutlasts, [Next]_vars,
         NEW w \in Sweepers, NEW u \in Uploads,
         sweep'[w] # None, sweep'[w].upload = u
  PROVE  /\ DeadEnd(u)'
         /\ sweep'[w].step # "derived" => u \notin derived'
         /\ sweep'[w].step = "mark" => raw'[u] = "absent"
<1> USE DEF Rows
<1>1. DeadEnd(u) => /\ DeadEnd(u)'
                    /\ raw[u] = "absent" => raw'[u] = "absent"
                    /\ u \notin derived => u \notin derived'
  BY DeadEndLasts
<1>2. CASE \E x \in Uploads : SweepClaim(w, x)
  <2>1. PICK x \in Uploads : SweepClaim(w, x)
    BY <1>2
  <2>2. /\ sweep'[w].upload = x
        /\ sweep'[w].step = IF version[x] = "none" THEN "raw" ELSE "derived"
    <3>1. CASE version[x] = "none"
      BY <2>1, <3>1 DEF SweepClaim, TypeOK
    <3>2. CASE version[x] # "none"
      BY <2>1, <3>2 DEF SweepClaim, TypeOK
    <3> QED
      BY <3>1, <3>2
  <2>3. Reclaimable(u)
    BY <2>1, <2>2 DEF SweepClaim
  <2>4. DeadEnd(u) /\ (version[u] = "none" => u \notin derived)
    BY <2>3, ClaimedIsDead
  <2> QED
    BY <1>1, <2>2, <2>4
<1>3. CASE SweepDeleteDerived(w)
  <2>1. /\ sweep[w] # None
        /\ sweep[w].upload = u /\ sweep'[w].step = "raw"
        /\ derived' = derived \ {u}
    BY <1>3 DEF SweepDeleteDerived, TypeOK
  <2> QED
    BY <1>1, <2>1 DEF PurgedInv
<1>4. CASE SweepDeleteRaw(w)
  <2>1. /\ sweep[w] # None /\ sweep[w].step = "raw"
        /\ sweep[w].upload = u /\ sweep'[w].step = "mark"
    BY <1>4 DEF SweepDeleteRaw, TypeOK
  <2>2. raw'[u] = "absent"
    BY <1>4, <2>1 DEF SweepDeleteRaw, TypeOK
  <2> QED
    BY <1>1, <2>1, <2>2 DEF PurgedInv
<1>5. CASE sweep'[w] = sweep[w]
  BY <1>1, <1>5 DEF PurgedInv
<1>6. ASSUME NEW v \in Sweepers,
             \/ \E x \in Uploads : SweepClaim(v, x)
             \/ SweepDeleteDerived(v) \/ SweepDeleteRaw(v)
             \/ SweepMark(v) \/ SweepAbort(v)
      PROVE  \/ \E x \in Uploads : SweepClaim(w, x)
             \/ SweepDeleteDerived(w) \/ SweepDeleteRaw(w)
             \/ sweep'[w] = sweep[w]
  <2>1. CASE v = w
    <3>1. SweepMark(w) \/ SweepAbort(w) => sweep'[w] = None
      BY DEF SweepMark, SweepAbort, TypeOK
    <3> QED
      BY <1>6, <2>1, <3>1
  <2>2. CASE v # w
    BY <1>6, <2>2 DEF SweepClaim, SweepDeleteDerived, SweepDeleteRaw, SweepMark,
                      SweepAbort, TypeOK
  <2> QED
    BY <2>1, <2>2
<1>7. \/ \E x \in Uploads : SweepClaim(w, x)
      \/ SweepDeleteDerived(w) \/ SweepDeleteRaw(w)
      \/ sweep'[w] = sweep[w]
  <2>1. CASE SweepNext
    <3>1. CASE \E x \in Uploads : Close(x, "expired")
      BY <3>1 DEF Close
    <3> QED
      BY <1>6, <2>1, <3>1 DEF SweepNext
  <2>2. CASE Tick \/ ClientNext \/ WorkerNext \/ LifecycleNext \/ UNCHANGED vars
    BY <2>2
       DEF vars, Tick, ClientNext, Create, Put, BeginRequest, FinishRefresh,
           FinishCommit, EndRequest, Close, WorkerNext, CompleteVersion,
           FailVersion, WriteDerivative, DiscardDerivative, LifecycleNext,
           SoftDelete, Restore, StartPurge, PurgeList, PurgeDelete, PurgeMark,
           PurgeFinalize, PurgeDone, PurgeAbort
  <2> QED
    BY <2>1, <2>2 DEF Next
<1> QED
  BY <1>2, <1>3, <1>4, <1>5, <1>7

\* What is marked was deleted by the sweeper that marked it, and stays deleted.
LEMMA MarkedIsEmpty ==
  ASSUME Rows, PurgedInv, [Next]_vars, NEW u \in purged'
  PROVE  DeadEnd(u)' /\ raw'[u] = "absent" /\ u \notin derived'
<1> USE DEF Rows
<1>1. DeadEnd(u) /\ raw[u] = "absent" /\ u \notin derived
  <2>1. CASE u \in purged
    BY <2>1 DEF PurgedInv
  <2>2. CASE u \notin purged
    <3>1. PICK w \in Sweepers : SweepMark(w)
      BY <2>2
         DEF Next, vars, Tick, ClientNext, Create, Put, BeginRequest, FinishRefresh,
             FinishCommit, EndRequest, Close, WorkerNext, CompleteVersion,
             FailVersion, WriteDerivative, DiscardDerivative, SweepNext, SweepClaim,
             SweepDeleteDerived, SweepDeleteRaw, SweepAbort, LifecycleNext,
             SoftDelete, Restore, StartPurge, PurgeList, PurgeDelete, PurgeMark,
             PurgeFinalize, PurgeDone, PurgeAbort
    <3>2. u = sweep[w].upload /\ sweep[w] # None /\ sweep[w].step = "mark"
      BY <2>2, <3>1 DEF SweepMark
    <3> QED
      BY <3>2 DEF PurgedInv
  <2> QED
    BY <2>1, <2>2
<1>2. u \in Uploads
  BY DEF TypeOK
<1> QED
  BY <1>1, <1>2, DeadEndLasts

\* Nothing of an upload the sweep has marked is in storage, and nothing comes
\* back: no PUT, no late execution and no second sweeper can put an object where
\* no later sweep would look for it.  (ClaimPurgeableMediaObjects,
\* MarkMediaObjectsPurged; the quarantine must outlast a credential and an
\* execution, which the configuration does not check.)
THEOREM PurgedIsEmpty ==
  ASSUME QuarantineOutlasts
  PROVE  Spec => []PurgedStaysEmpty
<1>1. Init => PurgedInv
  <2>1. /\ CredentialTTL \in Nat
        /\ Init => \A u \in Uploads : credential[u] <= clock + CredentialTTL
    BY ConfigAssumption DEF Init
  <2> QED
    BY <2>1 DEF Init, PurgedInv, Abandoned
<1>2. LedgerInv /\ LedgerInv' /\ PurgedInv /\ [Next]_vars => PurgedInv'
  <2> SUFFICES ASSUME Rows, PurgedInv, [Next]_vars PROVE PurgedInv'
    BY DEF LedgerInv, Rows
  <2>1. \A u \in Uploads :
           /\ credential'[u] <= clock' + CredentialTTL
           /\ Abandoned(u)' => credential'[u] <= closedAt'[u] + CredentialTTL
    BY CredentialsBounded
  <2>2. \A u \in derived' : state'[u] \in {"committed", "gone"}
    BY DerivedCommitted DEF Rows, TypeOK
  <2>3. \A u \in purged' : DeadEnd(u)' /\ raw'[u] = "absent" /\ u \notin derived'
    BY MarkedIsEmpty
  <2>4. \A w \in Sweepers : sweep'[w] # None => sweep'[w].upload \in Uploads
    BY DEF Rows, TypeOK
  <2>5. \A w \in Sweepers, u \in Uploads : sweep'[w] # None /\ sweep'[w].upload = u =>
           /\ DeadEnd(u)'
           /\ sweep'[w].step # "derived" => u \notin derived'
           /\ sweep'[w].step = "mark" => raw'[u] = "absent"
    BY EntriesStayDead
  <2> QED
    BY <2>1, <2>2, <2>3, <2>4, <2>5 DEF PurgedInv, DeadEnd
<1>3. PurgedInv => PurgedStaysEmpty
  BY DEF PurgedInv, PurgedStaysEmpty
<1> QED
  BY <1>1, <1>2, <1>3, LedgerInvariant, PTL DEF Spec
=============================================================================
