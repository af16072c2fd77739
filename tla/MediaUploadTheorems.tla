------------------------ MODULE MediaUploadTheorems ------------------------
(***************************************************************************)
(* For every number of assets, uploads, clients and sweepers, every quota  *)
(* and every configured duration: the types of MediaUpload, that its quota *)
(* ledger is exact and within the quota, and that its rows and counters    *)
(* implement the abstract ledger of QuotaLedger.                           *)
(***************************************************************************)
EXTENDS MediaUpload, FiniteSetTheorems, TLAPS

-----------------------------------------------------------------------------
(* Sums of bytes *)

\* The ledger's sum over finitely many uploads is a sum of finitely many bytes.
LEMMA UnitsFinite ==
  ASSUME NEW b, NEW S, IsFiniteSet(S), MaxUploadBytes \in Nat
  PROVE  IsFiniteSet(Units(b, S))
<1>1. IsFiniteSet(1..MaxUploadBytes)
  BY FS_Interval
<1>2. IsFiniteSet(S \X (1..MaxUploadBytes))
  BY <1>1, FS_Product
<1>3. Units(b, S) \in SUBSET (S \X (1..MaxUploadBytes))
  BY DEF Units
<1> QED
  BY <1>2, <1>3, FS_Subset

\* The ledger's sums are never negative.
LEMMA BytesType ==
  ASSUME NEW b, NEW S, IsFiniteSet(S), MaxUploadBytes \in Nat
  PROVE  Bytes(b, S) \in Nat
BY UnitsFinite, FS_CardinalityType DEF Bytes

\* A ledger without uploads charges nothing.
LEMMA BytesEmpty ==
  ASSUME NEW b
  PROVE  Bytes(b, {}) = 0
<1>1. Units(b, {}) = {}
  BY DEF Units
<1> QED
  BY <1>1, FS_EmptySet DEF Bytes

\* Uploads of one set are charged apart from those of a disjoint one.
LEMMA BytesDisjoint ==
  ASSUME NEW b, NEW S, NEW T, IsFiniteSet(S), IsFiniteSet(T),
         S \cap T = {}, MaxUploadBytes \in Nat
  PROVE  Bytes(b, S \cup T) = Bytes(b, S) + Bytes(b, T)
<1>1. Units(b, S \cup T) = Units(b, S) \cup Units(b, T)
  BY DEF Units
<1>2. Units(b, S) \cap Units(b, T) = {}
  BY DEF Units
<1>3. IsFiniteSet(Units(b, S)) /\ IsFiniteSet(Units(b, T))
  BY UnitsFinite
<1>4. /\ Cardinality(Units(b, S) \cup Units(b, T))
           = Cardinality(Units(b, S)) + Cardinality(Units(b, T)) - Cardinality({})
  BY <1>2, <1>3, FS_Union
<1>5. Bytes(b, S) \in Nat /\ Bytes(b, T) \in Nat
  BY BytesType
<1>6. Cardinality({}) = 0
  BY FS_EmptySet
<1>7. Bytes(b, S \cup T) = Bytes(b, S) + Bytes(b, T) - 0
  BY <1>1, <1>4, <1>6 DEF Bytes
<1> QED
  BY <1>5, <1>7

\* One upload is charged the size it declared.
LEMMA BytesSingleton ==
  ASSUME NEW b, NEW u, b[u] \in 0..MaxUploadBytes, MaxUploadBytes \in Nat
  PROVE  Bytes(b, {u}) = b[u]
<1>1. Units(b, {u}) = {u} \X (1..b[u])
  <2>1. ASSUME NEW p PROVE p \in Units(b, {u}) <=> p \in {u} \X (1..b[u])
    BY DEF Units
  <2> QED
    BY <2>1
<1>2. IsFiniteSet({u}) /\ Cardinality({u}) = 1
  BY FS_Singleton
<1>3. \A n \in Nat : IsFiniteSet(1..n) /\ Cardinality(1..n) = n
  <2>1. TAKE n \in Nat
  <2>2. /\ IsFiniteSet(1..n)
        /\ Cardinality(1..n) = IF 1 > n THEN 0 ELSE n - 1 + 1
    <3>1. 1 \in Int /\ n \in Int
      OBVIOUS
    <3> QED
      BY <3>1, FS_Interval
  <2> QED
    BY <2>2
<1>4. \A n \in Nat : Cardinality({u} \X (1..n)) = n
  <2>1. TAKE n \in Nat
  <2>2. Cardinality({u} \X (1..n)) = Cardinality({u}) * Cardinality(1..n)
    BY <1>2, <1>3, FS_Product
  <2> QED
    BY <1>2, <1>3, <2>2
<1>5. b[u] \in Nat
  OBVIOUS
<1> QED
  BY <1>1, <1>4, <1>5 DEF Bytes

\* What the uploads of a set are charged does not depend on the size of others.
LEMMA BytesAgree ==
  ASSUME NEW b, NEW c, NEW S, \A u \in S : b[u] = c[u]
  PROVE  Bytes(b, S) = Bytes(c, S)
<1>1. Units(b, S) = Units(c, S)
  <2>1. ASSUME NEW p \in S \X (1..MaxUploadBytes)
        PROVE  p[2] <= b[p[1]] <=> p[2] <= c[p[1]]
    BY <2>1
  <2> QED
    BY <2>1 DEF Units
<1> QED
  BY <1>1 DEF Bytes

\* Releasing some of the charged uploads lowers the total by what they were
\* charged, and the total was at least that: GREATEST(..., 0) loses nothing.
LEMMA BytesRemove ==
  ASSUME NEW b, NEW S, NEW T, IsFiniteSet(S), T \subseteq S, MaxUploadBytes \in Nat
  PROVE  /\ Bytes(b, T) <= Bytes(b, S)
         /\ Bytes(b, S \ T) = Bytes(b, S) - Bytes(b, T)
<1>1. IsFiniteSet(T) /\ IsFiniteSet(S \ T)
  BY FS_Subset, FS_Difference
<1>2. Bytes(b, (S \ T) \cup T) = Bytes(b, S \ T) + Bytes(b, T)
  <2>1. (S \ T) \cap T = {}
    OBVIOUS
  <2> QED
    BY <1>1, <2>1, BytesDisjoint
<1>3. (S \ T) \cup T = S
  OBVIOUS
<1>4. Bytes(b, S) \in Nat /\ Bytes(b, T) \in Nat /\ Bytes(b, S \ T) \in Nat
  BY <1>1, BytesType
<1>5. Bytes(b, S) = Bytes(b, S \ T) + Bytes(b, T)
  BY <1>2, <1>3
<1> QED
  BY <1>4, <1>5

\* Charging one more upload raises the total by its size.
LEMMA BytesPut ==
  ASSUME NEW b, NEW S, NEW u, IsFiniteSet(S), u \notin S,
         b[u] \in 0..MaxUploadBytes, MaxUploadBytes \in Nat
  PROVE  Bytes(b, S \cup {u}) = Bytes(b, S) + b[u]
<1>1. IsFiniteSet({u}) /\ S \cap {u} = {}
  BY FS_Singleton
<1> QED
  BY <1>1, BytesDisjoint, BytesSingleton

\* Releasing one charged upload lowers the total by its size, exactly.
LEMMA BytesTake ==
  ASSUME NEW b, NEW S, NEW u, IsFiniteSet(S), u \in S,
         b[u] \in 0..MaxUploadBytes, MaxUploadBytes \in Nat
  PROVE  /\ b[u] <= Bytes(b, S)
         /\ Bytes(b, S \ {u}) = Bytes(b, S) - b[u]
<1>1. {u} \subseteq S
  OBVIOUS
<1>2. /\ Bytes(b, {u}) <= Bytes(b, S)
      /\ Bytes(b, S \ {u}) = Bytes(b, S) - Bytes(b, {u})
  BY <1>1, BytesRemove
<1>3. Bytes(b, {u}) = b[u]
  BY BytesSingleton
<1> QED
  BY <1>2, <1>3

-----------------------------------------------------------------------------
(* Types *)

\* A release never leaves a counter negative, and gives what it should when
\* the counter covers it.
LEMMA ReleaseType ==
  ASSUME NEW total \in Nat, NEW released \in Nat
  PROVE  /\ Release(total, released) \in Nat
         /\ released <= total => Release(total, released) = total - released
BY DEF Release

\* The sums over any set of uploads are natural numbers.
LEMMA UploadBytesType ==
  ASSUME NEW b, NEW S \in SUBSET Uploads
  PROVE  Bytes(b, S) \in Nat /\ IsFiniteSet(S)
<1>1. IsFiniteSet(S)
  BY IdentityAssumption, FS_Subset
<1> QED
  BY <1>1, ConfigAssumption, BytesType

\* Every variable keeps its type: in particular the two usage counters are
\* never negative, whatever releases race.
THEOREM TypeCorrect == Spec => []TypeOK
<1>1. Init => TypeOK
  BY ConfigAssumption, IdentityAssumption DEF Init, TypeOK
<1>2. TypeOK /\ [Next]_vars => TypeOK'
  <2> SUFFICES ASSUME TypeOK, [Next]_vars PROVE TypeOK'
    OBVIOUS
  <2> USE DEF TypeOK, assetVars, sessionVars, objectVars, purgeVars
  <2>1. CASE Tick
    BY <2>1, ConfigAssumption DEF Tick
  <2>2. ASSUME NEW a \in Assets, NEW u \in Uploads, NEW b \in 1..MaxUploadBytes,
               Create(a, u, b)
        PROVE  TypeOK'
    <3> DEFINE lapsed == {v \in Uploads : owner[v] = a /\ Lapsed(v)}
               left   == Release(reserved, Bytes(bytes, lapsed))
    <3>1. left \in Nat
      <4>1. Bytes(bytes, lapsed) \in Nat
        BY UploadBytesType
      <4> QED
        BY <4>1, ReleaseType
    <3>2. reserved' = left + b
      BY <2>2 DEF Create
    <3>3. reserved' \in Nat
      <4> HIDE DEF left
      <4> QED
        BY <3>1, <3>2, ConfigAssumption
    <3>4. state' \in [Uploads -> {"none", "created", "committed", "cancelled",
                                  "expired", "gone"}]
      BY <2>2 DEF Create
    <3>5. /\ owner' \in [Uploads -> Assets \cup {None}]
          /\ bytes' \in [Uploads -> 0..MaxUploadBytes]
          /\ expires' \in [Uploads -> Nat]
          /\ credential' \in [Uploads -> Nat]
          /\ closedAt' \in [Uploads -> Nat]
      BY <2>2, ConfigAssumption DEF Create
    <3> QED
      BY <2>2, <3>3, <3>4, <3>5 DEF Create
  <2>3. ASSUME NEW u \in Uploads, NEW content \in {"exact", "other"},
               Put(u, content)
        PROVE  TypeOK'
    BY <2>3, ConfigAssumption DEF Put
  <2>4. ASSUME NEW c \in Clients, NEW op \in {"refresh", "commit"}, NEW u \in Uploads,
               BeginRequest(c, op, u)
        PROVE  TypeOK'
    BY <2>4, ConfigAssumption DEF BeginRequest
  <2>5. ASSUME NEW c \in Clients,
               FinishRefresh(c)
        PROVE  TypeOK'
    BY <2>5, ConfigAssumption DEF FinishRefresh, Earlier
  <2>6. ASSUME NEW c \in Clients,
               FinishCommit(c)
        PROVE  TypeOK'
    <3> DEFINE u == request[c].upload
    <3>1. u \in Uploads
      BY <2>6 DEF FinishCommit
    <3>2. reserved' = Release(reserved, bytes[u]) /\ stored' = stored + bytes[u]
      BY <2>6 DEF FinishCommit
    <3>3. bytes[u] \in Nat
      BY <3>1, ConfigAssumption
    <3>4. reserved' \in Nat /\ stored' \in Nat
      <4>1. reserved \in Nat /\ stored \in Nat
        OBVIOUS
      <4>2. Release(reserved, bytes[u]) \in Nat
        BY <3>3, <4>1, ReleaseType
      <4> HIDE DEF u, TypeOK
      <4> QED
        BY <3>2, <3>3, <4>1, <4>2
    <3>5. /\ pending' \in [Assets -> Uploads \cup {None}]
          /\ state' \in [Uploads -> {"none", "created", "committed", "cancelled",
                                     "expired", "gone"}]
          /\ version' \in [Uploads -> {"none", "pending", "completed", "failed"}]
          /\ retained' \in SUBSET Uploads
          /\ request' \in [Clients -> {None} \cup
                            [op : {"refresh", "commit"}, upload : Uploads]]
      BY <2>6, <3>1 DEF FinishCommit
    <3> QED
      BY <2>6, <3>4, <3>5 DEF FinishCommit
  <2>7. ASSUME NEW c \in Clients,
               EndRequest(c)
        PROVE  TypeOK'
    BY <2>7, ConfigAssumption DEF EndRequest
  <2>8. ASSUME NEW u \in Uploads, NEW target \in {"cancelled", "expired"},
               Close(u, target)
        PROVE  TypeOK'
    BY <2>8, ConfigAssumption DEF Close, Release
  <2>9. ASSUME NEW u \in Uploads,
               CompleteVersion(u)
        PROVE  TypeOK'
    BY <2>9, ConfigAssumption DEF CompleteVersion
  <2>10. ASSUME NEW u \in Uploads,
               FailVersion(u)
        PROVE  TypeOK'
    BY <2>10, ConfigAssumption DEF FailVersion, PointerCleared
  <2>11. ASSUME NEW u \in Uploads,
               WriteDerivative(u)
        PROVE  TypeOK'
    BY <2>11, ConfigAssumption DEF WriteDerivative
  <2>12. ASSUME NEW u \in Uploads,
               DiscardDerivative(u)
        PROVE  TypeOK'
    BY <2>12, ConfigAssumption DEF DiscardDerivative
  <2>13. ASSUME NEW w \in Sweepers, NEW u \in Uploads,
               SweepClaim(w, u)
        PROVE  TypeOK'
    BY <2>13, ConfigAssumption DEF SweepClaim
  <2>14. ASSUME NEW w \in Sweepers,
               SweepDeleteDerived(w)
        PROVE  TypeOK'
    BY <2>14, ConfigAssumption DEF SweepDeleteDerived
  <2>15. ASSUME NEW w \in Sweepers,
               SweepDeleteRaw(w)
        PROVE  TypeOK'
    BY <2>15, ConfigAssumption DEF SweepDeleteRaw
  <2>16. ASSUME NEW w \in Sweepers,
               SweepMark(w)
        PROVE  TypeOK'
    BY <2>16, ConfigAssumption DEF SweepMark, Release
  <2>17. ASSUME NEW w \in Sweepers,
               SweepAbort(w)
        PROVE  TypeOK'
    BY <2>17, ConfigAssumption DEF SweepAbort
  <2>18. ASSUME NEW a \in Assets,
               SoftDelete(a)
        PROVE  TypeOK'
    BY <2>18, ConfigAssumption DEF SoftDelete
  <2>19. ASSUME NEW a \in Assets,
               Restore(a)
        PROVE  TypeOK'
    BY <2>19, ConfigAssumption DEF Restore
  <2>20. ASSUME NEW a \in Assets,
               StartPurge(a)
        PROVE  TypeOK'
    BY <2>20, ConfigAssumption DEF StartPurge
  <2>21. ASSUME NEW a \in Assets,
               PurgeList(a)
        PROVE  TypeOK'
    <3>1. ManifestOf(a) \in SUBSET Objects
      BY DEF ManifestOf, UploadsOf, Objects
    <3>2. manifest' \in SUBSET Objects
      BY <2>21, <3>1 DEF PurgeList
    <3>3. purger' \in [Assets -> {None} \cup
                         [step : {"delete", "finalize"}, todo : SUBSET Objects,
                          batch : SUBSET Objects]]
      <4> DEFINE listed == {o \in manifest' \ marked : owner[o[1]] = a}
      <4>1. listed \in SUBSET Objects
        BY <3>2
      <4>2. purger' = [purger EXCEPT ![a] =
                         [step |-> "delete", todo |-> listed, batch |-> listed]]
        BY <2>21 DEF PurgeList
      <4> HIDE DEF listed
      <4> QED
        BY <4>1, <4>2
    <3> QED
      BY <2>21, <3>2, <3>3 DEF PurgeList
  <2>22. ASSUME NEW a \in Assets, NEW o \in Objects,
               PurgeDelete(a, o)
        PROVE  TypeOK'
    BY <2>22, ConfigAssumption DEF PurgeDelete, Objects
  <2>23. ASSUME NEW a \in Assets,
               PurgeMark(a)
        PROVE  TypeOK'
    BY <2>23, ConfigAssumption DEF PurgeMark
  <2>24. ASSUME NEW a \in Assets,
               PurgeFinalize(a)
        PROVE  TypeOK'
    <3> DEFINE mine == UploadsOf(a)
               open == {u \in mine : state[u] = "created"}
               kept == {u \in mine : u \in retained}
    <3>1. Bytes(bytes, open) \in Nat /\ Bytes(bytes, kept) \in Nat
      BY UploadBytesType DEF UploadsOf
    <3>2. /\ reserved' = Release(reserved, Bytes(bytes, open))
          /\ stored' = Release(stored, Bytes(bytes, kept))
      BY <2>24 DEF PurgeFinalize
    <3>3. reserved' \in Nat /\ stored' \in Nat
      <4> HIDE DEF open, kept
      <4> QED
        BY <3>1, <3>2, ReleaseType
    <3>4. /\ asset' \in [Assets -> {"live", "deleted", "gone"}]
          /\ pending' \in [Assets -> Uploads \cup {None}]
          /\ state' \in [Uploads -> {"none", "created", "committed", "cancelled",
                                     "expired", "gone"}]
          /\ version' \in [Uploads -> {"none", "pending", "completed", "failed"}]
          /\ retained' \in SUBSET Uploads
          /\ purger' \in [Assets -> {None} \cup
                            [step : {"delete", "finalize"}, todo : SUBSET Objects,
                             batch : SUBSET Objects]]
      BY <2>24 DEF PurgeFinalize
    <3> QED
      BY <2>24, <3>3, <3>4 DEF PurgeFinalize
  <2>25. ASSUME NEW a \in Assets,
               PurgeDone(a)
        PROVE  TypeOK'
    BY <2>25, ConfigAssumption DEF PurgeDone
  <2>26. ASSUME NEW a \in Assets,
               PurgeAbort(a)
        PROVE  TypeOK'
    BY <2>26, ConfigAssumption DEF PurgeAbort
  <2>27. CASE UNCHANGED vars
    BY <2>27 DEF vars
  <2> HIDE DEF TypeOK, assetVars, sessionVars, objectVars, purgeVars
  <2> QED
    BY <2>1, <2>2, <2>3, <2>4, <2>5, <2>6, <2>7, <2>8, <2>9, <2>10, <2>11, <2>12, <2>13, <2>14, <2>15, <2>16, <2>17, <2>18, <2>19, <2>20, <2>21, <2>22, <2>23, <2>24, <2>25, <2>26, <2>27
       DEF Next, ClientNext, WorkerNext, SweepNext, LifecycleNext
<1> QED
  BY <1>1, <1>2, PTL DEF Spec

-----------------------------------------------------------------------------
(* The ledger *)

\* The rows the ledger is about agree with each other: only committed uploads
\* have a version, and a version's original is retained until it is marked.
RowsConsistent ==
    /\ \A u \in retained : state[u] = "committed"
    /\ \A u \in Uploads :
          version[u] # "none" =>
             state[u] = "committed" /\ (u \in purged \/ u \in retained)

\* A sweep entry, however old, still names the bytes that marking it releases,
\* unless another sweeper has marked it or its rows are gone.
SweepEntryExact ==
    \A w \in Sweepers :
        sweep[w] # None =>
            /\ state[sweep[w].upload] # "none"
            /\ sweep[w].versioned /\ Unmarked(sweep[w].upload) =>
                  /\ sweep[w].upload \in retained
                  /\ sweep[w].bytes = bytes[sweep[w].upload]

\* The inductive invariant.
LedgerInv ==
    TypeOK /\ LedgerExact /\ QuotaRespected /\ RowsConsistent /\ SweepEntryExact

\* What a step of the ledger must leave true.
Kept == LedgerExact' /\ QuotaRespected' /\ RowsConsistent' /\ SweepEntryExact'

ledgerVars == <<state, bytes, purged, version, retained, reserved, stored, sweep>>

\* Steps that touch neither the rows nor the counters nor the sweep.
LEMMA FrameKeepsLedger ==
  ASSUME LedgerInv, UNCHANGED ledgerVars
  PROVE  Kept
BY DEF LedgerInv, Kept, ledgerVars, LedgerExact, QuotaRespected, OpenSessions,
       RowsConsistent, SweepEntryExact, Unmarked, RowExists

\* Admission charges the new session and releases exactly the sessions it
\* expires (CreateUploadSession, reserveQuota, reclaimExpiredSessions).
LEMMA CreateKeepsLedger ==
  ASSUME LedgerInv, TypeOK', NEW a \in Assets, NEW u \in Uploads,
         NEW b \in 1..MaxUploadBytes, Create(a, u, b)
  PROVE  Kept
<1> DEFINE lapsed == {v \in Uploads : owner[v] = a /\ Lapsed(v)}
           left   == Release(reserved, Bytes(bytes, lapsed))
           still  == OpenSessions \ lapsed
<1> USE DEF LedgerInv
<1>1. state[u] = "none" /\ u \notin OpenSessions /\ u \notin retained
  BY DEF Create, OpenSessions, RowsConsistent
<1>2. lapsed \subseteq OpenSessions /\ IsFiniteSet(OpenSessions)
  BY UploadBytesType DEF Lapsed, OpenSessions
<1>3. left = Bytes(bytes, still)
  <2>1. /\ Bytes(bytes, lapsed) <= Bytes(bytes, OpenSessions)
        /\ Bytes(bytes, still) = Bytes(bytes, OpenSessions) - Bytes(bytes, lapsed)
    BY <1>2, ConfigAssumption, BytesRemove
  <2>2. reserved = Bytes(bytes, OpenSessions)
    BY DEF LedgerExact
  <2>3. reserved \in Nat /\ Bytes(bytes, lapsed) \in Nat
    BY UploadBytesType DEF TypeOK
  <2> HIDE DEF lapsed, still
  <2>4. left = reserved - Bytes(bytes, lapsed)
    BY <2>1, <2>2, <2>3, ReleaseType
  <2> QED
    BY <2>1, <2>2, <2>4
<1>4. OpenSessions' = still \cup {u}
  <2>1. /\ state \in [Uploads -> {"none", "created", "committed", "cancelled",
                                  "expired", "gone"}]
        /\ state' = [v \in Uploads |-> CASE v = u        -> "created"
                                         [] v \in lapsed -> "expired"
                                         [] OTHER        -> state[v]]
    BY DEF Create, TypeOK
  <2>2. u \notin lapsed
    BY <1>1 DEF Lapsed
  <2>3. ASSUME NEW v \in Uploads
        PROVE  state'[v] = "created" <=> v = u \/ (state[v] = "created" /\ v \notin lapsed)
    <3> HIDE DEF lapsed
    <3>1. CASE v = u
      BY <2>1, <2>2, <3>1
    <3>2. CASE v # u /\ v \in lapsed
      BY <2>1, <3>2
    <3>3. CASE v # u /\ v \notin lapsed
      BY <2>1, <3>3
    <3> QED
      BY <3>1, <3>2, <3>3
  <2> QED
    BY <2>3 DEF OpenSessions
<1>5. bytes' = [bytes EXCEPT ![u] = b] /\ bytes'[u] = b
  BY DEF Create, TypeOK
<1>6. Bytes(bytes', still \cup {u}) = Bytes(bytes, still) + b
  <2>1. IsFiniteSet(still) /\ u \notin still
    BY <1>1, <1>2, FS_Difference
  <2>2. Bytes(bytes', still) = Bytes(bytes, still)
    <3>1. \A v \in still : bytes'[v] = bytes[v]
      BY <1>1, <1>5 DEF OpenSessions, TypeOK
    <3> QED
      BY <3>1, BytesAgree
  <2>3. bytes'[u] \in 0..MaxUploadBytes
    BY <1>5
  <2>4. Bytes(bytes', still \cup {u}) = Bytes(bytes', still) + bytes'[u]
    BY <2>1, <2>3, ConfigAssumption, BytesPut
  <2> QED
    BY <1>5, <2>2, <2>4
<1>7. Bytes(bytes', retained) = Bytes(bytes, retained)
  <2>1. \A v \in retained : bytes'[v] = bytes[v]
    BY <1>1, <1>5 DEF TypeOK
  <2> QED
    BY <2>1, BytesAgree
<1>8. /\ reserved' = left + b
      /\ stored' = stored
      /\ retained' = retained
      /\ left + stored + b <= Quota
  BY DEF Create, WithinQuota
<1>9. LedgerExact'
  <2> HIDE DEF left, still
  <2> QED
    BY <1>3, <1>4, <1>6, <1>7, <1>8 DEF LedgerExact
<1>10. QuotaRespected'
  <2>1. left \in Nat
    BY UploadBytesType, ReleaseType DEF TypeOK
  <2> HIDE DEF left
  <2> QED
    BY <1>8, <2>1, ConfigAssumption DEF QuotaRespected, TypeOK
<1>11. RowsConsistent'
  <2>1. \A v \in Uploads : state[v] = "committed" => state'[v] = "committed"
    BY <1>1 DEF Create, Lapsed, TypeOK
  <2> QED
    BY <2>1 DEF Create, RowsConsistent, TypeOK
<1>12. SweepEntryExact'
  <2>1. \A v \in Uploads :
           state[v] # "none" => /\ state'[v] # "none"
                                /\ RowExists(v)' => RowExists(v)
                                /\ bytes'[v] = bytes[v]
    BY <1>1, <1>5 DEF Create, RowExists, Lapsed, TypeOK
  <2> QED
    BY <2>1 DEF Create, SweepEntryExact, Unmarked, TypeOK
<1> QED
  BY <1>9, <1>10, <1>11, <1>12 DEF Kept

\* A commit turns its reservation into stored bytes of the same size
\* (CommitUpload, convertReservationToStored).
LEMMA CommitKeepsLedger ==
  ASSUME LedgerInv, TypeOK', NEW c \in Clients, FinishCommit(c)
  PROVE  Kept
<1> DEFINE u == request[c].upload
<1> USE DEF LedgerInv
<1>1. u \in Uploads
  BY DEF FinishCommit, TypeOK
<1>2. state[u] = "created" /\ u \notin retained
  BY <1>1 DEF FinishCommit, Usable, RowsConsistent
<1>3. /\ state' = [state EXCEPT ![u] = "committed"]
      /\ version' = [version EXCEPT ![u] = "pending"]
      /\ retained' = retained \cup {u}
      /\ reserved' = Release(reserved, bytes[u])
      /\ stored' = stored + bytes[u]
      /\ UNCHANGED <<bytes, purged, sweep>>
  BY DEF FinishCommit, sessionVars
<1> HIDE DEF u
<1>4. bytes[u] \in 0..MaxUploadBytes /\ bytes[u] \in Nat
  BY <1>1, ConfigAssumption DEF TypeOK
<1>5. /\ IsFiniteSet(OpenSessions) /\ IsFiniteSet(retained)
      /\ u \in OpenSessions
      /\ OpenSessions' = OpenSessions \ {u}
  <2>1. OpenSessions \in SUBSET Uploads /\ retained \in SUBSET Uploads
    BY DEF OpenSessions, TypeOK
  <2>2. OpenSessions' = OpenSessions \ {u}
    BY <1>1, <1>3 DEF OpenSessions, TypeOK
  <2> QED
    BY <1>1, <1>2, <2>1, <2>2, UploadBytesType DEF OpenSessions
<1>6. /\ bytes[u] <= Bytes(bytes, OpenSessions)
      /\ Bytes(bytes, OpenSessions \ {u}) = Bytes(bytes, OpenSessions) - bytes[u]
  BY <1>4, <1>5, ConfigAssumption, BytesTake
<1>7. Bytes(bytes, retained \cup {u}) = Bytes(bytes, retained) + bytes[u]
  BY <1>2, <1>4, <1>5, ConfigAssumption, BytesPut
<1>8. reserved' = reserved - bytes[u] /\ reserved = Bytes(bytes, OpenSessions)
  BY <1>3, <1>4, <1>6, ReleaseType DEF LedgerExact, TypeOK
<1>9. LedgerExact'
  BY <1>3, <1>5, <1>6, <1>7, <1>8 DEF LedgerExact
<1>10. QuotaRespected'
  BY <1>3, <1>4, <1>8, ConfigAssumption DEF QuotaRespected, TypeOK
<1>11. RowsConsistent'
  BY <1>1, <1>3 DEF RowsConsistent, TypeOK
<1>12. SweepEntryExact'
  BY <1>1, <1>2, <1>3 DEF SweepEntryExact, Unmarked, RowExists, TypeOK
<1> QED
  BY <1>9, <1>10, <1>11, <1>12 DEF Kept

\* A cancelled or expired session gives back its reservation and no more
\* (transitionOpenUploadSession, expireUploadSession, releaseReservation).
LEMMA CloseKeepsLedger ==
  ASSUME LedgerInv, TypeOK', NEW u \in Uploads,
         NEW target \in {"cancelled", "expired"}, Close(u, target)
  PROVE  Kept
<1> USE DEF LedgerInv
<1>1. state[u] = "created" /\ u \notin retained
  BY DEF Close, Closable, RowsConsistent
<1>2. /\ state' = [state EXCEPT ![u] = target]
      /\ reserved' = Release(reserved, bytes[u])
      /\ UNCHANGED <<bytes, purged, version, retained, stored, sweep>>
  BY DEF Close, sessionVars
<1>3. bytes[u] \in 0..MaxUploadBytes /\ bytes[u] \in Nat
  BY ConfigAssumption DEF TypeOK
<1>4. /\ IsFiniteSet(OpenSessions)
      /\ u \in OpenSessions
      /\ OpenSessions' = OpenSessions \ {u}
  <2>1. OpenSessions \in SUBSET Uploads
    BY DEF OpenSessions
  <2>2. OpenSessions' = OpenSessions \ {u}
    BY <1>2 DEF OpenSessions, TypeOK
  <2> QED
    BY <1>1, <2>1, <2>2, UploadBytesType DEF OpenSessions
<1>5. /\ bytes[u] <= Bytes(bytes, OpenSessions)
      /\ Bytes(bytes, OpenSessions \ {u}) = Bytes(bytes, OpenSessions) - bytes[u]
  BY <1>3, <1>4, ConfigAssumption, BytesTake
<1>6. reserved' = reserved - bytes[u] /\ reserved = Bytes(bytes, OpenSessions)
  BY <1>2, <1>3, <1>5, ReleaseType DEF LedgerExact, TypeOK
<1>7. LedgerExact'
  BY <1>2, <1>4, <1>5, <1>6 DEF LedgerExact
<1>8. QuotaRespected'
  BY <1>2, <1>3, <1>6, ConfigAssumption DEF QuotaRespected, TypeOK
<1>9. RowsConsistent'
  BY <1>1, <1>2 DEF RowsConsistent, TypeOK
<1>10. SweepEntryExact'
  BY <1>1, <1>2 DEF SweepEntryExact, Unmarked, RowExists, TypeOK
<1> QED
  BY <1>7, <1>8, <1>9, <1>10 DEF Kept

\* A version reaches its outcome without moving a byte (CompleteAndPromote,
\* failMediaVersion).
LEMMA OutcomeKeepsLedger ==
  ASSUME LedgerInv, TypeOK', NEW u \in Uploads, CompleteVersion(u) \/ FailVersion(u)
  PROVE  Kept
<1> USE DEF LedgerInv
<1>1. UNCHANGED <<state, bytes, purged, retained, reserved, stored, sweep>>
  BY DEF CompleteVersion, FailVersion, sessionVars
<1>2. \A v \in Uploads : version'[v] # "none" => version[v] # "none"
  BY DEF CompleteVersion, FailVersion, TypeOK
<1>3. LedgerExact' /\ QuotaRespected' /\ SweepEntryExact'
  BY <1>1 DEF LedgerExact, QuotaRespected, OpenSessions, SweepEntryExact,
              Unmarked, RowExists
<1>4. RowsConsistent'
  BY <1>1, <1>2 DEF RowsConsistent
<1> QED
  BY <1>3, <1>4 DEF Kept

\* Listing an upload for reclamation records the bytes of its version
\* (ClaimPurgeableMediaObjects); the steps of a pass that only touch object
\* storage, or give up, record nothing.
LEMMA SweepPassKeepsLedger ==
  ASSUME LedgerInv, TypeOK', NEW w \in Sweepers,
         \/ \E u \in Uploads : SweepClaim(w, u)
         \/ SweepDeleteDerived(w) \/ SweepDeleteRaw(w) \/ SweepAbort(w)
  PROVE  Kept
<1> USE DEF LedgerInv
<1>1. UNCHANGED <<state, bytes, purged, version, retained, reserved, stored>>
  BY DEF SweepClaim, SweepDeleteDerived, SweepDeleteRaw, SweepAbort, sessionVars
<1>2. LedgerExact' /\ QuotaRespected' /\ RowsConsistent'
  BY <1>1 DEF LedgerExact, QuotaRespected, OpenSessions, RowsConsistent
<1>3. \A v \in Sweepers : v # w => sweep'[v] = sweep[v]
  BY DEF SweepClaim, SweepDeleteDerived, SweepDeleteRaw, SweepAbort, TypeOK
<1>4. sweep'[w] # None =>
        /\ state[sweep'[w].upload] # "none"
        /\ sweep'[w].versioned /\ Unmarked(sweep'[w].upload) =>
              /\ sweep'[w].upload \in retained
              /\ sweep'[w].bytes = bytes[sweep'[w].upload]
  <2>1. ASSUME NEW u \in Uploads, SweepClaim(w, u)
        PROVE  /\ sweep'[w].upload = u
               /\ state[u] # "none"
               /\ sweep'[w].versioned /\ Unmarked(u) =>
                    u \in retained /\ sweep'[w].bytes = bytes[u]
    <3>1. /\ sweep'[w].upload = u
          /\ sweep'[w].versioned => version[u] # "none"
          /\ version[u] # "none" => sweep'[w].bytes = bytes[u]
      <4>1. CASE version[u] = "none"
        <5>1. sweep'[w] = [step |-> "raw", upload |-> u, versioned |-> FALSE,
                           bytes |-> 0]
          BY <2>1, <4>1 DEF SweepClaim, TypeOK
        <5> QED
          BY <4>1, <5>1
      <4>2. CASE version[u] # "none"
        <5>1. sweep'[w] = [step |-> "derived", upload |-> u, versioned |-> TRUE,
                           bytes |-> bytes[u]]
          BY <2>1, <4>2 DEF SweepClaim, TypeOK
        <5> QED
          BY <4>2, <5>1
      <4> QED
        BY <4>1, <4>2
    <3>2. state[u] # "none"
      BY <2>1 DEF SweepClaim, Reclaimable, RowExists
    <3>3. version[u] # "none" /\ Unmarked(u) => u \in retained
      BY DEF Unmarked, RowsConsistent
    <3> QED
      BY <3>1, <3>2, <3>3
  <2>2. CASE SweepDeleteDerived(w) \/ SweepDeleteRaw(w)
    <3>1. /\ sweep[w] # None
          /\ sweep'[w].upload = sweep[w].upload
          /\ sweep'[w].versioned = sweep[w].versioned
          /\ sweep'[w].bytes = sweep[w].bytes
      BY <2>2 DEF SweepDeleteDerived, SweepDeleteRaw, TypeOK
    <3> QED
      BY <3>1 DEF SweepEntryExact
  <2>3. CASE SweepAbort(w)
    BY <2>3 DEF SweepAbort, TypeOK
  <2> QED
    BY <2>1, <2>2, <2>3
<1>5. SweepEntryExact'
  BY <1>1, <1>3, <1>4 DEF SweepEntryExact, Unmarked, RowExists
<1> QED
  BY <1>2, <1>5 DEF Kept

\* Marking releases the stored bytes of a version once, whichever of several
\* sweepers comes first (MarkMediaObjectsPurged, releaseStoredBytes).
LEMMA MarkKeepsLedger ==
  ASSUME LedgerInv, TypeOK', NEW w \in Sweepers, SweepMark(w)
  PROVE  Kept
<1> DEFINE u == sweep[w].upload
<1> USE DEF LedgerInv
<1>1. u \in Uploads /\ sweep[w] # None
  BY DEF SweepMark, TypeOK
<1>2. /\ UNCHANGED <<state, bytes, version, reserved>>
      /\ sweep' = [sweep EXCEPT ![w] = None]
  BY DEF SweepMark, sessionVars
<1>3. \A v \in Sweepers : sweep'[v] # None => v # w /\ sweep'[v] = sweep[v]
  BY <1>2 DEF TypeOK
<1>4. OpenSessions' = OpenSessions
  BY <1>2 DEF OpenSessions
<1>5. CASE Unmarked(u) /\ sweep[w].versioned
  <2>1. /\ purged' = purged \cup {u}
        /\ retained' = retained \ {u}
        /\ stored' = Release(stored, sweep[w].bytes)
    BY <1>5 DEF SweepMark
  <2>2. u \in retained /\ sweep[w].bytes = bytes[u]
    BY <1>1, <1>5 DEF SweepEntryExact
  <2> HIDE DEF u
  <2>3. bytes[u] \in 0..MaxUploadBytes /\ bytes[u] \in Nat
    BY <1>1, ConfigAssumption DEF TypeOK
  <2>4. IsFiniteSet(retained)
    BY UploadBytesType DEF TypeOK
  <2>5. /\ bytes[u] <= Bytes(bytes, retained)
        /\ Bytes(bytes, retained \ {u}) = Bytes(bytes, retained) - bytes[u]
    BY <2>2, <2>3, <2>4, ConfigAssumption, BytesTake
  <2>6. stored' = stored - bytes[u] /\ stored = Bytes(bytes, retained)
    BY <2>1, <2>2, <2>3, <2>5, ReleaseType DEF LedgerExact, TypeOK
  <2>7. LedgerExact'
    BY <1>2, <1>4, <2>1, <2>5, <2>6 DEF LedgerExact
  <2>8. QuotaRespected'
    BY <1>2, <2>3, <2>6, ConfigAssumption DEF QuotaRespected, TypeOK
  <2>9. RowsConsistent'
    BY <1>2, <2>1 DEF RowsConsistent
  <2>10. SweepEntryExact'
    BY <1>2, <1>3, <2>1 DEF SweepEntryExact, Unmarked, RowExists
  <2> QED
    BY <2>7, <2>8, <2>9, <2>10 DEF Kept
<1>6. CASE ~(Unmarked(u) /\ sweep[w].versioned)
  <2>1. UNCHANGED <<retained, stored>> /\ purged \subseteq purged'
    BY <1>6 DEF SweepMark
  <2>2. LedgerExact' /\ QuotaRespected' /\ RowsConsistent'
    BY <1>2, <1>4, <2>1 DEF LedgerExact, QuotaRespected, RowsConsistent
  <2>3. SweepEntryExact'
    BY <1>2, <1>3, <2>1 DEF SweepEntryExact, Unmarked, RowExists
  <2> QED
    BY <2>2, <2>3 DEF Kept
<1> QED
  BY <1>5, <1>6

\* Removing the media rows of an asset releases its open reservations and its
\* retained originals, both exactly (FinalizeLifecyclePurgeAsset).
LEMMA PurgeKeepsLedger ==
  ASSUME LedgerInv, TypeOK', NEW a \in Assets, PurgeFinalize(a)
  PROVE  Kept
<1> DEFINE mine == UploadsOf(a)
           open == {u \in mine : state[u] = "created"}
           kept == {u \in mine : u \in retained}
<1> USE DEF LedgerInv
<1>1. /\ state' = [u \in Uploads |-> IF u \in mine THEN "gone" ELSE state[u]]
      /\ version' = [u \in Uploads |-> IF u \in mine THEN "none" ELSE version[u]]
      /\ retained' = retained \ mine
      /\ reserved' = Release(reserved, Bytes(bytes, open))
      /\ stored' = Release(stored, Bytes(bytes, kept))
      /\ UNCHANGED <<bytes, purged, sweep>>
  BY DEF PurgeFinalize, sessionVars
<1>2. /\ mine \subseteq Uploads
      /\ open \subseteq OpenSessions
      /\ kept \subseteq retained
  BY DEF UploadsOf, OpenSessions
<1>3. /\ OpenSessions' = OpenSessions \ open
      /\ retained' = retained \ kept
  BY <1>1, <1>2 DEF OpenSessions, TypeOK
<1>4. /\ IsFiniteSet(OpenSessions) /\ IsFiniteSet(retained)
      /\ Bytes(bytes, open) \in Nat /\ Bytes(bytes, kept) \in Nat
  BY <1>2, UploadBytesType DEF OpenSessions, TypeOK
<1> HIDE DEF open, kept
<1>5. /\ Bytes(bytes, open) <= Bytes(bytes, OpenSessions)
      /\ Bytes(bytes, OpenSessions \ open)
            = Bytes(bytes, OpenSessions) - Bytes(bytes, open)
  BY <1>2, <1>4, ConfigAssumption, BytesRemove
<1>6. /\ Bytes(bytes, kept) <= Bytes(bytes, retained)
      /\ Bytes(bytes, retained \ kept)
            = Bytes(bytes, retained) - Bytes(bytes, kept)
  BY <1>2, <1>4, ConfigAssumption, BytesRemove
<1>7. /\ reserved' = reserved - Bytes(bytes, open)
      /\ stored' = stored - Bytes(bytes, kept)
      /\ reserved = Bytes(bytes, OpenSessions)
      /\ stored = Bytes(bytes, retained)
  BY <1>1, <1>4, <1>5, <1>6, ReleaseType DEF LedgerExact, TypeOK
<1>8. LedgerExact'
  BY <1>1, <1>3, <1>5, <1>6, <1>7 DEF LedgerExact
<1>9. QuotaRespected'
  BY <1>4, <1>7, ConfigAssumption DEF QuotaRespected, TypeOK
<1>10. RowsConsistent'
  BY <1>1 DEF RowsConsistent, TypeOK
<1>11. SweepEntryExact'
  <2>1. ASSUME NEW v \in Uploads, state[v] # "none"
        PROVE  /\ state'[v] # "none"
               /\ Unmarked(v)' => Unmarked(v)
               /\ Unmarked(v)' /\ v \in retained => v \in retained'
    BY <1>1, <2>1 DEF Unmarked, RowExists
  <2> QED
    BY <1>1, <2>1 DEF SweepEntryExact, TypeOK
<1> QED
  BY <1>8, <1>9, <1>10, <1>11 DEF Kept

\* LedgerInv is inductive: it holds of a new organization and every step of
\* every request, sweeper and purge keeps it.
THEOREM LedgerInvariant == Spec => []LedgerInv
<1>1. Init => LedgerInv
  <2> SUFFICES ASSUME Init PROVE LedgerInv
    OBVIOUS
  <2>1. TypeOK
    BY ConfigAssumption, IdentityAssumption DEF Init, TypeOK
  <2>2. OpenSessions = {} /\ retained = {} /\ reserved = 0 /\ stored = 0
    BY DEF Init, OpenSessions
  <2>3. LedgerExact
    BY <2>2, BytesEmpty DEF LedgerExact
  <2>4. QuotaRespected
    BY <2>2, ConfigAssumption DEF QuotaRespected
  <2>5. RowsConsistent /\ SweepEntryExact
    BY DEF Init, RowsConsistent, SweepEntryExact
  <2> QED
    BY <2>1, <2>3, <2>4, <2>5 DEF LedgerInv
<1>2. LedgerInv /\ TypeOK' /\ [Next]_vars => LedgerInv'
  <2> SUFFICES ASSUME LedgerInv, TypeOK', [Next]_vars PROVE Kept
    BY DEF LedgerInv, Kept
  <2>1. ASSUME NEW a \in Assets, NEW u \in Uploads, NEW b \in 1..MaxUploadBytes,
               Create(a, u, b)
        PROVE  Kept
    BY <2>1, CreateKeepsLedger
  <2>2. ASSUME NEW u \in Uploads, NEW content \in {"exact", "other"}, Put(u, content)
        PROVE  Kept
    BY <2>2, FrameKeepsLedger DEF Put, ledgerVars, sessionVars
  <2>3. ASSUME NEW c \in Clients, NEW op \in {"refresh", "commit"},
               NEW u \in Uploads, BeginRequest(c, op, u)
        PROVE  Kept
    BY <2>3, FrameKeepsLedger DEF BeginRequest, ledgerVars, sessionVars
  <2>4. ASSUME NEW c \in Clients, FinishRefresh(c) \/ EndRequest(c)
        PROVE  Kept
    BY <2>4, FrameKeepsLedger DEF FinishRefresh, EndRequest, ledgerVars, sessionVars
  <2>5. ASSUME NEW c \in Clients, FinishCommit(c)
        PROVE  Kept
    BY <2>5, CommitKeepsLedger
  <2>6. ASSUME NEW u \in Uploads, NEW target \in {"cancelled", "expired"},
               Close(u, target)
        PROVE  Kept
    BY <2>6, CloseKeepsLedger
  <2>7. ASSUME NEW u \in Uploads, CompleteVersion(u) \/ FailVersion(u)
        PROVE  Kept
    BY <2>7, OutcomeKeepsLedger
  <2>8. ASSUME NEW u \in Uploads, WriteDerivative(u) \/ DiscardDerivative(u)
        PROVE  Kept
    BY <2>8, FrameKeepsLedger
       DEF WriteDerivative, DiscardDerivative, ledgerVars, sessionVars
  <2>9. ASSUME NEW w \in Sweepers,
               \/ \E u \in Uploads : SweepClaim(w, u)
               \/ SweepDeleteDerived(w) \/ SweepDeleteRaw(w) \/ SweepAbort(w)
        PROVE  Kept
    BY <2>9, SweepPassKeepsLedger
  <2>10. ASSUME NEW w \in Sweepers, SweepMark(w)
         PROVE  Kept
    BY <2>10, MarkKeepsLedger
  <2>11. ASSUME NEW a \in Assets,
                \/ SoftDelete(a) \/ Restore(a) \/ StartPurge(a) \/ PurgeList(a)
                \/ PurgeMark(a) \/ PurgeDone(a) \/ PurgeAbort(a)
         PROVE  Kept
    BY <2>11, FrameKeepsLedger
       DEF SoftDelete, Restore, StartPurge, PurgeList, PurgeMark, PurgeDone,
           PurgeAbort, ledgerVars, sessionVars
  <2>12. ASSUME NEW a \in Assets, NEW o \in Objects, PurgeDelete(a, o)
         PROVE  Kept
    BY <2>12, FrameKeepsLedger DEF PurgeDelete, ledgerVars, sessionVars
  <2>13. ASSUME NEW a \in Assets, PurgeFinalize(a)
         PROVE  Kept
    BY <2>13, PurgeKeepsLedger
  <2>14. CASE Tick
    BY <2>14, FrameKeepsLedger DEF Tick, ledgerVars, sessionVars
  <2>15. CASE UNCHANGED vars
    BY <2>15, FrameKeepsLedger DEF vars, ledgerVars, sessionVars
  <2> QED
    BY <2>1, <2>2, <2>3, <2>4, <2>5, <2>6, <2>7, <2>8, <2>9, <2>10, <2>11,
       <2>12, <2>13, <2>14, <2>15
       DEF Next, ClientNext, WorkerNext, SweepNext, LifecycleNext
<1> QED
  BY <1>1, <1>2, TypeCorrect, PTL DEF Spec

\* The two usage counters are exactly the bytes of the open sessions and of the
\* retained originals, and together never exceed the quota, along every
\* interleaving of requests, sweepers and purges.
THEOREM LedgerCorrect == Spec => [](LedgerExact /\ QuotaRespected)
<1>1. LedgerInv => LedgerExact /\ QuotaRespected
  BY DEF LedgerInv
<1> QED
  BY <1>1, LedgerInvariant, PTL

-----------------------------------------------------------------------------
(* The abstract ledger *)

\* The abstract ledger sums the same bytes.
LEMMA SameBytes ==
  ASSUME NEW b, NEW S
  PROVE  Ledger!Bytes(b, S) = Bytes(b, S)
BY DEF Ledger!Bytes, Ledger!Units, Ledger!Cardinality, Bytes, Units, Cardinality

\* The hold of an upload depends on its session state and on raw_retained only.
LEMMA HoldValue ==
  ASSUME RowsConsistent, NEW u \in Uploads
  PROVE  /\ Hold \in [Uploads -> {"free", "reserved", "stored", "released"}]
         /\ Hold[u] = IF state[u] = "none" THEN "free"
                      ELSE IF state[u] = "created" THEN "reserved"
                      ELSE IF u \in retained THEN "stored" ELSE "released"
BY DEF Hold, RowsConsistent

\* Nothing that leaves sessions, retained originals and counters alone is
\* visible in the abstract ledger.
LEMMA FrameStutters ==
  ASSUME UNCHANGED <<state, bytes, retained, reserved, stored>>
  PROVE  UNCHANGED Ledger!ledger
BY DEF Ledger!ledger, Hold

\* A step of the abstract ledger, or none.
Simulated == Ledger!Next \/ UNCHANGED Ledger!ledger

\* CreateUploadSession admits an upload and releases those it expires.
LEMMA CreateAdmits ==
  ASSUME LedgerInv, LedgerInv', NEW a \in Assets, NEW u \in Uploads,
         NEW b \in 1..MaxUploadBytes, Create(a, u, b)
  PROVE  Ledger!Next
<1> DEFINE lapsed == {v \in Uploads : owner[v] = a /\ Lapsed(v)}
<1> USE DEF LedgerInv
<1>1. /\ state[u] = "none"
      /\ state' = [v \in Uploads |-> CASE v = u        -> "created"
                                       [] v \in lapsed -> "expired"
                                       [] OTHER        -> state[v]]
      /\ bytes' = [bytes EXCEPT ![u] = b]
      /\ retained' = retained
      /\ reserved' = Release(reserved, Bytes(bytes, lapsed)) + b
      /\ stored' = stored
  BY DEF Create
<1>2. u \notin lapsed /\ u \notin retained
  BY <1>1 DEF Lapsed, RowsConsistent
<1>3. \A v \in lapsed : state[v] = "created" /\ v \notin retained
  BY DEF Lapsed, RowsConsistent
<1>4. reserved' + stored' = (reserved + stored) - Bytes(bytes, lapsed) + b
  <2>1. /\ Bytes(bytes, lapsed) \in Nat
        /\ Bytes(bytes, lapsed) <= Bytes(bytes, OpenSessions)
    <3>1. lapsed \subseteq OpenSessions /\ lapsed \in SUBSET Uploads
          /\ OpenSessions \in SUBSET Uploads
      BY DEF Lapsed, OpenSessions
    <3> QED
      BY <3>1, UploadBytesType, ConfigAssumption, BytesRemove
  <2>2. reserved \in Nat /\ stored \in Nat /\ reserved = Bytes(bytes, OpenSessions)
    BY DEF TypeOK, LedgerExact
  <2> HIDE DEF lapsed
  <2>3. Release(reserved, Bytes(bytes, lapsed)) = reserved - Bytes(bytes, lapsed)
    BY <2>1, <2>2, ReleaseType
  <2> QED
    BY <1>1, <2>1, <2>2, <2>3
<1>5. Hold[u] = "free" /\ lapsed \subseteq {v \in Uploads : Hold[v] = "reserved"}
  BY <1>1, <1>3, HoldValue
<1>6. Hold' = [v \in Uploads |-> IF v = u THEN "reserved"
                                 ELSE IF v \in lapsed THEN "released" ELSE Hold[v]]
  <2>1. ASSUME NEW v \in Uploads
        PROVE  Hold'[v] = IF v = u THEN "reserved"
                          ELSE IF v \in lapsed THEN "released" ELSE Hold[v]
    <3>1. Hold'[v] = IF state'[v] = "none" THEN "free"
                     ELSE IF state'[v] = "created" THEN "reserved"
                     ELSE IF v \in retained' THEN "stored" ELSE "released"
      BY DEF Hold, RowsConsistent
    <3> HIDE DEF lapsed
    <3>2. CASE v = u
      BY <1>1, <1>2, <3>1, <3>2
    <3>3. CASE v # u /\ v \in lapsed
      BY <1>1, <1>3, <3>1, <3>3
    <3>4. CASE v # u /\ v \notin lapsed
      BY <1>1, <3>1, <3>4, HoldValue
    <3> QED
      BY <3>2, <3>3, <3>4
  <2> QED
    BY <2>1 DEF Hold
<1>7. reserved' + stored' <= Quota
  BY DEF QuotaRespected
<1>8. Ledger!Admit(u, b, lapsed)
  BY <1>1, <1>4, <1>5, <1>6, <1>7, SameBytes DEF Ledger!Admit
<1>9. lapsed \in SUBSET Uploads
  OBVIOUS
<1> HIDE DEF lapsed
<1> QED
  BY <1>8, <1>9 DEF Ledger!Next

\* CommitUpload stores what was reserved; the total charge does not move.
LEMMA CommitStores ==
  ASSUME LedgerInv, LedgerInv', NEW c \in Clients, FinishCommit(c)
  PROVE  Ledger!Next
<1> DEFINE u == request[c].upload
<1> USE DEF LedgerInv
<1>1. u \in Uploads
  BY DEF FinishCommit, TypeOK
<1>2. /\ state[u] = "created"
      /\ state' = [state EXCEPT ![u] = "committed"]
      /\ retained' = retained \cup {u}
      /\ reserved' = Release(reserved, bytes[u])
      /\ stored' = stored + bytes[u]
      /\ bytes' = bytes
  BY DEF FinishCommit, Usable, sessionVars
<1> HIDE DEF u
<1>3. reserved' + stored' = reserved + stored
  <2>1. bytes[u] \in 0..MaxUploadBytes /\ bytes[u] \in Nat
    BY <1>1, ConfigAssumption DEF TypeOK
  <2>2. bytes[u] <= Bytes(bytes, OpenSessions)
    <3>1. OpenSessions \in SUBSET Uploads /\ u \in OpenSessions
      BY <1>1, <1>2 DEF OpenSessions
    <3> QED
      BY <2>1, <3>1, UploadBytesType, ConfigAssumption, BytesTake
  <2>3. reserved \in Nat /\ stored \in Nat /\ reserved = Bytes(bytes, OpenSessions)
    BY DEF TypeOK, LedgerExact
  <2>4. Release(reserved, bytes[u]) = reserved - bytes[u]
    BY <2>1, <2>2, <2>3, ReleaseType
  <2> QED
    BY <1>2, <2>1, <2>3, <2>4
<1>4. Hold[u] = "reserved"
  BY <1>1, <1>2, HoldValue
<1>5. Hold' = [Hold EXCEPT ![u] = "stored"]
  <2>1. ASSUME NEW v \in Uploads
        PROVE  Hold'[v] = IF v = u THEN "stored" ELSE Hold[v]
    <3>1. Hold'[v] = IF state'[v] = "none" THEN "free"
                     ELSE IF state'[v] = "created" THEN "reserved"
                     ELSE IF v \in retained' THEN "stored" ELSE "released"
      BY DEF Hold, RowsConsistent
    <3>2. CASE v = u
      BY <1>1, <1>2, <3>1, <3>2 DEF TypeOK
    <3>3. CASE v # u
      BY <1>2, <3>1, <3>3, HoldValue DEF TypeOK
    <3> QED
      BY <3>2, <3>3
  <2> QED
    BY <2>1 DEF Hold
<1>6. Ledger!Store(u)
  BY <1>2, <1>3, <1>4, <1>5 DEF Ledger!Store
<1> QED
  BY <1>1, <1>6 DEF Ledger!Next

\* Every release of the code, of a reservation or of stored bytes, one upload
\* or many, is a release of held uploads of the abstract ledger: it suffices
\* that their rows stop holding and the total falls by their bytes.
LEMMA ReleaseReleases ==
  ASSUME LedgerInv, LedgerInv', NEW R \in SUBSET Uploads,
         \A u \in R : /\ state[u] = "created" \/ u \in retained
                      /\ state'[u] \notin {"none", "created"}
                      /\ u \notin retained',
         \A u \in Uploads \ R : /\ state'[u] = "none" <=> state[u] = "none"
                                /\ state'[u] = "created" <=> state[u] = "created"
                                /\ u \in retained' <=> u \in retained,
         bytes' = bytes,
         reserved' + stored' = (reserved + stored) - Bytes(bytes, R)
  PROVE  Ledger!Next
<1> USE DEF LedgerInv
<1>1. R \subseteq Ledger!Held
  BY HoldValue DEF Ledger!Held, RowsConsistent
<1>2. Hold' = [v \in Uploads |-> IF v \in R THEN "released" ELSE Hold[v]]
  <2>1. ASSUME NEW v \in Uploads
        PROVE  Hold'[v] = IF v \in R THEN "released" ELSE Hold[v]
    <3>1. Hold'[v] = IF state'[v] = "none" THEN "free"
                     ELSE IF state'[v] = "created" THEN "reserved"
                     ELSE IF v \in retained' THEN "stored" ELSE "released"
      BY DEF Hold, RowsConsistent
    <3>2. CASE v \in R
      BY <3>1, <3>2
    <3>3. CASE v \notin R
      BY <3>1, <3>3, HoldValue
    <3> QED
      BY <3>2, <3>3
  <2> QED
    BY <2>1 DEF Hold
<1>3. Ledger!ReleaseAll(R)
  BY <1>1, <1>2, SameBytes DEF Ledger!ReleaseAll
<1> QED
  BY <1>3 DEF Ledger!Next

\* Cancelling or expiring a session releases it.
LEMMA CloseReleases ==
  ASSUME LedgerInv, LedgerInv', NEW u \in Uploads,
         NEW target \in {"cancelled", "expired"}, Close(u, target)
  PROVE  Ledger!Next
<1> USE DEF LedgerInv
<1>1. /\ state[u] = "created"
      /\ state' = [state EXCEPT ![u] = target]
      /\ reserved' = Release(reserved, bytes[u])
      /\ UNCHANGED <<bytes, retained, stored>>
  BY DEF Close, Closable, sessionVars
<1>2. u \notin retained
  BY <1>1 DEF RowsConsistent
<1>3. reserved' + stored' = (reserved + stored) - Bytes(bytes, {u})
  <2>1. bytes[u] \in 0..MaxUploadBytes /\ bytes[u] \in Nat
    BY ConfigAssumption DEF TypeOK
  <2>2. bytes[u] <= Bytes(bytes, OpenSessions)
    <3>1. OpenSessions \in SUBSET Uploads /\ u \in OpenSessions
      BY <1>1 DEF OpenSessions
    <3> QED
      BY <2>1, <3>1, UploadBytesType, ConfigAssumption, BytesTake
  <2>3. reserved \in Nat /\ stored \in Nat /\ reserved = Bytes(bytes, OpenSessions)
    BY DEF TypeOK, LedgerExact
  <2>4. Release(reserved, bytes[u]) = reserved - bytes[u]
    BY <2>1, <2>2, <2>3, ReleaseType
  <2>5. Bytes(bytes, {u}) = bytes[u]
    BY <2>1, ConfigAssumption, BytesSingleton
  <2> QED
    BY <1>1, <2>1, <2>3, <2>4, <2>5
<1>4. \A v \in {u} : /\ state[v] = "created" \/ v \in retained
                     /\ state'[v] \notin {"none", "created"}
                     /\ v \notin retained'
  BY <1>1, <1>2 DEF TypeOK
<1>5. \A v \in Uploads \ {u} : /\ state'[v] = "none" <=> state[v] = "none"
                               /\ state'[v] = "created" <=> state[v] = "created"
                               /\ v \in retained' <=> v \in retained
  BY <1>1 DEF TypeOK
<1>6. {u} \in SUBSET Uploads
  OBVIOUS
<1> QED
  BY <1>1, <1>3, <1>4, <1>5, <1>6, ReleaseReleases

\* Marking a reclaimed version releases it, or releases nothing when another
\* sweeper was first, the upload never was a version, or its rows are gone.
LEMMA MarkReleases ==
  ASSUME LedgerInv, LedgerInv', NEW w \in Sweepers, SweepMark(w)
  PROVE  Ledger!Next \/ UNCHANGED Ledger!ledger
<1> DEFINE u == sweep[w].upload
<1> USE DEF LedgerInv
<1>1. u \in Uploads /\ sweep[w] # None
  BY DEF SweepMark, TypeOK
<1>2. UNCHANGED <<state, bytes, version, reserved>>
  BY DEF SweepMark, sessionVars
<1>3. CASE ~(Unmarked(u) /\ sweep[w].versioned)
  BY <1>2, <1>3, FrameStutters DEF SweepMark
<1>4. CASE Unmarked(u) /\ sweep[w].versioned
  <2>1. retained' = retained \ {u} /\ stored' = Release(stored, sweep[w].bytes)
    BY <1>4 DEF SweepMark
  <2>2. u \in retained /\ sweep[w].bytes = bytes[u]
    BY <1>1, <1>4 DEF SweepEntryExact
  <2>3. state[u] = "committed"
    BY <2>2 DEF RowsConsistent
  <2> HIDE DEF u
  <2>4. reserved' + stored' = (reserved + stored) - Bytes(bytes, {u})
    <3>1. bytes[u] \in 0..MaxUploadBytes /\ bytes[u] \in Nat
      BY <1>1, ConfigAssumption DEF TypeOK
    <3>2. bytes[u] <= Bytes(bytes, retained)
      <4>1. retained \in SUBSET Uploads
        BY DEF TypeOK
      <4> QED
        BY <2>2, <3>1, <4>1, UploadBytesType, ConfigAssumption, BytesTake
    <3>3. reserved \in Nat /\ stored \in Nat /\ stored = Bytes(bytes, retained)
      BY DEF TypeOK, LedgerExact
    <3>4. Release(stored, bytes[u]) = stored - bytes[u]
      BY <3>1, <3>2, <3>3, ReleaseType
    <3>5. Bytes(bytes, {u}) = bytes[u]
      BY <3>1, ConfigAssumption, BytesSingleton
    <3> QED
      BY <1>2, <2>1, <2>2, <3>1, <3>3, <3>4, <3>5
  <2>5. \A v \in {u} : /\ state[v] = "created" \/ v \in retained
                       /\ state'[v] \notin {"none", "created"}
                       /\ v \notin retained'
    BY <1>2, <2>1, <2>2, <2>3
  <2>6. \A v \in Uploads \ {u} : /\ state'[v] = "none" <=> state[v] = "none"
                                 /\ state'[v] = "created" <=> state[v] = "created"
                                 /\ v \in retained' <=> v \in retained
    BY <1>2, <2>1
  <2>7. {u} \in SUBSET Uploads
    BY <1>1
  <2> QED
    BY <1>2, <2>4, <2>5, <2>6, <2>7, ReleaseReleases
<1> QED
  BY <1>3, <1>4

\* A purge releases every upload of the asset that was still held.
LEMMA PurgeReleases ==
  ASSUME LedgerInv, LedgerInv', NEW a \in Assets, PurgeFinalize(a)
  PROVE  Ledger!Next
<1> DEFINE mine == UploadsOf(a)
           open == {u \in mine : state[u] = "created"}
           kept == {u \in mine : u \in retained}
<1> USE DEF LedgerInv
<1>1. /\ state' = [u \in Uploads |-> IF u \in mine THEN "gone" ELSE state[u]]
      /\ retained' = retained \ mine
      /\ reserved' = Release(reserved, Bytes(bytes, open))
      /\ stored' = Release(stored, Bytes(bytes, kept))
      /\ bytes' = bytes
  BY DEF PurgeFinalize, sessionVars
<1>2. /\ mine \in SUBSET Uploads
      /\ open \in SUBSET Uploads /\ open \subseteq OpenSessions
      /\ kept \in SUBSET Uploads /\ kept \subseteq retained
      /\ OpenSessions \in SUBSET Uploads /\ retained \in SUBSET Uploads
      /\ open \cap kept = {}
  BY DEF UploadsOf, OpenSessions, TypeOK, RowsConsistent
<1>3. \A u \in mine : state[u] # "none"
  BY DEF UploadsOf, RowExists
<1>4. \A u \in open \cup kept : /\ state[u] = "created" \/ u \in retained
                               /\ state'[u] \notin {"none", "created"}
                               /\ u \notin retained'
  BY <1>1, <1>2
<1>5. \A u \in Uploads \ (open \cup kept) :
        /\ state'[u] = "none" <=> state[u] = "none"
        /\ state'[u] = "created" <=> state[u] = "created"
        /\ u \in retained' <=> u \in retained
  BY <1>1, <1>2, <1>3
<1> HIDE DEF open, kept
<1>6. /\ Bytes(bytes, open) \in Nat /\ Bytes(bytes, kept) \in Nat
      /\ Bytes(bytes, open \cup kept) = Bytes(bytes, open) + Bytes(bytes, kept)
  BY <1>2, UploadBytesType, ConfigAssumption, BytesDisjoint
<1>7. /\ Bytes(bytes, open) <= Bytes(bytes, OpenSessions)
      /\ Bytes(bytes, kept) <= Bytes(bytes, retained)
  BY <1>2, UploadBytesType, ConfigAssumption, BytesRemove
<1>8. /\ reserved \in Nat /\ reserved = Bytes(bytes, OpenSessions)
      /\ stored \in Nat /\ stored = Bytes(bytes, retained)
  BY DEF TypeOK, LedgerExact
<1>9. /\ reserved' = reserved - Bytes(bytes, open)
      /\ stored' = stored - Bytes(bytes, kept)
  BY <1>1, <1>6, <1>7, <1>8, ReleaseType
<1>10. reserved' + stored' = (reserved + stored) - Bytes(bytes, open \cup kept)
  BY <1>6, <1>8, <1>9
<1>11. open \cup kept \in SUBSET Uploads
  BY <1>2
<1> QED
  BY <1>1, <1>4, <1>5, <1>10, <1>11, ReleaseReleases

\* Sessions, versions and counters implement the abstract ledger: every upload
\* is charged when admitted and released once, whatever path releases it.
THEOREM LedgerRefinement == Spec => ImplementsLedger
<1>1. Init => Ledger!Init
  <2> SUFFICES ASSUME Init PROVE Ledger!Init
    OBVIOUS
  <2>1. Hold = [u \in Uploads |-> "free"]
    BY DEF Init, Hold
  <2> QED
    BY <2>1 DEF Init, Ledger!Init
<1>2. LedgerInv /\ LedgerInv' /\ [Next]_vars => [Ledger!Next]_(Ledger!ledger)
  <2> SUFFICES ASSUME LedgerInv, LedgerInv', [Next]_vars
               PROVE  Simulated
    BY DEF Simulated
  <2>1. ASSUME NEW a \in Assets, NEW u \in Uploads, NEW b \in 1..MaxUploadBytes,
               Create(a, u, b)
        PROVE  Simulated
    BY <2>1, CreateAdmits DEF Simulated
  <2>2. ASSUME NEW c \in Clients, FinishCommit(c)
        PROVE  Simulated
    BY <2>2, CommitStores DEF Simulated
  <2>3. ASSUME NEW u \in Uploads, NEW target \in {"cancelled", "expired"},
               Close(u, target)
        PROVE  Simulated
    BY <2>3, CloseReleases DEF Simulated
  <2>4. ASSUME NEW w \in Sweepers, SweepMark(w)
        PROVE  Simulated
    BY <2>4, MarkReleases DEF Simulated
  <2>5. ASSUME NEW a \in Assets, PurgeFinalize(a)
        PROVE  Simulated
    BY <2>5, PurgeReleases DEF Simulated
  <2>6. ASSUME UNCHANGED <<state, bytes, retained, reserved, stored>>
        PROVE  Simulated
    BY <2>6, FrameStutters DEF Simulated
  <2>7. ASSUME NEW u \in Uploads,
               \/ \E content \in {"exact", "other"} : Put(u, content)
               \/ CompleteVersion(u) \/ FailVersion(u)
               \/ WriteDerivative(u) \/ DiscardDerivative(u)
        PROVE  Simulated
    BY <2>6, <2>7 DEF Put, CompleteVersion, FailVersion, WriteDerivative,
                      DiscardDerivative, sessionVars
  <2>8. ASSUME NEW c \in Clients,
               \/ \E op \in {"refresh", "commit"}, u \in Uploads : BeginRequest(c, op, u)
               \/ FinishRefresh(c) \/ EndRequest(c)
        PROVE  Simulated
    BY <2>6, <2>8 DEF BeginRequest, FinishRefresh, EndRequest, sessionVars
  <2>9. ASSUME NEW w \in Sweepers,
               \/ \E u \in Uploads : SweepClaim(w, u)
               \/ SweepDeleteDerived(w) \/ SweepDeleteRaw(w) \/ SweepAbort(w)
        PROVE  Simulated
    BY <2>6, <2>9 DEF SweepClaim, SweepDeleteDerived, SweepDeleteRaw, SweepAbort,
                      sessionVars
  <2>10. ASSUME NEW a \in Assets,
                \/ SoftDelete(a) \/ Restore(a) \/ StartPurge(a) \/ PurgeList(a)
                \/ \E o \in Objects : PurgeDelete(a, o)
                \/ PurgeMark(a) \/ PurgeDone(a) \/ PurgeAbort(a)
         PROVE  Simulated
    BY <2>6, <2>10 DEF SoftDelete, Restore, StartPurge, PurgeList, PurgeDelete,
                       PurgeMark, PurgeDone, PurgeAbort, sessionVars
  <2>11. CASE Tick
    BY <2>6, <2>11 DEF Tick, sessionVars
  <2>12. CASE UNCHANGED vars
    BY <2>6, <2>12 DEF vars, sessionVars
  <2>13. CASE ClientNext
    BY <2>1, <2>2, <2>3, <2>7, <2>8, <2>13 DEF ClientNext
  <2>14. CASE WorkerNext
    BY <2>7, <2>14 DEF WorkerNext
  <2>15. CASE SweepNext
    BY <2>3, <2>4, <2>9, <2>15 DEF SweepNext
  <2>16. CASE LifecycleNext
    BY <2>5, <2>10, <2>16 DEF LifecycleNext
  <2> QED
    BY <2>11, <2>12, <2>13, <2>14, <2>15, <2>16 DEF Next
<1> QED
  BY <1>1, <1>2, LedgerInvariant, PTL DEF Spec, ImplementsLedger, Ledger!Spec
=============================================================================
