------------------------ MODULE DecisionCacheTheorems ------------------------
(***************************************************************************)
(* For every number of concurrent evaluations, every lifetime and any      *)
(* unreliable epochs: an evaluation that read an epoch sees every grant    *)
(* change the epoch had announced when it began, and an answer is for the  *)
(* role set it was asked for.                                              *)
(*                                                                         *)
(* The argument: what an epoch announces only grows and never runs ahead   *)
(* of the database.  A key is therefore a promise: whatever is found or    *)
(* computed under it is at least as new as what the key's epochs announce. *)
(*                                                                         *)
(* And when every bump is lost, how old a place may be when an answer is   *)
(* given: each hand-over adds a lifetime or what an evaluation may take.   *)
(***************************************************************************)
EXTENDS DecisionCache, TLAPS

Steps == {"idle", "epochs", "lookup", "coalesced", "grants", "factEpoch", "fact",
          "fetching", "writeFact", "ancestors", "write", "answered"}

\* The steps at which the grants have been read, by this evaluation or another.
Computed == {"factEpoch", "fact", "fetching", "writeFact", "ancestors", "write", "answered"}

Requests == [pc : Steps, known : BOOLEAN, key : Key, factKey : Nat, trusted : SUBSET Epoch,
             floor : [Piece -> Nat], leader : BOOLEAN, result : Result, held : Nat]
Facts == [key : Nat, left : Nat, place : Nat \cup {NoPlace}, age : Nat]
Flights == [running : BOOLEAN, place : Nat \cup {NoPlace}, age : Nat]
Decisions == [key : Key, left : Nat, result : Result]

\* A result found under key k is as new as the epochs of k announce.
Fulfils(k, s) ==
    /\ s.user >= AnnouncedAt("user", k.user)
    /\ s.role >= AnnouncedAt("role", k.role)

\* Epoch number n of piece p was read after the change numbered f was announced.
ReadAfter(p, n, f, trusted) ==
    /\ n <= epoch(p)
    /\ f <= AnnouncedAt(p, epoch(p))
    /\ trusted => f <= AnnouncedAt(p, n)

RequestOK(q) ==
    /\ ReadAfter("user", q.key.user, q.floor["user"], "user" \in q.trusted)
    /\ ReadAfter("role", q.key.role, q.floor["role"], "role" \in q.trusted)
    /\ q.pc \in {"epochs", "lookup"} => "role" \notin q.trusted
    /\ q.pc \in Computed => Fulfils(q.key, q.result)
    /\ q.result.roles = q.key.roles

DecisionOK(d) ==
    /\ d.key.user <= epoch("user")
    /\ d.key.role <= epoch("role")
    /\ Fulfils(d.key, d.result)
    /\ d.result.roles = d.key.roles

\* What the epoch of p announces is committed and only grows.
Growing(p) ==
    /\ \A n \in 0..epoch(p) : AnnouncedAt(p, n) \in Nat /\ AnnouncedAt(p, n) <= db[p]
    /\ \A n \in 0..epoch(p) : AnnouncedAt(p, n) <= AnnouncedAt(p, epoch(p))

Inv ==
    /\ TypeOK
    /\ \A d \in due : d[2] <= db[d[1]]
    /\ Growing("user") /\ Growing("role")
    /\ \A r \in Request : RequestOK(request[r])
    /\ \A d \in decisions : DecisionOK(d)

\* The types, by the names used here.
LEMMA Types ==
  TypeOK <=> /\ db \in [Piece -> Nat]
             /\ bumped \in [Epoch -> Seq([Piece -> Nat])]
             /\ due \subseteq Piece \X Nat
             /\ facts \subseteq Facts
             /\ fetch \in Flights
             /\ decisions \subseteq Decisions
             /\ request \in [Request -> Requests]
BY DEF TypeOK, Facts, Flights, Decisions, Requests, Steps

\* An evaluation that has not begun promises nothing.
LEMMA IdleOK == ASSUME Inv PROVE Idle \in Requests /\ RequestOK(Idle)
<1>1. Idle \in Requests
  BY DEF Idle, Requests, Steps, Key, Result, NoKey, NoResult, NoPlace, Piece, Epoch
<1>2. epoch("user") \in Nat /\ epoch("role") \in Nat
  BY DEF Inv, TypeOK, epoch, Epoch
<1>3. /\ AnnouncedAt("user", 0) = 0 /\ AnnouncedAt("role", 0) = 0
      /\ AnnouncedAt("user", epoch("user")) \in Nat
      /\ AnnouncedAt("role", epoch("role")) \in Nat
  BY <1>2 DEF Inv, Growing, AnnouncedAt
<1>4. /\ ReadAfter("user", 0, 0, FALSE) /\ ReadAfter("role", 0, 0, FALSE)
  BY <1>2, <1>3 DEF ReadAfter
<1>5. /\ Idle.key.user = 0 /\ Idle.key.role = 0 /\ Idle.floor["user"] = 0
      /\ Idle.floor["role"] = 0 /\ Idle.trusted = {} /\ Idle.pc = "idle"
      /\ Idle.key.roles = 0 /\ Idle.result.roles = 0
  BY DEF Idle, NoKey, NoResult, Piece
<1> QED
  BY <1>1, <1>4, <1>5 DEF RequestOK, Computed, ReadAfter

\* A step that commits nothing and bumps nothing has to keep the promises of the
\* evaluations and of the cached decisions.
LEMMA EvaluationStep ==
  ASSUME Inv, UNCHANGED <<db, bumped, due>>,
         request' \in [Request -> Requests],
         \A r \in Request : RequestOK(request'[r]),
         decisions' \subseteq Decisions,
         \A d \in decisions' : DecisionOK(d),
         facts' \subseteq Facts, fetch' \in Flights
  PROVE  Inv'
<1>1. TypeOK'
  BY Types DEF Inv, TypeOK, Facts, Flights, Decisions, Requests, Steps
<1>2. \A p, n : AnnouncedAt(p, n)' = AnnouncedAt(p, n) /\ epoch(p)' = epoch(p)
  BY DEF AnnouncedAt, epoch, EpochOf
<1>3. Growing("user")' /\ Growing("role")'
  BY DEF Inv, Growing, AnnouncedAt, epoch
<1>4. \A r \in Request : RequestOK(request[r])'
  BY DEF RequestOK, ReadAfter, Fulfils, AnnouncedAt, epoch
<1>5. \A d \in decisions' : DecisionOK(d)'
  BY DEF DecisionOK, Fulfils, AnnouncedAt, epoch
<1> QED
  BY <1>1, <1>3, <1>4, <1>5 DEF Inv

\* The step of one evaluation that changes no cache.
LEMMA OneRequestStep ==
  ASSUME Inv, UNCHANGED <<db, bumped, due, decisions>>, NEW r \in Request,
         NEW q \in Requests, RequestOK(q),
         request' = [request EXCEPT ![r] = q],
         facts' \subseteq Facts, fetch' \in Flights
  PROVE  Inv'
<1>1. request' \in [Request -> Requests]
  BY Types DEF Inv
<1>2. \A s \in Request : RequestOK(request'[s])
  <2> TAKE s \in Request
  <2>1. CASE s = r
    BY <2>1, Types DEF Inv
  <2>2. CASE s # r
    BY <2>2, Types DEF Inv
  <2> QED
    BY <2>1, <2>2
<1> QED
  BY <1>1, <1>2, EvaluationStep, Types DEF Inv

-----------------------------------------------------------------------------
(* Writers *)

\* A change may only be announced after it was committed, so that committing
\* cannot break a promise.
LEMMA CommitStep == ASSUME Inv, NEW p \in Piece, Commit(p) PROVE Inv'
<1>1. TypeOK'
  BY DEF Inv, Commit, TypeOK
<1>2. \A q \in Piece : db[q] \in Nat /\ db'[q] \in Nat /\ db[q] <= db'[q]
  BY DEF Inv, TypeOK, Commit
<1>3. db'[p] = db[p] + 1
  BY DEF Inv, TypeOK, Commit
<1>4. \A d \in due' : d[2] <= db'[d[1]]
  BY <1>2, <1>3 DEF Inv, TypeOK, Commit
<1>5. Growing("user")' /\ Growing("role")'
  BY <1>2 DEF Inv, Growing, Commit, AnnouncedAt, epoch, Piece
<1>6. \A r \in Request : RequestOK(request[r])'
  BY DEF Inv, Commit, RequestOK, ReadAfter, Fulfils, AnnouncedAt, epoch
<1>7. \A d \in decisions' : DecisionOK(d)'
  BY DEF Inv, Commit, DecisionOK, Fulfils, AnnouncedAt, epoch
<1> QED
  BY <1>1, <1>4, <1>5, <1>6, <1>7 DEF Inv

\* A bump appends what the next epoch announces: no less than the last one, and
\* nothing that is not committed.
LEMMA BumpStep == ASSUME Inv, NEW d \in due, Bump(d) PROVE Inv'
<1> DEFINE e == EpochOf(d[1])
<1>1. d \in Piece \X Nat /\ d[2] <= db[d[1]] /\ e \in Epoch
  BY DEF Inv, TypeOK, EpochOf, Piece, Epoch
<1>2. \A q \in Piece : EpochOf(q) \in Epoch
  BY DEF EpochOf, Piece, Epoch
<1>3. \A q \in Piece : \A n \in 0..epoch(EpochOf(q)) : AnnouncedAt(q, n) \in Nat
  BY <1>2 DEF Inv, TypeOK, AnnouncedAt, epoch
<1>4. \A x \in Epoch : epoch(x) \in Nat
  BY DEF Inv, TypeOK, epoch
<1>5. \A q \in Piece : Announced(q) \in Nat
  BY <1>2, <1>3, <1>4 DEF Announced
<1>6. AnnouncedWith(d) \in [Piece -> Nat]
  BY <1>1, <1>5 DEF AnnouncedWith
<1>7. /\ bumped' = [bumped EXCEPT ![e] = Append(@, AnnouncedWith(d))]
      /\ due' \subseteq due
      /\ UNCHANGED <<db, facts, fetch, decisions, request>>
  BY DEF Bump
<1>8. TypeOK'
  <2>1. bumped' \in [Epoch -> Seq([Piece -> Nat])]
    BY <1>1, <1>6, <1>7 DEF Inv, TypeOK
  <2> QED
    BY <2>1, <1>7 DEF Inv, TypeOK
<1>9. ASSUME NEW p \in {"user", "role"}
      PROVE  /\ epoch(p)' >= epoch(p)
             /\ \A n \in 0..epoch(p) : AnnouncedAt(p, n)' = AnnouncedAt(p, n)
             /\ AnnouncedAt(p, epoch(p)) <= AnnouncedAt(p, epoch(p))'
             /\ Growing(p)'
  <2>0. EpochOf(p) = p /\ p \in Epoch /\ p \in Piece /\ Growing(p) /\ db' = db
    BY <1>7 DEF EpochOf, Epoch, Piece, Inv
  <2>1. CASE p # e
    <3>1. bumped'[p] = bumped[p]
      BY <1>7, <2>0, <2>1 DEF Inv, TypeOK
    <3>2. epoch(p)' = epoch(p) /\ \A n : AnnouncedAt(p, n)' = AnnouncedAt(p, n)
      BY <2>0, <3>1 DEF epoch, AnnouncedAt
    <3>3. AnnouncedAt(p, epoch(p))' = AnnouncedAt(p, epoch(p))
      BY <2>0, <3>1 DEF epoch, AnnouncedAt
    <3>4. Growing(p)'
      BY <2>0, <3>2, <3>3 DEF Growing
    <3>5. epoch(p) \in Nat /\ AnnouncedAt(p, epoch(p)) \in Nat
      BY <1>4, <2>0 DEF Growing
    <3> QED
      BY <3>2, <3>3, <3>4, <3>5
  <2>2. CASE p = e
    <3> DEFINE v == AnnouncedWith(d)[p]
               last == AnnouncedAt(p, epoch(p))
    <3>1. bumped'[p] = Append(bumped[p], AnnouncedWith(d)) /\ bumped[p] \in Seq([Piece -> Nat])
      BY <1>7, <2>0, <2>2 DEF Inv, TypeOK
    <3>2. /\ epoch(p)' = epoch(p) + 1
          /\ \A n \in 1..epoch(p) : bumped'[p][n] = bumped[p][n]
          /\ bumped'[p][epoch(p) + 1] = AnnouncedWith(d)
      BY <1>6, <3>1 DEF epoch
    <3>3. epoch(p) \in Nat /\ last \in Nat /\ last <= db[p] /\ db[p] \in Nat
      BY <1>4, <2>0 DEF Growing, Inv, TypeOK
    <3>4. v \in Nat /\ last <= v /\ v <= db[p]
      <4>1. v = IF p = d[1] /\ d[2] > Announced(p) THEN d[2] ELSE Announced(p)
        BY <2>0, <2>2 DEF AnnouncedWith
      <4>2. Announced(p) = last
        BY <2>0 DEF Announced
      <4>3. d[2] \in Nat
        BY <1>1
      <4> QED
        BY <1>1, <3>3, <4>1, <4>2, <4>3
    <3>5. \A n \in 0..epoch(p) : AnnouncedAt(p, n)' = AnnouncedAt(p, n)
      BY <2>0, <3>2, <3>3 DEF AnnouncedAt
    <3>6. AnnouncedAt(p, epoch(p))' = v
      <4>1. AnnouncedAt(p, epoch(p))' = bumped'[p][epoch(p) + 1][p]
        BY <2>0, <3>2, <3>3 DEF AnnouncedAt
      <4> QED
        BY <3>2, <4>1
    <3>7. \A n \in 0..epoch(p)' : AnnouncedAt(p, n)' \in Nat /\ AnnouncedAt(p, n)' <= v
      <4> SUFFICES ASSUME NEW n \in 0..(epoch(p) + 1)
                   PROVE  AnnouncedAt(p, n)' \in Nat /\ AnnouncedAt(p, n)' <= v
        BY <3>2
      <4>1. CASE n = epoch(p) + 1
        <5>1. AnnouncedAt(p, n)' = v
          BY <2>0, <3>2, <3>3, <4>1 DEF AnnouncedAt
        <5> QED
          BY <3>4, <5>1
      <4>2. CASE n \in 0..epoch(p)
        <5>1. AnnouncedAt(p, n)' = AnnouncedAt(p, n)
          BY <3>5, <4>2
        <5>2. AnnouncedAt(p, n) \in Nat /\ AnnouncedAt(p, n) <= last
          BY <2>0, <4>2 DEF Growing
        <5> QED
          BY <3>3, <3>4, <5>1, <5>2
      <4> QED
        BY <3>3, <4>1, <4>2
    <3> HIDE DEF v, last
    <3>8. Growing(p)'
      <4>1. \A n \in 0..epoch(p)' : AnnouncedAt(p, n)' \in Nat /\ AnnouncedAt(p, n)' <= db'[p]
        BY <2>0, <3>3, <3>4, <3>7
      <4>2. \A n \in 0..epoch(p)' : AnnouncedAt(p, n)' <= AnnouncedAt(p, epoch(p))'
        BY <3>6, <3>7
      <4> QED
        BY <4>1, <4>2 DEF Growing
    <3> QED
      BY <3>2, <3>3, <3>4, <3>5, <3>6, <3>8 DEF last
  <2> QED
    BY <2>1, <2>2
<1>10. ASSUME NEW p \in {"user", "role"}, NEW n \in Nat, n <= epoch(p)
       PROVE  /\ n <= epoch(p)'
              /\ AnnouncedAt(p, n)' = AnnouncedAt(p, n)
              /\ AnnouncedAt(p, n) \in Nat
              /\ AnnouncedAt(p, epoch(p)) \in Nat
              /\ AnnouncedAt(p, epoch(p))' \in Nat
  <2>1. epoch(p) \in Nat /\ epoch(p)' \in Nat /\ n \in 0..epoch(p)
    BY <1>4, <1>8, <1>10 DEF Epoch, TypeOK, epoch
  <2>2. Growing(p) /\ Growing(p)'
    BY <1>9 DEF Inv
  <2> QED
    BY <1>9, <1>10, <2>1, <2>2 DEF Growing
<1>11. ASSUME NEW p \in {"user", "role"}, NEW n \in Nat, NEW f \in Nat, NEW t \in BOOLEAN,
              ReadAfter(p, n, f, t)
       PROVE  ReadAfter(p, n, f, t)'
  <2>1. n <= epoch(p)
    BY <1>11 DEF ReadAfter
  <2>2. f <= AnnouncedAt(p, epoch(p))'
    BY <1>9, <1>10, <1>11, <2>1 DEF ReadAfter
  <2> QED
    BY <1>10, <1>11, <2>1, <2>2 DEF ReadAfter
<1>12. ASSUME NEW k \in Key, NEW s \in Result, Fulfils(k, s),
              k.user <= epoch("user"), k.role <= epoch("role")
       PROVE  Fulfils(k, s)'
  <2>1. k.user \in Nat /\ k.role \in Nat
    BY DEF Key
  <2> QED
    BY <1>10, <1>12, <2>1 DEF Fulfils
<1>13. ASSUME NEW r \in Request PROVE RequestOK(request[r])'
  <2> DEFINE q == request[r]
  <2>0. request'[r] = q
    BY <1>7
  <2>1. q \in Requests /\ RequestOK(q)
    BY Types DEF Inv
  <2>2. /\ q.key \in Key /\ q.result \in Result
        /\ q.key.user \in Nat /\ q.key.role \in Nat
        /\ q.floor["user"] \in Nat /\ q.floor["role"] \in Nat
    BY <2>1 DEF Requests, Key, Piece
  <2>3. /\ ("user" \in q.trusted) \in BOOLEAN
        /\ ("role" \in q.trusted) \in BOOLEAN
    OBVIOUS
  <2> HIDE DEF q
  <2>4. /\ ReadAfter("user", q.key.user, q.floor["user"], "user" \in q.trusted)
        /\ ReadAfter("role", q.key.role, q.floor["role"], "role" \in q.trusted)
        /\ q.key.user <= epoch("user") /\ q.key.role <= epoch("role")
    BY <2>1 DEF RequestOK, ReadAfter
  <2>5. q.pc \in Computed => Fulfils(q.key, q.result)
    BY <2>1 DEF RequestOK
  <2> QED
    BY <1>11, <1>12, <2>0, <2>1, <2>2, <2>3, <2>4, <2>5 DEF RequestOK, q
<1>14. ASSUME NEW x \in decisions PROVE DecisionOK(x)'
  <2>1. x \in Decisions /\ DecisionOK(x)
    BY Types DEF Inv
  <2>2. x.key \in Key /\ x.result \in Result /\ x.key.user \in Nat /\ x.key.role \in Nat
    BY <2>1 DEF Decisions, Key
  <2> QED
    BY <1>10, <1>12, <2>1, <2>2 DEF DecisionOK
<1>15. \A x \in due' : x[2] <= db'[x[1]]
  BY <1>7 DEF Inv
<1> QED
  BY <1>7, <1>8, <1>9, <1>13, <1>14, <1>15 DEF Inv

-----------------------------------------------------------------------------
(* One evaluation *)

\* What a step may rely on of the evaluation that takes it.
LEMMA RequestTypes ==
  ASSUME Inv, NEW r \in Request
  PROVE  /\ request[r] \in Requests /\ RequestOK(request[r])
         /\ request[r].key \in Key /\ request[r].result \in Result
         /\ request[r].floor \in [Piece -> Nat]
         /\ facts \subseteq Facts /\ fetch \in Flights
         /\ db \in [Piece -> Nat]
BY Types DEF Inv, Requests

\* An evaluation that moves on keeps its promises, if it does not claim to have
\* read grants it has not.
LEMMA PcStep ==
  ASSUME Inv, UNCHANGED <<db, bumped, due, decisions>>, NEW r \in Request, NEW x \in Steps,
         x \notin {"epochs", "lookup"},
         x \in Computed => request[r].pc \in Computed,
         request' = [request EXCEPT ![r].pc = x],
         facts' \subseteq Facts, fetch' \in Flights
  PROVE  Inv'
<1> DEFINE q == [request[r] EXCEPT !.pc = x]
<1>1. q \in Requests
  BY RequestTypes DEF Requests
<1>2. /\ q.key = request[r].key /\ q.floor = request[r].floor /\ q.result = request[r].result
      /\ q.trusted = request[r].trusted /\ q.pc = x
  BY RequestTypes DEF Requests
<1>3. request' = [request EXCEPT ![r] = q]
  OBVIOUS
<1> HIDE DEF q
<1>4. RequestOK(q)
  BY <1>2, RequestTypes DEF RequestOK
<1> QED
  BY <1>1, <1>3, <1>4, OneRequestStep

\* The epochs announce at least what they announced when the evaluation began.
LEMMA BeginStep == ASSUME Inv, NEW r \in Request, Begin(r) PROVE Inv'
<1> DEFINE now == db["roles"] % 2
           k == [NoKey EXCEPT !.roles = now]
           f == [p \in Piece |-> Announced(p)]
           S(known) == [NoResult EXCEPT !.roles = now,
                                        !.place = IF known THEN db["place"] ELSE NoPlace]
<1>1. PICK known \in Restores :
        request' = [request EXCEPT ![r] =
             [Idle EXCEPT !.pc = "epochs", !.known = known,
                          !.key = k, !.floor = f, !.result = S(known)]]
  BY DEF Begin
<1> DEFINE s == S(known)
           q == [Idle EXCEPT !.pc = "epochs", !.known = known,
                             !.key = k, !.floor = f, !.result = s]
<1>2. known \in BOOLEAN
  BY BoundsAssumption
<1>3. now \in Nat /\ db["place"] \in Nat
  BY RequestTypes DEF Piece
<1> HIDE DEF now
<1>4. f \in [Piece -> Nat]
  <2> SUFFICES ASSUME NEW p \in Piece PROVE Announced(p) \in Nat
    OBVIOUS
  <2>1. EpochOf(p) \in Epoch /\ p \in Piece
    BY DEF EpochOf, Piece, Epoch
  <2> QED
    BY <2>1 DEF Inv, TypeOK, Announced, AnnouncedAt, epoch
<1>5. /\ k \in Key /\ k.user = 0 /\ k.role = 0 /\ k.roles = now
      /\ s \in Result /\ s.roles = now
  BY <1>2, <1>3 DEF NoKey, NoResult, NoPlace, Key, Result
<1>6. /\ f["user"] = Announced("user") /\ f["role"] = Announced("role")
  BY DEF Piece
<1> HIDE DEF k, f, S
<1>7. /\ q.key = k /\ q.floor = f /\ q.result = s /\ q.trusted = {} /\ q.pc = "epochs"
      /\ q \in Requests
  BY <1>2, <1>4, <1>5 DEF Idle, Requests, Steps
<1>8. ASSUME NEW p \in {"user", "role"} PROVE ReadAfter(p, 0, Announced(p), FALSE)
  <2>1. epoch(p) \in Nat /\ EpochOf(p) = p /\ Growing(p)
    BY DEF Inv, TypeOK, epoch, Epoch, EpochOf
  <2>2. AnnouncedAt(p, epoch(p)) \in Nat
    BY <2>1 DEF Growing
  <2> QED
    BY <2>1, <2>2 DEF ReadAfter, Announced
<1>9. request' = [request EXCEPT ![r] = q] /\ UNCHANGED <<db, bumped, due, facts, fetch, decisions>>
  BY <1>1 DEF Begin
<1> HIDE DEF q, s
<1>10. RequestOK(q)
  BY <1>5, <1>6, <1>7, <1>8 DEF RequestOK, Computed, ReadAfter
<1> QED
  BY <1>7, <1>9, <1>10, OneRequestStep, RequestTypes

\* An epoch that is read is the current one, and one that is not is 0.
LEMMA ReadEpochsStep == ASSUME Inv, NEW r \in Request, ReadEpochs(r) PROVE Inv'
<1> DEFINE U(ok) == IF "user" \in ok THEN epoch("user") ELSE Unread
           A(ok) == IF "asset" \in ok THEN epoch("asset") ELSE Unread
<1>1. PICK ok \in SUBSET {"user", "asset"} :
        request' = [request EXCEPT ![r] = [@ EXCEPT
             !.pc = "lookup", !.trusted = ok,
             !.key = [request[r].key EXCEPT !.user = U(ok), !.asset = A(ok)]]]
  BY DEF ReadEpochs
<1> DEFINE k == [request[r].key EXCEPT !.user = U(ok), !.asset = A(ok)]
           q == [request[r] EXCEPT !.pc = "lookup", !.trusted = ok, !.key = k]
<1>2. U(ok) \in Nat /\ A(ok) \in Nat /\ U(ok) <= epoch("user")
  BY DEF Inv, TypeOK, epoch, Epoch, Unread
<1>3. "user" \in ok => U(ok) = epoch("user")
  OBVIOUS
<1> HIDE DEF U, A
<1>4. /\ k \in Key /\ k.user = U(ok)
      /\ k.role = request[r].key.role /\ k.roles = request[r].key.roles
  BY <1>2, RequestTypes DEF Key
<1>5. request' = [request EXCEPT ![r] = q] /\ UNCHANGED <<db, bumped, due, facts, fetch, decisions>>
  BY <1>1 DEF ReadEpochs
<1> HIDE DEF k
<1>6. /\ q.key = k /\ q.trusted = ok /\ q.pc = "lookup"
      /\ q.floor = request[r].floor /\ q.result = request[r].result
      /\ q \in Requests
  <2>1. ok \in SUBSET Epoch
    BY DEF Epoch
  <2>2. request[r] \in Requests
    BY RequestTypes
  <2>3. q \in Requests
    BY <1>4, <2>1, <2>2 DEF Requests, Steps
  <2>4. /\ q.key = k /\ q.trusted = ok /\ q.pc = "lookup"
        /\ q.floor = request[r].floor /\ q.result = request[r].result
    BY <2>2 DEF Requests
  <2> QED
    BY <2>3, <2>4
<1> HIDE DEF q
<1>7. "role" \notin ok
  OBVIOUS
<1>8. RequestOK(q)
  BY <1>2, <1>3, <1>4, <1>6, <1>7, RequestTypes DEF RequestOK, ReadAfter, Computed
<1> QED
  BY <1>5, <1>6, <1>8, OneRequestStep, RequestTypes

\* The key is complete once the role epoch is read.
LEMMA Keying ==
  ASSUME Inv, NEW r \in Request, request[r].pc = "lookup", NEW ok \in RoleEpochRead
  PROVE  LET q == Keyed(r, ok)
         IN /\ q \in Requests /\ q.key \in Key /\ q.key = KeyOf(r, ok)
            /\ ReadAfter("user", q.key.user, q.floor["user"], "user" \in q.trusted)
            /\ ReadAfter("role", q.key.role, q.floor["role"], "role" \in q.trusted)
            /\ q.result \in Result /\ q.result.roles = q.key.roles
<1> DEFINE k == KeyOf(r, ok)
           t == request[r].trusted \cup (IF ok THEN {"role"} ELSE {})
           n == IF ok THEN epoch("role") ELSE Unread
<1>1. ok \in BOOLEAN /\ epoch("role") \in Nat
  <2>1. ok \in BOOLEAN
    BY DEF RoleEpochRead
  <2>2. epoch("role") \in Nat
    BY DEF Inv, TypeOK, epoch, Epoch
  <2> QED
    BY <2>1, <2>2
<1>2. n \in Nat /\ n <= epoch("role")
  BY <1>1 DEF Unread
<1>3. k \in Key /\ k.user = request[r].key.user /\ k.roles = request[r].key.roles /\ k.role = n
  <2>1. k = [request[r].key EXCEPT !.role = n] /\ request[r].key \in Key
    BY RequestTypes DEF KeyOf
  <2> HIDE DEF k, n
  <2> QED
    BY <1>2, <2>1 DEF Key
<1>4. request[r].trusted \in SUBSET Epoch /\ "role" \notin request[r].trusted
  BY RequestTypes DEF Requests, RequestOK
<1>5. t \in SUBSET Epoch
  BY <1>4 DEF Epoch
<1>6. /\ ("role" \in t) => ok
      /\ ("user" \in t) <=> ("user" \in request[r].trusted)
  BY <1>4
<1> HIDE DEF k, t
<1> DEFINE q == [request[r] EXCEPT !.key = k, !.trusted = t]
<1>7. Keyed(r, ok) = q
  BY DEF Keyed, k, t
<1>8. /\ q \in Requests /\ q.key = k /\ q.trusted = t
      /\ q.floor = request[r].floor /\ q.result = request[r].result
  <2>1. request[r] \in Requests
    BY RequestTypes
  <2> QED
    BY <1>3, <1>5, <2>1 DEF Requests
<1> HIDE DEF q
<1>9. ReadAfter("user", k.user, q.floor["user"], "user" \in t)
  BY <1>3, <1>6, <1>8, RequestTypes DEF RequestOK, ReadAfter
<1>10. ReadAfter("role", k.role, q.floor["role"], "role" \in t)
  BY <1>2, <1>3, <1>6, <1>8, RequestTypes DEF RequestOK, ReadAfter
<1>11. q.result \in Result /\ q.result.roles = k.roles
  BY <1>3, <1>8, RequestTypes DEF RequestOK
<1> QED
  BY <1>3, <1>7, <1>8, <1>9, <1>10, <1>11 DEF k

\* An entry of the key keeps what the key promises.
LEMMA DecisionHitStep == ASSUME Inv, NEW r \in Request, DecisionHit(r) PROVE Inv'
<1>1. PICK ok \in RoleEpochRead, d \in decisions :
        /\ SameKey(d.key, KeyOf(r, ok))
        /\ request' = [request EXCEPT ![r] = [Keyed(r, ok) EXCEPT !.pc = "answered",
                                                                 !.result = d.result]]
  BY DEF DecisionHit
<1> DEFINE k == Keyed(r, ok)
           q == [k EXCEPT !.pc = "answered", !.result = d.result]
<1>2. /\ k \in Requests /\ k.key \in Key /\ k.key = KeyOf(r, ok)
      /\ ReadAfter("user", k.key.user, k.floor["user"], "user" \in k.trusted)
      /\ ReadAfter("role", k.key.role, k.floor["role"], "role" \in k.trusted)
  BY Keying DEF DecisionHit
<1>3. d \in Decisions /\ DecisionOK(d)
  BY Types DEF Inv
<1>4. d.key = k.key /\ d.result \in Result
  BY <1>1, <1>2, <1>3 DEF SameKey, Decisions
<1>5. request' = [request EXCEPT ![r] = q] /\ UNCHANGED <<db, bumped, due, facts, fetch, decisions>>
  BY <1>1 DEF DecisionHit
<1> HIDE DEF k
<1>6. /\ q \in Requests /\ q.pc = "answered" /\ q.key = k.key /\ q.result = d.result
      /\ q.trusted = k.trusted /\ q.floor = k.floor
  BY <1>2, <1>4 DEF Requests, Steps
<1> HIDE DEF q
<1>7. RequestOK(q)
  BY <1>2, <1>3, <1>4, <1>6 DEF RequestOK, DecisionOK
<1> QED
  BY <1>5, <1>6, <1>7, OneRequestStep, RequestTypes

\* Waiting for another evaluation, or leading one, claims nothing yet.
LEMMA DecisionMissStep == ASSUME Inv, NEW r \in Request, DecisionMiss(r) PROVE Inv'
<1> DEFINE Led(ok) == \E l \in Request : request[l].leader /\ SameKey(request[l].key, KeyOf(r, ok))
<1>1. PICK ok \in RoleEpochRead :
        request' = [request EXCEPT ![r] =
            [Keyed(r, ok) EXCEPT !.pc = IF Led(ok) THEN "coalesced" ELSE "grants",
                                 !.leader = ~Led(ok)]]
  BY DEF DecisionMiss
<1> DEFINE k == Keyed(r, ok)
           pc == IF Led(ok) THEN "coalesced" ELSE "grants"
           leads == ~Led(ok)
           q == [k EXCEPT !.pc = pc, !.leader = leads]
<1>2. /\ k \in Requests
      /\ ReadAfter("user", k.key.user, k.floor["user"], "user" \in k.trusted)
      /\ ReadAfter("role", k.key.role, k.floor["role"], "role" \in k.trusted)
      /\ k.result.roles = k.key.roles
  BY Keying DEF DecisionMiss
<1>3. pc \in {"coalesced", "grants"} /\ leads \in BOOLEAN
  OBVIOUS
<1>4. request' = [request EXCEPT ![r] = q] /\ UNCHANGED <<db, bumped, due, facts, fetch, decisions>>
  BY <1>1 DEF DecisionMiss
<1> HIDE DEF k, pc, leads, Led
<1>5. /\ q \in Requests /\ q.pc = pc /\ q.key = k.key /\ q.result = k.result
      /\ q.trusted = k.trusted /\ q.floor = k.floor
  BY <1>2, <1>3 DEF Requests, Steps
<1> HIDE DEF q
<1>6. RequestOK(q)
  BY <1>2, <1>3, <1>5 DEF RequestOK, Computed
<1> QED
  BY <1>4, <1>5, <1>6, OneRequestStep, RequestTypes

\* A decision that keeps its key's promise keeps that of everyone who waited for
\* it: they have the same key.
LEMMA ResolvedStep ==
  ASSUME Inv, UNCHANGED <<db, bumped, due, facts, fetch, decisions>>,
         NEW r \in Request, NEW s \in Result,
         Fulfils(request[r].key, s), s.roles = request[r].key.roles,
         request' = Resolved(r, s)
  PROVE  Inv'
<1>1. ASSUME NEW q \in Request PROVE request'[q] \in Requests /\ RequestOK(request'[q])
  <2>1. request[q] \in Requests /\ RequestOK(request[q])
    BY RequestTypes
  <2>2. CASE q = r
    <3>1. request'[q] = [request[q] EXCEPT !.pc = "write", !.leader = FALSE, !.result = s]
      BY <2>2 DEF Resolved
    <3> DEFINE x == request'[q]
    <3>2. /\ x \in Requests /\ x.pc = "write" /\ x.result = s /\ x.key = request[q].key
          /\ x.trusted = request[q].trusted /\ x.floor = request[q].floor
      BY <2>1, <3>1 DEF Requests, Steps
    <3> QED
      BY <2>1, <2>2, <3>2 DEF RequestOK
  <2>3. CASE q # r /\ request[q].pc = "coalesced" /\ SameKey(request[q].key, request[r].key)
    <3>1. request'[q] = [request[q] EXCEPT !.pc = "write", !.result = s]
      BY <2>3 DEF Resolved
    <3> DEFINE x == request'[q]
    <3>2. /\ x \in Requests /\ x.pc = "write" /\ x.result = s /\ x.key = request[q].key
          /\ x.trusted = request[q].trusted /\ x.floor = request[q].floor
      BY <2>1, <3>1 DEF Requests, Steps
    <3>3. request[q].key = request[r].key
      BY <2>3 DEF SameKey
    <3> QED
      BY <2>1, <3>2, <3>3 DEF RequestOK
  <2>4. CASE q # r /\ ~(request[q].pc = "coalesced" /\ SameKey(request[q].key, request[r].key))
    BY <2>1, <2>4 DEF Resolved
  <2> QED
    BY <2>2, <2>3, <2>4
<1>2. request' \in [Request -> Requests]
  BY <1>1 DEF Resolved
<1> QED
  BY <1>1, <1>2, EvaluationStep, Types DEF Inv

\* The grants are read no earlier than the key's epochs, and the database is
\* never behind what they announce.
LEMMA QueryGrantsStep == ASSUME Inv, NEW r \in Request, QueryGrants(r) PROVE Inv'
<1> DEFINE s == request[r].result
           k == request[r].key
           granted == [s EXCEPT !.user = db["user"], !.role = db["role"]]
           direct == [granted EXCEPT !.place = NoPlace, !.age = 0]
<1>1. /\ s \in Result /\ k \in Key /\ s.roles = k.roles
      /\ request[r] \in Requests /\ RequestOK(request[r])
  BY RequestTypes DEF RequestOK
<1>2. db["user"] \in Nat /\ db["role"] \in Nat
  BY RequestTypes DEF Piece
<1>3. k.user \in 0..epoch("user") /\ k.role \in 0..epoch("role")
  <2>1. k.user \in Nat /\ k.role \in Nat
    BY <1>1 DEF Key
  <2>2. k.user <= epoch("user") /\ k.role <= epoch("role")
    BY <1>1 DEF RequestOK, ReadAfter
  <2>3. epoch("user") \in Nat /\ epoch("role") \in Nat
    BY DEF Inv, TypeOK, epoch, Epoch
  <2> QED
    BY <2>1, <2>2, <2>3
<1>4. db["user"] >= AnnouncedAt("user", k.user) /\ db["role"] >= AnnouncedAt("role", k.role)
  BY <1>2, <1>3 DEF Inv, Growing
<1>5. /\ \/ request' = Resolved(r, direct)
         \/ request' = [request EXCEPT ![r].result = granted,
                           ![r].pc = IF request[r].known THEN "ancestors" ELSE "factEpoch"]
      /\ UNCHANGED <<db, bumped, due, facts, fetch, decisions>>
  BY DEF QueryGrants
<1> HIDE DEF s, k
<1>6. /\ granted \in Result /\ granted.roles = s.roles
      /\ granted.user = db["user"] /\ granted.role = db["role"]
  BY <1>1, <1>2 DEF Result
<1>7. Fulfils(k, granted)
  BY <1>4, <1>6 DEF Fulfils
<1> HIDE DEF granted
<1>8. CASE request' = Resolved(r, direct)
  <2>1. /\ direct \in Result /\ direct.roles = granted.roles
        /\ direct.user = granted.user /\ direct.role = granted.role
    BY <1>6 DEF Result
  <2>2. Fulfils(k, direct)
    BY <1>7, <2>1 DEF Fulfils
  <2> HIDE DEF direct
  <2> QED
    BY <1>1, <1>5, <1>6, <1>8, <2>1, <2>2, ResolvedStep DEF k
<1>9. CASE request' = [request EXCEPT ![r].result = granted,
                           ![r].pc = IF request[r].known THEN "ancestors" ELSE "factEpoch"]
  <2> DEFINE pc == IF request[r].known THEN "ancestors" ELSE "factEpoch"
             q == [request[r] EXCEPT !.result = granted, !.pc = pc]
  <2>1. pc \in {"ancestors", "factEpoch"}
    OBVIOUS
  <2>2. request' = [request EXCEPT ![r] = q]
    BY <1>9
  <2> HIDE DEF pc
  <2>3. /\ q \in Requests /\ q.pc = pc /\ q.result = granted /\ q.key = request[r].key
        /\ q.trusted = request[r].trusted /\ q.floor = request[r].floor
    BY <1>1, <1>6, <2>1 DEF Requests, Steps
  <2> HIDE DEF q
  <2>4. RequestOK(q)
    BY <1>1, <1>6, <1>7, <2>1, <2>3 DEF RequestOK, k
  <2> QED
    BY <1>5, <2>2, <2>3, <2>4, OneRequestStep, RequestTypes
<1> QED
  BY <1>5, <1>8, <1>9

\* The ancestors' grants settle what the direct ones left open.
LEMMA QueryAncestorsStep == ASSUME Inv, NEW r \in Request, QueryAncestors(r) PROVE Inv'
<1>1. /\ request[r].result \in Result /\ request[r].result.roles = request[r].key.roles
      /\ Fulfils(request[r].key, request[r].result)
  BY RequestTypes DEF RequestOK, Computed, QueryAncestors
<1> QED
  BY <1>1, ResolvedStep DEF QueryAncestors

\* The fact's epoch is no part of the decision's key.
LEMMA ReadFactEpochStep == ASSUME Inv, NEW r \in Request, ReadFactEpoch(r) PROVE Inv'
<1>1. PICK e \in {epoch("asset")} \cup (IF "asset" \in Unreliable THEN {Unread} ELSE {}) :
        request' = [request EXCEPT ![r].pc = "fact", ![r].factKey = e]
  BY DEF ReadFactEpoch
<1> DEFINE q == [request[r] EXCEPT !.pc = "fact", !.factKey = e]
<1>2. e \in Nat
  <2>1. epoch("asset") \in Nat
    BY DEF Inv, TypeOK, epoch, Epoch
  <2> QED
    BY <2>1 DEF Unread
<1>3. request' = [request EXCEPT ![r] = q] /\ UNCHANGED <<db, bumped, due, facts, fetch, decisions>>
  BY <1>1 DEF ReadFactEpoch
<1>4. /\ q \in Requests /\ q.pc = "fact" /\ q.result = request[r].result
      /\ q.key = request[r].key /\ q.trusted = request[r].trusted /\ q.floor = request[r].floor
  BY <1>2, RequestTypes DEF Requests, Steps
<1> HIDE DEF q
<1>5. RequestOK(q)
  BY <1>4, RequestTypes DEF RequestOK, Computed, ReadFactEpoch
<1> QED
  BY <1>3, <1>4, <1>5, OneRequestStep, RequestTypes

\* Learning the folder's place leaves the grants of a result as they were.
LEMMA PlacedOK ==
  ASSUME NEW s \in Result, NEW x, x.place \in Nat \cup {NoPlace}, x.age \in Nat
  PROVE  /\ Placed(s, x) \in Result
         /\ Placed(s, x).user = s.user /\ Placed(s, x).role = s.role
         /\ Placed(s, x).roles = s.roles
BY DEF Placed, Result

LEMMA PlacedRequest ==
  ASSUME Inv, NEW r \in Request, NEW x, x.place \in Nat \cup {NoPlace}, x.age \in Nat,
         NEW pc \in {"ancestors", "writeFact"}, request[r].pc \in {"fact", "fetching"}
  PROVE  LET q == [request[r] EXCEPT !.pc = pc, !.result = Placed(@, x)]
         IN q \in Requests /\ RequestOK(q)
<1> DEFINE s == Placed(request[r].result, x)
           q == [request[r] EXCEPT !.pc = pc, !.result = s]
<1>1. request[r] \in Requests /\ RequestOK(request[r]) /\ request[r].result \in Result
  BY RequestTypes
<1>2. /\ s \in Result /\ s.user = request[r].result.user /\ s.role = request[r].result.role
      /\ s.roles = request[r].result.roles
  BY <1>1, PlacedOK
<1> HIDE DEF s
<1>3. /\ q \in Requests /\ q.pc = pc /\ q.result = s
      /\ q.key = request[r].key /\ q.trusted = request[r].trusted /\ q.floor = request[r].floor
  BY <1>1, <1>2 DEF Requests, Steps
<1> HIDE DEF q
<1>4. RequestOK(q)
  BY <1>1, <1>2, <1>3 DEF RequestOK, Computed, Fulfils
<1> QED
  BY <1>3, <1>4 DEF q, s

LEMMA FactHitStep == ASSUME Inv, NEW r \in Request, FactHit(r) PROVE Inv'
<1>1. PICK f \in facts :
        request' = [request EXCEPT ![r].pc = "ancestors", ![r].result = Placed(@, f)]
  BY DEF FactHit
<1> DEFINE q == [request[r] EXCEPT !.pc = "ancestors", !.result = Placed(@, f)]
<1>2. f.place \in Nat \cup {NoPlace} /\ f.age \in Nat
  BY RequestTypes DEF Facts
<1>3. q \in Requests /\ RequestOK(q)
  BY <1>2, PlacedRequest DEF FactHit
<1>4. request' = [request EXCEPT ![r] = q] /\ UNCHANGED <<db, bumped, due, facts, fetch, decisions>>
  BY <1>1 DEF FactHit
<1> HIDE DEF q
<1> QED
  BY <1>3, <1>4, OneRequestStep, RequestTypes

LEMMA FactMissStep == ASSUME Inv, NEW r \in Request, FactMiss(r) PROVE Inv'
<1>1. fetch' \in Flights
  BY RequestTypes DEF FactMiss, Nobody, Flights
<1> QED
  BY <1>1, PcStep, RequestTypes DEF FactMiss, Steps, Computed

LEMMA FetchReadStep == ASSUME Inv, FetchRead PROVE Inv'
<1>1. fetch' \in Flights
  BY Types DEF Inv, FetchRead, Flights, Piece
<1> QED
  BY <1>1, EvaluationStep, Types DEF Inv, FetchRead

\* The response reaches several evaluations at once, and none of their grants.
LEMMA FetchLandStep == ASSUME Inv, FetchLand PROVE Inv'
<1>1. fetch.place \in Nat \cup {NoPlace} /\ fetch.age \in Nat /\ fetch' \in Flights
  BY Types DEF Inv, FetchLand, Nobody, Flights
<1>2. ASSUME NEW r \in Request PROVE request'[r] \in Requests /\ RequestOK(request'[r])
  <2>1. CASE r \in Fetching
    <3>1. request'[r] = [request[r] EXCEPT !.pc = "writeFact", !.result = Placed(@, fetch)]
      BY <2>1 DEF FetchLand
    <3>2. request[r].pc = "fetching"
      BY <2>1 DEF Fetching
    <3> DEFINE q == [request[r] EXCEPT !.pc = "writeFact", !.result = Placed(@, fetch)]
    <3>3. q \in Requests /\ RequestOK(q)
      BY <1>1, <3>2, PlacedRequest
    <3> HIDE DEF q
    <3>4. request'[r] = q
      BY <3>1 DEF q
    <3> QED
      BY <3>3, <3>4
  <2>2. CASE r \notin Fetching
    BY <2>2, RequestTypes DEF FetchLand
  <2> QED
    BY <2>1, <2>2
<1>3. request' \in [Request -> Requests]
  BY <1>2 DEF FetchLand
<1> QED
  BY <1>1, <1>2, <1>3, EvaluationStep, Types DEF Inv, FetchLand

\* An evaluation that failed has nothing to promise.
LEMMA FetchFailStep == ASSUME Inv, FetchFail PROVE Inv'
<1>1. fetch' \in Flights
  BY DEF FetchFail, Nobody, Flights
<1>2. ASSUME NEW r \in Request PROVE request'[r] \in Requests /\ RequestOK(request'[r])
  <2>1. request'[r] = Idle \/ request'[r] = request[r]
    BY DEF FetchFail
  <2> QED
    BY <2>1, IdleOK, RequestTypes
<1>3. request' \in [Request -> Requests]
  BY <1>2 DEF FetchFail
<1> QED
  BY <1>1, <1>2, <1>3, EvaluationStep, Types DEF Inv, FetchFail

LEMMA Lifetimes ==
  /\ (FactTTL - Jitter)..FactTTL \subseteq Nat
  /\ (DecisionTTL - Jitter)..DecisionTTL \subseteq Nat
BY BoundsAssumption

LEMMA WriteFactStep == ASSUME Inv, NEW r \in Request, WriteFact(r) PROVE Inv'
<1>1. facts' \subseteq Facts
  <2>1. CASE facts' = facts
    BY <2>1, RequestTypes
  <2>2. ASSUME NEW left \in (FactTTL - Jitter)..FactTTL,
               facts' = Put(facts, [key |-> request[r].factKey, left |-> left,
                                    place |-> request[r].result.place,
                                    age |-> request[r].result.age])
        PROVE  facts' \subseteq Facts
    <3>1. left \in Nat
      BY Lifetimes
    <3>2. /\ request[r].factKey \in Nat
          /\ request[r].result.place \in Nat \cup {NoPlace} /\ request[r].result.age \in Nat
      BY RequestTypes DEF Requests, Result
    <3> QED
      BY <2>2, <3>1, <3>2, RequestTypes DEF Put, Facts
  <2> QED
    BY <2>1, <2>2 DEF WriteFact
<1> QED
  BY <1>1, PcStep, RequestTypes DEF WriteFact, Steps, Computed

\* A decision is written under the key it was found or computed for.
LEMMA WriteDecisionStep == ASSUME Inv, NEW r \in Request, WriteDecision(r) PROVE Inv'
<1> DEFINE q == [request[r] EXCEPT !.pc = "answered"]
<1>1. /\ request[r] \in Requests /\ RequestOK(request[r])
      /\ request[r].key \in Key /\ request[r].result \in Result
      /\ request[r].key.user \in Nat /\ request[r].key.role \in Nat
  BY RequestTypes DEF Key
<1>2. Fulfils(request[r].key, request[r].result)
  BY <1>1 DEF RequestOK, Computed, WriteDecision
<1>3. request' = [request EXCEPT ![r] = q] /\ UNCHANGED <<db, bumped, due, facts, fetch>>
  BY DEF WriteDecision
<1>4. /\ q \in Requests /\ q.pc = "answered" /\ q.key = request[r].key
      /\ q.result = request[r].result /\ q.trusted = request[r].trusted
      /\ q.floor = request[r].floor
  BY <1>1 DEF Requests, Steps
<1> HIDE DEF q
<1>5. RequestOK(q)
  BY <1>1, <1>2, <1>4 DEF RequestOK
<1>6. request' \in [Request -> Requests]
  BY <1>3, <1>4, Types DEF Inv
<1>7. ASSUME NEW s \in Request PROVE RequestOK(request'[s])
  <2>1. CASE s = r
    BY <1>3, <1>5, <2>1, Types DEF Inv
  <2>2. CASE s # r
    BY <1>3, <2>2, Types DEF Inv
  <2> QED
    BY <2>1, <2>2
<1>8. decisions' \subseteq Decisions /\ \A d \in decisions' : DecisionOK(d)
  <2>1. CASE decisions' = decisions
    BY <2>1, Types DEF Inv
  <2>2. ASSUME NEW left \in (DecisionTTL - Jitter)..DecisionTTL,
               decisions' = Put(decisions, [key |-> request[r].key, left |-> left,
                                            result |-> request[r].result])
        PROVE  decisions' \subseteq Decisions /\ \A d \in decisions' : DecisionOK(d)
    <3> DEFINE new == [key |-> request[r].key, left |-> left, result |-> request[r].result]
    <3>1. new \in Decisions
      BY <1>1, Lifetimes DEF Decisions
    <3>2. DecisionOK(new)
      BY <1>1, <1>2 DEF DecisionOK, RequestOK, ReadAfter
    <3>3. decisions' \subseteq decisions \cup {new}
      BY <2>2 DEF Put
    <3> HIDE DEF new
    <3> QED
      BY <3>1, <3>2, <3>3, Types DEF Inv
  <2> QED
    BY <2>1, <2>2 DEF WriteDecision
<1> QED
  BY <1>3, <1>6, <1>7, <1>8, EvaluationStep, Types DEF Inv

LEMMA ReturnStep == ASSUME Inv, NEW r \in Request, Return(r) PROVE Inv'
BY IdleOK, OneRequestStep, RequestTypes DEF Return

\* Time changes what is known of the age of a place, and nothing else.
LEMMA OlderOK ==
  ASSUME NEW s \in Result
  PROVE  /\ Older(s) \in Result /\ Older(s).user = s.user /\ Older(s).role = s.role
         /\ Older(s).roles = s.roles
BY DEF Older, Result

LEMMA TickStep == ASSUME Inv, Tick PROVE Inv'
<1>1. fetch' \in Flights
  <2>1. fetch \in Flights
    BY Types DEF Inv
  <2>2. Older(fetch) \in Flights
    BY <2>1 DEF Older, Flights
  <2> QED
    BY <2>1, <2>2 DEF Tick
<1>2. facts' \subseteq Facts
  <2> SUFFICES ASSUME NEW f \in Alive(facts) PROVE [Older(f) EXCEPT !.left = @ - 1] \in Facts
    BY DEF Tick
  <2>1. f \in Facts /\ f.left > 1
    BY Types DEF Inv, Alive
  <2>2. Older(f) \in Facts /\ Older(f).left = f.left
    BY <2>1 DEF Older, Facts
  <2> QED
    BY <2>1, <2>2 DEF Facts
<1>3. ASSUME NEW x \in decisions'
      PROVE  x \in Decisions /\ DecisionOK(x)
  <2>1. PICK d \in Alive(decisions) : x = [d EXCEPT !.left = @ - 1, !.result = Older(d.result)]
    BY DEF Tick
  <2>2. d \in Decisions /\ DecisionOK(d) /\ d.left > 1 /\ d.result \in Result
    BY Types DEF Inv, Alive, Decisions
  <2> DEFINE s == Older(d.result)
             n == d.left - 1
  <2>3. /\ s \in Result /\ s.user = d.result.user /\ s.role = d.result.role
        /\ s.roles = d.result.roles
    BY <2>2, OlderOK
  <2>4. n \in Nat
    BY <2>2 DEF Decisions
  <2> HIDE DEF s, n
  <2>5. x = [d EXCEPT !.left = n, !.result = s]
    BY <2>1 DEF s, n
  <2>6. x \in Decisions /\ x.key = d.key /\ x.result = s
    BY <2>2, <2>3, <2>4, <2>5 DEF Decisions
  <2> QED
    BY <2>2, <2>3, <2>6 DEF DecisionOK, Fulfils
<1>4. ASSUME NEW r \in Request PROVE request'[r] \in Requests /\ RequestOK(request'[r])
  <2>1. request[r] \in Requests /\ RequestOK(request[r]) /\ request[r].result \in Result
    BY RequestTypes
  <2>2. CASE Running(r)
    <3> DEFINE s == Older(request[r].result)
               n == request[r].held + 1
               q == [request[r] EXCEPT !.held = n, !.result = s]
    <3>1. request'[r] = q
      BY <2>2 DEF Tick
    <3>2. /\ s \in Result /\ s.user = request[r].result.user
          /\ s.role = request[r].result.role /\ s.roles = request[r].result.roles
      BY <2>1, OlderOK
    <3>3. n \in Nat
      BY <2>1 DEF Requests
    <3> HIDE DEF s, n
    <3>4. /\ q \in Requests /\ q.pc = request[r].pc /\ q.result = s /\ q.key = request[r].key
          /\ q.trusted = request[r].trusted /\ q.floor = request[r].floor
      BY <2>1, <3>2, <3>3 DEF Requests
    <3> HIDE DEF q
    <3>5. RequestOK(q)
      BY <2>1, <3>2, <3>4 DEF RequestOK, Fulfils
    <3> QED
      BY <3>1, <3>4, <3>5
  <2>3. CASE ~Running(r)
    BY <2>1, <2>3 DEF Tick
  <2> QED
    BY <2>2, <2>3
<1>5. request' \in [Request -> Requests]
  BY <1>4 DEF Tick
<1> QED
  BY <1>1, <1>2, <1>3, <1>4, <1>5, EvaluationStep DEF Tick

-----------------------------------------------------------------------------
LEMMA InitInv == Init => Inv
<1> SUFFICES ASSUME Init PROVE Inv
  OBVIOUS
<1>1. \A e \in Epoch : bumped[e] = <<>> /\ epoch(e) = 0
  BY DEF Init, epoch
<1>2. Idle \in Requests /\ fetch \in Flights
  BY DEF Init, Nobody, Flights, Idle, Requests, Steps, Key, Result, NoKey, NoResult, NoPlace,
         Piece, Epoch
<1>3. TypeOK
  <2>1. bumped \in [Epoch -> Seq([Piece -> Nat])]
    BY DEF Init
  <2> QED
    BY <1>2, <2>1, Types DEF Init
<1>4. Growing("user") /\ Growing("role")
  <2>1. db["user"] = 0 /\ db["role"] = 0
    BY DEF Init, Piece
  <2>2. epoch("user") = 0 /\ epoch("role") = 0
    BY <1>1 DEF Epoch
  <2> QED
    BY <2>1, <2>2 DEF Growing, AnnouncedAt
<1>5. ASSUME NEW r \in Request PROVE RequestOK(request[r])
  <2>1. /\ request[r].key.user = 0 /\ request[r].key.role = 0
        /\ request[r].floor["user"] = 0 /\ request[r].floor["role"] = 0
        /\ request[r].trusted = {} /\ request[r].pc = "idle"
        /\ request[r].key.roles = 0 /\ request[r].result.roles = 0
    BY DEF Init, Idle, NoKey, NoResult, Piece
  <2>2. epoch("user") = 0 /\ epoch("role") = 0
    BY <1>1 DEF Epoch
  <2>3. AnnouncedAt("user", 0) = 0 /\ AnnouncedAt("role", 0) = 0
    BY DEF AnnouncedAt
  <2> QED
    BY <2>1, <2>2, <2>3 DEF RequestOK, Computed, ReadAfter
<1> QED
  BY <1>3, <1>4, <1>5 DEF Init, Inv

LEMMA NextInv == Inv /\ [Next]_vars => Inv'
<1> SUFFICES ASSUME Inv, [Next]_vars PROVE Inv'
  OBVIOUS
<1>1. ASSUME NEW p \in Piece, Commit(p) PROVE Inv'
  BY <1>1, CommitStep
<1>2. ASSUME NEW d \in due, Bump(d) PROVE Inv'
  BY <1>2, BumpStep
<1>3. ASSUME NEW r \in Request, Evaluate(r) PROVE Inv'
  BY <1>3, BeginStep, ReadEpochsStep, DecisionHitStep, DecisionMissStep, QueryGrantsStep,
     ReadFactEpochStep, FactHitStep, FactMissStep, WriteFactStep, QueryAncestorsStep,
     WriteDecisionStep, ReturnStep DEF Evaluate
<1>4. ASSUME UNCHANGED vars PROVE Inv'
  BY <1>4, EvaluationStep, Types DEF vars, Inv
<1> QED
  BY <1>1, <1>2, <1>3, <1>4, FetchReadStep, FetchLandStep, FetchFailStep, TickStep DEF Next

LEMMA Invariance == Spec => []Inv
BY InitInv, NextInv, PTL DEF Spec

\* The caches, flights and evaluations have their types in every state.
THEOREM TypeCorrect == Spec => []TypeOK
<1>1. Inv => TypeOK
  BY DEF Inv
<1> QED
  BY <1>1, Invariance, PTL

\* A grant or a revocation whose bump was done before an evaluation began is
\* seen by it whatever else fails, if the evaluation could read the epoch: the
\* key it looks up and writes under promises that much.
THEOREM GrantChangesSeen == Spec => []GrantChangeSeen
<1>1. Inv => GrantChangeSeen
  <2> SUFFICES ASSUME Inv, NEW r \in Request, Answered(r), NEW p \in {"user", "role"},
                      p \in request[r].trusted
               PROVE  request[r].result[p] >= request[r].floor[p]
    BY DEF GrantChangeSeen
  <2> DEFINE q == request[r]
  <2>1. RequestOK(q) /\ q.key \in Key /\ q.result \in Result /\ q.floor \in [Piece -> Nat]
    BY RequestTypes
  <2>2. Fulfils(q.key, q.result)
    BY <2>1 DEF RequestOK, Computed, Answered
  <2>3. q.key[p] \in Nat /\ q.result[p] \in Nat /\ q.floor[p] \in Nat
    BY <2>1 DEF Key, Result, Piece
  <2>4. q.key[p] \in 0..epoch(p)
    <3>1. epoch(p) \in Nat
      BY DEF Inv, TypeOK, epoch, Epoch
    <3>2. q.key[p] <= epoch(p)
      BY <2>1 DEF RequestOK, ReadAfter, Key
    <3> QED
      BY <2>3, <3>1, <3>2
  <2>5. q.result[p] >= AnnouncedAt(p, q.key[p])
    BY <2>1, <2>2 DEF Fulfils, Key, Result
  <2>6. q.floor[p] <= AnnouncedAt(p, q.key[p])
    BY <2>1 DEF RequestOK, ReadAfter, Key
  <2>7. AnnouncedAt(p, q.key[p]) \in Nat
    BY <2>4 DEF Inv, Growing
  <2> HIDE DEF q
  <2> QED
    BY <2>3, <2>5, <2>6, <2>7 DEF q
<1> QED
  BY <1>1, Invariance, PTL

\* The role set is part of the key, so that no answer is given to a request with
\* another role set, even when every bump of the user epoch is lost.
THEOREM RoleSetsKept == Spec => []OwnRoleSet
<1>1. Inv => OwnRoleSet
  BY DEF Inv, OwnRoleSet, RequestOK
<1> QED
  BY <1>1, Invariance, PTL

-----------------------------------------------------------------------------
(* How old the place an answer rests on may be *)

\* What the place a result rests on has waited for elsewhere, when its
\* evaluation is at step pc: one more holder or lifetime at each hand-over.
Limit(pc) ==
    CASE pc = "writeFact" -> MaxHold
      [] pc = "ancestors" -> 2 * MaxHold + (FactTTL - 1)
      [] pc = "write"     -> 3 * MaxHold + (FactTTL - 1)
      [] pc = "answered"  -> 4 * MaxHold + (FactTTL - 1) + (DecisionTTL - 1)
      [] OTHER            -> 0

\* Beyond that it ages only while the evaluation holds it.
AgeOK(q) ==
    /\ q.held <= MaxHold
    /\ q.result.age <= Limit(q.pc) + q.held

\* A cached place ages and expires together.
FactAgeOK(f) == f.left >= 1 /\ f.age + f.left <= 2 * MaxHold + FactTTL
DecisionAgeOK(d) ==
    d.left >= 1 /\ d.result.age + d.left <= 4 * MaxHold + (FactTTL - 1) + DecisionTTL

\* The evaluation that opened the flight still waits for it.
FetchHeld ==
    fetch.running => \E r \in Request : request[r].pc = "fetching" /\ fetch.age <= request[r].held

AgeInv ==
    /\ \A r \in Request : AgeOK(request[r])
    /\ \A f \in facts : FactAgeOK(f)
    /\ \A d \in decisions : DecisionAgeOK(d)
    /\ FetchHeld

\* The limits, step by step.
LEMMA Limits ==
  /\ MaxHold \in Nat /\ FactTTL \in Nat /\ FactTTL >= 1 /\ DecisionTTL \in Nat /\ DecisionTTL >= 1
  /\ Limit("writeFact") = MaxHold
  /\ Limit("ancestors") = 2 * MaxHold + (FactTTL - 1)
  /\ Limit("write") = 3 * MaxHold + (FactTTL - 1)
  /\ Limit("answered") = 4 * MaxHold + (FactTTL - 1) + (DecisionTTL - 1)
  /\ \A pc \in Steps \ {"writeFact", "ancestors", "write", "answered"} : Limit(pc) = 0
<1>1. /\ MaxHold \in Nat /\ FactTTL \in Nat /\ FactTTL >= 1
      /\ DecisionTTL \in Nat /\ DecisionTTL >= 1
  BY BoundsAssumption
<1> QED
  BY <1>1 DEF Limit, Steps

\* What a step may rely on of an evaluation's clock.
LEMMA RequestAges ==
  ASSUME Inv, AgeInv, NEW r \in Request
  PROVE  /\ request[r] \in Requests /\ request[r].held \in Nat /\ request[r].held <= MaxHold
         /\ request[r].result \in Result /\ request[r].result.age \in Nat
         /\ AgeOK(request[r])
BY RequestTypes DEF AgeInv, AgeOK, Requests, Result

\* The step of one evaluation that changes no cache and leaves no flight behind.
LEMMA OneRequestAge ==
  ASSUME Inv, AgeInv, UNCHANGED <<facts, fetch, decisions>>, NEW r \in Request, NEW q,
         AgeOK(q), request' = [request EXCEPT ![r] = q], request[r].pc # "fetching"
  PROVE  AgeInv'
<1>1. /\ request'[r] = q /\ \A s \in Request \ {r} : request'[s] = request[s]
  BY Types DEF Inv
<1>2. \A s \in Request : AgeOK(request'[s])
  BY <1>1 DEF AgeInv
<1>3. FetchHeld'
  <2> SUFFICES ASSUME fetch.running
               PROVE  \E s \in Request : request'[s].pc = "fetching" /\ fetch.age <= request'[s].held
    BY DEF FetchHeld
  <2>1. PICK s \in Request : request[s].pc = "fetching" /\ fetch.age <= request[s].held
    BY DEF AgeInv, FetchHeld
  <2>2. request'[s] = request[s]
    BY <1>1, <2>1
  <2> QED
    BY <2>1, <2>2
<1>4. (\A f \in facts : FactAgeOK(f))' /\ (\A d \in decisions : DecisionAgeOK(d))'
  BY DEF AgeInv, FactAgeOK, DecisionAgeOK
<1> QED
  BY <1>2, <1>3, <1>4 DEF AgeInv, AgeOK

\* An evaluation that moves on without learning a place keeps its age.
LEMMA SameAge ==
  ASSUME Inv, AgeInv, NEW r \in Request, NEW q,
         request[r].pc \notin {"writeFact", "ancestors", "write", "answered"},
         q.pc \in Steps, q.held = request[r].held,
         q.result.age \in Nat, q.result.age <= request[r].result.age
  PROVE  AgeOK(q)
<1>1. Limit(q.pc) \in Nat
  BY Limits DEF Steps
<1>2. Limit(request[r].pc) = 0
  BY RequestAges, Limits DEF Requests
<1> QED
  BY <1>1, <1>2, RequestAges DEF AgeOK

\* An evaluation that has not begun, or that failed, holds nothing.
LEMMA IdleAge == AgeOK(Idle)
<1>1. Idle.pc = "idle" /\ Idle.held = 0 /\ Idle.result.age = 0
  BY DEF Idle, NoResult
<1>2. Limit("idle") = 0 /\ MaxHold \in Nat
  BY Limits DEF Steps
<1> QED
  BY <1>1, <1>2 DEF AgeOK

\* Ancestors known from the start were read when it began.
LEMMA BeginAge == ASSUME Inv, AgeInv, NEW r \in Request, Begin(r) PROVE AgeInv'
<1> DEFINE S(known) == [NoResult EXCEPT !.roles = db["roles"] % 2,
                                        !.place = IF known THEN db["place"] ELSE NoPlace]
           k == [NoKey EXCEPT !.roles = db["roles"] % 2]
           f == [p \in Piece |-> Announced(p)]
<1>1. PICK known \in Restores :
        request' = [request EXCEPT ![r] =
             [Idle EXCEPT !.pc = "epochs", !.known = known,
                          !.key = k, !.floor = f, !.result = S(known)]]
  BY DEF Begin
<1> DEFINE s == S(known)
           q == [Idle EXCEPT !.pc = "epochs", !.known = known,
                             !.key = k, !.floor = f, !.result = s]
<1>2. s.age = 0
  BY DEF NoResult
<1>3. request' = [request EXCEPT ![r] = q]
  BY <1>1
<1> HIDE DEF k, f, S, s
<1>4. q.pc = "epochs" /\ q.held = 0 /\ q.result = s
  BY DEF Idle
<1> HIDE DEF q
<1>5. Limit("epochs") = 0 /\ MaxHold \in Nat
  BY Limits DEF Steps
<1>6. AgeOK(q)
  BY <1>2, <1>4, <1>5 DEF AgeOK
<1> QED
  BY <1>3, <1>6, OneRequestAge DEF Begin

\* Until it finds or makes a decision, an evaluation learns no place.
LEMMA ReadEpochsAge == ASSUME Inv, AgeInv, NEW r \in Request, ReadEpochs(r) PROVE AgeInv'
<1> DEFINE U(ok) == IF "user" \in ok THEN epoch("user") ELSE Unread
           A(ok) == IF "asset" \in ok THEN epoch("asset") ELSE Unread
<1>1. PICK ok \in SUBSET {"user", "asset"} :
        request' = [request EXCEPT ![r] = [@ EXCEPT
             !.pc = "lookup", !.trusted = ok,
             !.key = [request[r].key EXCEPT !.user = U(ok), !.asset = A(ok)]]]
  BY DEF ReadEpochs
<1> DEFINE k == [request[r].key EXCEPT !.user = U(ok), !.asset = A(ok)]
           q == [request[r] EXCEPT !.pc = "lookup", !.trusted = ok, !.key = k]
<1>2. request' = [request EXCEPT ![r] = q]
  BY <1>1
<1> HIDE DEF k
<1>3. q.pc = "lookup" /\ q.held = request[r].held /\ q.result = request[r].result
  BY RequestAges DEF Requests
<1> HIDE DEF q
<1>4. AgeOK(q)
  BY <1>3, RequestAges, SameAge DEF ReadEpochs, Steps
<1> QED
  BY <1>2, <1>4, OneRequestAge DEF ReadEpochs

\* Completing the key changes neither the clock nor the result.
LEMMA KeyingAge ==
  ASSUME Inv, AgeInv, NEW r \in Request, NEW ok, NEW pc, NEW leads, NEW s
  PROVE  /\ LET q == [Keyed(r, ok) EXCEPT !.pc = pc, !.leader = leads]
            IN q.pc = pc /\ q.held = request[r].held /\ q.result = request[r].result
         /\ LET q == [Keyed(r, ok) EXCEPT !.pc = pc, !.result = s]
            IN q.pc = pc /\ q.held = request[r].held /\ q.result = s
<1> DEFINE k == KeyOf(r, ok)
           t == request[r].trusted \cup (IF ok THEN {"role"} ELSE {})
           x == [request[r] EXCEPT !.key = k, !.trusted = t]
<1>1. Keyed(r, ok) = x
  BY DEF Keyed
<1> HIDE DEF k, t
<1>2. request[r] \in Requests
  BY RequestAges
<1> QED
  BY <1>1, <1>2 DEF Requests

\* A cached decision hands its age to the evaluation that finds it.
LEMMA DecisionHitAge == ASSUME Inv, AgeInv, NEW r \in Request, DecisionHit(r) PROVE AgeInv'
<1>1. PICK ok \in RoleEpochRead, d \in decisions :
        request' = [request EXCEPT ![r] = [Keyed(r, ok) EXCEPT !.pc = "answered",
                                                               !.result = d.result]]
  BY DEF DecisionHit
<1> DEFINE q == [Keyed(r, ok) EXCEPT !.pc = "answered", !.result = d.result]
<1>2. q.pc = "answered" /\ q.held = request[r].held /\ q.result = d.result
  BY KeyingAge
<1>3. request' = [request EXCEPT ![r] = q]
  BY <1>1
<1> HIDE DEF q
<1>4. DecisionAgeOK(d) /\ d.left \in Nat /\ d.result.age \in Nat
  BY Types DEF Inv, AgeInv, Decisions, Result
<1>5. AgeOK(q)
  BY <1>2, <1>4, RequestAges, Limits DEF AgeOK, DecisionAgeOK
<1> QED
  BY <1>3, <1>5, OneRequestAge DEF DecisionHit

\* Waiting for a decision, or making it, begins with no place.
LEMMA DecisionMissAge == ASSUME Inv, AgeInv, NEW r \in Request, DecisionMiss(r) PROVE AgeInv'
<1> DEFINE Led(ok) == \E l \in Request : request[l].leader /\ SameKey(request[l].key, KeyOf(r, ok))
<1>1. PICK ok \in RoleEpochRead :
        request' = [request EXCEPT ![r] =
            [Keyed(r, ok) EXCEPT !.pc = IF Led(ok) THEN "coalesced" ELSE "grants",
                                 !.leader = ~Led(ok)]]
  BY DEF DecisionMiss
<1> DEFINE pc == IF Led(ok) THEN "coalesced" ELSE "grants"
           leads == ~Led(ok)
           q == [Keyed(r, ok) EXCEPT !.pc = pc, !.leader = leads]
<1>2. request' = [request EXCEPT ![r] = q]
  BY <1>1
<1>3. pc \in Steps
  BY DEF Steps
<1> HIDE DEF Led, pc, leads
<1>4. q.pc = pc /\ q.held = request[r].held /\ q.result = request[r].result
  BY KeyingAge
<1> HIDE DEF q
<1>5. AgeOK(q)
  BY <1>3, <1>4, RequestAges, SameAge DEF DecisionMiss
<1> QED
  BY <1>2, <1>5, OneRequestAge DEF DecisionMiss

\* Whoever waited for a decision receives a place as old as its evaluation held it.
LEMMA ResolvedAge ==
  ASSUME Inv, AgeInv, UNCHANGED <<facts, fetch, decisions>>, NEW r \in Request, NEW s \in Result,
         request[r].pc # "fetching", s.age <= Limit("write"),
         request' = Resolved(r, s)
  PROVE  AgeInv'
<1>1. ASSUME NEW q \in Request
      PROVE  /\ AgeOK(request'[q])
             /\ request[q].pc = "fetching" => request'[q] = request[q]
  <2>1. request[q] \in Requests
    BY RequestAges
  <2>2. ASSUME request'[q].pc = "write", request'[q].held = request[q].held, request'[q].result = s
        PROVE  AgeOK(request'[q])
    <3>1. s.age \in Nat /\ Limit("write") \in Nat
      BY Limits DEF Result
    <3> QED
      BY <2>2, <3>1, RequestAges DEF AgeOK
  <2>3. CASE q = r
    <3>1. request'[q] = [request[q] EXCEPT !.pc = "write", !.leader = FALSE, !.result = s]
      BY <2>3 DEF Resolved
    <3>2. /\ request'[q].pc = "write" /\ request'[q].held = request[q].held
          /\ request'[q].result = s
      BY <2>1, <3>1 DEF Requests
    <3> QED
      BY <2>2, <2>3, <3>2
  <2>4. CASE q # r /\ request[q].pc = "coalesced" /\ SameKey(request[q].key, request[r].key)
    <3>1. request'[q] = [request[q] EXCEPT !.pc = "write", !.result = s]
      BY <2>4 DEF Resolved
    <3>2. /\ request'[q].pc = "write" /\ request'[q].held = request[q].held
          /\ request'[q].result = s
      BY <2>1, <3>1 DEF Requests
    <3> QED
      BY <2>2, <2>4, <3>2
  <2>5. CASE q # r /\ ~(request[q].pc = "coalesced" /\ SameKey(request[q].key, request[r].key))
    <3>1. request'[q] = request[q]
      BY <2>5 DEF Resolved
    <3> QED
      BY <3>1, RequestAges
  <2> QED
    BY <2>3, <2>4, <2>5
<1>2. FetchHeld'
  <2> SUFFICES ASSUME fetch.running
               PROVE  \E q \in Request : request'[q].pc = "fetching" /\ fetch.age <= request'[q].held
    BY DEF FetchHeld
  <2>1. PICK q \in Request : request[q].pc = "fetching" /\ fetch.age <= request[q].held
    BY DEF AgeInv, FetchHeld
  <2> QED
    BY <1>1, <2>1
<1>3. (\A f \in facts : FactAgeOK(f))' /\ (\A d \in decisions : DecisionAgeOK(d))'
  BY DEF AgeInv, FactAgeOK, DecisionAgeOK
<1> QED
  BY <1>1, <1>2, <1>3 DEF AgeInv, AgeOK

\* Direct grants settle a decision without a place.
LEMMA QueryGrantsAge == ASSUME Inv, AgeInv, NEW r \in Request, QueryGrants(r) PROVE AgeInv'
<1> DEFINE s == request[r].result
           granted == [s EXCEPT !.user = db["user"], !.role = db["role"]]
           direct == [granted EXCEPT !.place = NoPlace, !.age = 0]
<1>1. /\ \/ request' = Resolved(r, direct)
         \/ request' = [request EXCEPT ![r].result = granted,
                           ![r].pc = IF request[r].known THEN "ancestors" ELSE "factEpoch"]
      /\ UNCHANGED <<facts, fetch, decisions>> /\ request[r].pc = "grants"
  BY DEF QueryGrants
<1>2. s \in Result /\ s.age \in Nat /\ db["user"] \in Nat /\ db["role"] \in Nat
  BY RequestTypes, RequestAges DEF Piece
<1> HIDE DEF s
<1>3. granted \in Result /\ granted.age = s.age
  BY <1>2 DEF Result
<1> HIDE DEF granted
<1>4. CASE request' = Resolved(r, direct)
  <2>1. direct \in Result /\ direct.age = 0
    BY <1>3 DEF Result
  <2> HIDE DEF direct
  <2>2. direct.age <= Limit("write")
    BY <2>1, Limits
  <2> QED
    BY <1>1, <1>4, <2>1, <2>2, ResolvedAge
<1>5. CASE request' = [request EXCEPT ![r].result = granted,
                           ![r].pc = IF request[r].known THEN "ancestors" ELSE "factEpoch"]
  <2> DEFINE pc == IF request[r].known THEN "ancestors" ELSE "factEpoch"
             q == [request[r] EXCEPT !.result = granted, !.pc = pc]
  <2>1. pc \in Steps
    BY DEF Steps
  <2>2. request' = [request EXCEPT ![r] = q]
    BY <1>5
  <2> HIDE DEF pc
  <2>3. q.pc = pc /\ q.held = request[r].held /\ q.result = granted
    BY RequestAges DEF Requests
  <2> HIDE DEF q
  <2>4. AgeOK(q)
    BY <1>1, <1>2, <1>3, <2>1, <2>3, SameAge DEF s
  <2> QED
    BY <1>1, <2>2, <2>4, OneRequestAge
<1> QED
  BY <1>1, <1>4, <1>5

\* The decision is as old as the place of the evaluation that made it.
LEMMA QueryAncestorsAge ==
  ASSUME Inv, AgeInv, NEW r \in Request, QueryAncestors(r) PROVE AgeInv'
<1>1. request[r].pc = "ancestors" /\ request' = Resolved(r, request[r].result)
      /\ UNCHANGED <<facts, fetch, decisions>>
  BY DEF QueryAncestors
<1>2. request[r].result \in Result /\ request[r].result.age <= Limit("write")
  BY <1>1, RequestAges, Limits DEF AgeOK
<1> QED
  BY <1>1, <1>2, ResolvedAge

\* The fact's epoch is read before its place is known.
LEMMA ReadFactEpochAge == ASSUME Inv, AgeInv, NEW r \in Request, ReadFactEpoch(r) PROVE AgeInv'
<1>1. PICK e : request' = [request EXCEPT ![r].pc = "fact", ![r].factKey = e]
  BY DEF ReadFactEpoch
<1> DEFINE q == [request[r] EXCEPT !.pc = "fact", !.factKey = e]
<1>2. request' = [request EXCEPT ![r] = q]
  BY <1>1
<1>3. q.pc = "fact" /\ q.held = request[r].held /\ q.result = request[r].result
  BY RequestAges DEF Requests
<1> HIDE DEF q
<1>4. AgeOK(q)
  BY <1>3, RequestAges, SameAge DEF ReadFactEpoch, Steps
<1> QED
  BY <1>2, <1>4, OneRequestAge DEF ReadFactEpoch

\* A cached fact hands its age to the evaluation that finds it.
LEMMA FactHitAge == ASSUME Inv, AgeInv, NEW r \in Request, FactHit(r) PROVE AgeInv'
<1>1. PICK f \in facts :
        request' = [request EXCEPT ![r].pc = "ancestors", ![r].result = Placed(@, f)]
  BY DEF FactHit
<1> DEFINE s == Placed(request[r].result, f)
           q == [request[r] EXCEPT !.pc = "ancestors", !.result = s]
<1>2. request' = [request EXCEPT ![r] = q]
  BY <1>1
<1>3. s.age = f.age
  BY RequestAges DEF Placed, Result
<1> HIDE DEF s
<1>4. q.pc = "ancestors" /\ q.held = request[r].held /\ q.result = s
  BY RequestAges DEF Requests
<1> HIDE DEF q
<1>5. FactAgeOK(f) /\ f.age \in Nat /\ f.left \in Nat
  BY RequestTypes DEF AgeInv, Facts
<1>6. AgeOK(q)
  BY <1>3, <1>4, <1>5, RequestAges, Limits DEF AgeOK, FactAgeOK
<1> QED
  BY <1>2, <1>6, OneRequestAge DEF FactHit

\* A flight begins with the evaluation that opens it, or is joined.
LEMMA FactMissAge == ASSUME Inv, AgeInv, NEW r \in Request, FactMiss(r) PROVE AgeInv'
<1> DEFINE q == [request[r] EXCEPT !.pc = "fetching"]
<1>1. /\ request' = [request EXCEPT ![r] = q] /\ request[r].pc = "fact"
      /\ UNCHANGED <<facts, decisions>>
      /\ fetch' = IF fetch.running THEN fetch ELSE [Nobody EXCEPT !.running = TRUE]
  BY DEF FactMiss
<1>2. q.pc = "fetching" /\ q.held = request[r].held /\ q.result = request[r].result
  BY RequestAges DEF Requests
<1> HIDE DEF q
<1>3. AgeOK(q)
  BY <1>1, <1>2, RequestAges, SameAge DEF Steps
<1>4. /\ request'[r] = q /\ \A s \in Request \ {r} : request'[s] = request[s]
  BY <1>1, Types DEF Inv
<1>5. \A s \in Request : AgeOK(request'[s])
  BY <1>3, <1>4 DEF AgeInv
<1>6. FetchHeld'
  <2> SUFFICES \E s \in Request : request'[s].pc = "fetching" /\ fetch'.age <= request'[s].held
    BY DEF FetchHeld
  <2>1. CASE fetch.running
    <3>1. PICK s \in Request : request[s].pc = "fetching" /\ fetch.age <= request[s].held
      BY <2>1 DEF AgeInv, FetchHeld
    <3>2. request'[s] = request[s]
      BY <1>1, <1>4, <3>1
    <3> QED
      BY <1>1, <2>1, <3>1, <3>2
  <2>2. CASE ~fetch.running
    <3>1. fetch'.age = 0
      BY <1>1, <2>2 DEF Nobody
    <3> QED
      BY <1>2, <1>4, <3>1, RequestAges
  <2> QED
    BY <2>1, <2>2
<1>7. (\A f \in facts : FactAgeOK(f))' /\ (\A d \in decisions : DecisionAgeOK(d))'
  BY <1>1 DEF AgeInv, FactAgeOK, DecisionAgeOK
<1> QED
  BY <1>5, <1>6, <1>7 DEF AgeInv, AgeOK

\* Asset Core's answer is new when it is read.
LEMMA FetchReadAge == ASSUME Inv, AgeInv, FetchRead PROVE AgeInv'
<1>1. UNCHANGED <<facts, decisions, request>> /\ fetch' = [fetch EXCEPT !.place = db["place"]]
  BY DEF FetchRead
<1>2. fetch'.age = fetch.age /\ fetch.running
  BY <1>1, Types DEF Inv, Flights, FetchRead
<1> QED
  BY <1>1, <1>2 DEF AgeInv, AgeOK, FactAgeOK, DecisionAgeOK, FetchHeld

\* The response is as old as the evaluation that asked for it held it.
LEMMA FetchLandAge == ASSUME Inv, AgeInv, FetchLand PROVE AgeInv'
<1>1. UNCHANGED <<facts, decisions>> /\ fetch' = Nobody /\ fetch.running
  BY DEF FetchLand
<1>2. fetch.age \in Nat /\ fetch.age <= MaxHold
  <2>1. PICK s \in Request : request[s].pc = "fetching" /\ fetch.age <= request[s].held
    BY <1>1 DEF AgeInv, FetchHeld
  <2>2. fetch.age \in Nat
    BY Types DEF Inv, Flights
  <2> QED
    BY <2>1, <2>2, RequestAges, Limits
<1>3. ASSUME NEW r \in Request PROVE AgeOK(request'[r])
  <2>1. CASE r \in Fetching
    <3> DEFINE s == Placed(request[r].result, fetch)
               q == [request[r] EXCEPT !.pc = "writeFact", !.result = s]
    <3>1. request'[r] = q
      BY <2>1 DEF FetchLand
    <3>2. s.age = fetch.age
      BY RequestAges DEF Placed, Result
    <3> HIDE DEF s
    <3>3. q.pc = "writeFact" /\ q.held = request[r].held /\ q.result = s
      BY RequestAges DEF Requests
    <3> HIDE DEF q
    <3> QED
      BY <1>2, <3>1, <3>2, <3>3, RequestAges, Limits DEF AgeOK
  <2>2. CASE r \notin Fetching
    BY <2>2, RequestAges DEF FetchLand
  <2> QED
    BY <2>1, <2>2
<1>4. FetchHeld'
  BY <1>1 DEF FetchHeld, Nobody
<1>5. (\A f \in facts : FactAgeOK(f))' /\ (\A d \in decisions : DecisionAgeOK(d))'
  BY <1>1 DEF AgeInv, FactAgeOK, DecisionAgeOK
<1> QED
  BY <1>3, <1>4, <1>5 DEF AgeInv, AgeOK

\* A failed flight leaves idle evaluations behind.
LEMMA FetchFailAge == ASSUME Inv, AgeInv, FetchFail PROVE AgeInv'
<1>1. UNCHANGED <<facts, decisions>> /\ fetch' = Nobody
  BY DEF FetchFail
<1>2. ASSUME NEW r \in Request PROVE AgeOK(request'[r])
  <2>1. request'[r] = Idle \/ request'[r] = request[r]
    BY DEF FetchFail
  <2> QED
    BY <2>1, IdleAge, RequestAges
<1>3. FetchHeld'
  BY <1>1 DEF FetchHeld, Nobody
<1>4. (\A f \in facts : FactAgeOK(f))' /\ (\A d \in decisions : DecisionAgeOK(d))'
  BY <1>1 DEF AgeInv, FactAgeOK, DecisionAgeOK
<1> QED
  BY <1>2, <1>3, <1>4 DEF AgeInv, AgeOK

\* One evaluation moves on and may write a cache: the rest is as it was.
LEMMA WriterAge ==
  ASSUME Inv, AgeInv, UNCHANGED fetch, NEW r \in Request, NEW pc,
         request' = [request EXCEPT ![r].pc = pc],
         request[r].pc # "fetching", Limit(request[r].pc) <= Limit(pc),
         Limit(request[r].pc) \in Nat, Limit(pc) \in Nat,
         \A f \in facts' : FactAgeOK(f),
         \A d \in decisions' : DecisionAgeOK(d)
  PROVE  AgeInv'
<1> DEFINE q == [request[r] EXCEPT !.pc = pc]
<1>1. /\ request'[r] = q /\ \A s \in Request \ {r} : request'[s] = request[s]
  BY Types DEF Inv
<1>2. q.pc = pc /\ q.held = request[r].held /\ q.result = request[r].result
  BY RequestAges DEF Requests
<1> HIDE DEF q
<1>3. AgeOK(q)
  BY <1>2, RequestAges DEF AgeOK
<1>4. \A s \in Request : AgeOK(request'[s])
  BY <1>1, <1>3 DEF AgeInv
<1>5. FetchHeld'
  <2> SUFFICES ASSUME fetch.running
               PROVE  \E s \in Request : request'[s].pc = "fetching" /\ fetch.age <= request'[s].held
    BY DEF FetchHeld
  <2>1. PICK s \in Request : request[s].pc = "fetching" /\ fetch.age <= request[s].held
    BY DEF AgeInv, FetchHeld
  <2>2. request'[s] = request[s]
    BY <1>1, <2>1
  <2> QED
    BY <2>1, <2>2
<1> QED
  BY <1>4, <1>5 DEF AgeInv, AgeOK, FactAgeOK, DecisionAgeOK

\* A fact begins its life with what two evaluations held its place.
LEMMA WriteFactAge == ASSUME Inv, AgeInv, NEW r \in Request, WriteFact(r) PROVE AgeInv'
<1>1. /\ request' = [request EXCEPT ![r].pc = "ancestors"] /\ request[r].pc = "writeFact"
      /\ UNCHANGED <<fetch, decisions>>
  BY DEF WriteFact
<1>2. \A f \in facts' : FactAgeOK(f)
  <2>1. CASE facts' = facts
    BY <2>1 DEF AgeInv
  <2>2. ASSUME NEW left \in (FactTTL - Jitter)..FactTTL,
               facts' = Put(facts, [key |-> request[r].factKey, left |-> left,
                                    place |-> request[r].result.place,
                                    age |-> request[r].result.age])
        PROVE  \A f \in facts' : FactAgeOK(f)
    <3> DEFINE new == [key |-> request[r].factKey, left |-> left,
                       place |-> request[r].result.place, age |-> request[r].result.age]
    <3>1. left \in Nat /\ left >= 1 /\ left <= FactTTL
      BY BoundsAssumption
    <3>2. new.left = left /\ new.age = request[r].result.age
      OBVIOUS
    <3>3. facts' \subseteq facts \cup {new}
      BY <2>2 DEF Put
    <3> HIDE DEF new
    <3>4. request[r].result.age <= 2 * MaxHold
      BY <1>1, RequestAges, Limits DEF AgeOK
    <3>5. FactAgeOK(new)
      BY <3>1, <3>2, <3>4, RequestAges, Limits DEF FactAgeOK
    <3> QED
      BY <3>3, <3>5 DEF AgeInv
  <2> QED
    BY <2>1, <2>2 DEF WriteFact
<1>3. \A d \in decisions' : DecisionAgeOK(d)
  BY <1>1 DEF AgeInv
<1>4. /\ Limit("writeFact") <= Limit("ancestors")
      /\ Limit("writeFact") \in Nat /\ Limit("ancestors") \in Nat
  BY Limits
<1> QED
  BY <1>1, <1>2, <1>3, <1>4, WriterAge

\* A decision begins its life with the age of the fact it rests on: that is why
\* the two lifetimes add up.
LEMMA WriteDecisionAge ==
  ASSUME Inv, AgeInv, NEW r \in Request, WriteDecision(r) PROVE AgeInv'
<1>1. /\ request' = [request EXCEPT ![r].pc = "answered"] /\ request[r].pc = "write"
      /\ UNCHANGED <<fetch, facts>>
  BY DEF WriteDecision
<1>2. \A d \in decisions' : DecisionAgeOK(d)
  <2>1. CASE decisions' = decisions
    BY <2>1 DEF AgeInv
  <2>2. ASSUME NEW left \in (DecisionTTL - Jitter)..DecisionTTL,
               decisions' = Put(decisions, [key |-> request[r].key, left |-> left,
                                            result |-> request[r].result])
        PROVE  \A d \in decisions' : DecisionAgeOK(d)
    <3> DEFINE new == [key |-> request[r].key, left |-> left, result |-> request[r].result]
    <3>1. left \in Nat /\ left >= 1 /\ left <= DecisionTTL
      BY BoundsAssumption
    <3>2. new.left = left /\ new.result = request[r].result
      OBVIOUS
    <3>3. decisions' \subseteq decisions \cup {new}
      BY <2>2 DEF Put
    <3> HIDE DEF new
    <3>4. request[r].result.age <= 4 * MaxHold + (FactTTL - 1)
      BY <1>1, RequestAges, Limits DEF AgeOK
    <3>5. DecisionAgeOK(new)
      BY <3>1, <3>2, <3>4, RequestAges, Limits DEF DecisionAgeOK
    <3> QED
      BY <3>3, <3>5 DEF AgeInv
  <2> QED
    BY <2>1, <2>2 DEF WriteDecision
<1>3. \A f \in facts' : FactAgeOK(f)
  BY <1>1 DEF AgeInv
<1>4. Limit("write") <= Limit("answered") /\ Limit("write") \in Nat /\ Limit("answered") \in Nat
  BY Limits
<1> QED
  BY <1>1, <1>2, <1>3, <1>4, WriterAge

\* The answer is taken.
LEMMA ReturnAge == ASSUME Inv, AgeInv, NEW r \in Request, Return(r) PROVE AgeInv'
BY IdleAge, OneRequestAge DEF Return

\* A place grows older by a tick, and nothing else of its holder changes.
LEMMA OlderResult ==
  ASSUME NEW s \in Result
  PROVE  Older(s).age \in {s.age, s.age + 1}
BY DEF Older, Result

\* A tick makes what is cached older and shortens its life; what is held grows
\* older with its holder.
LEMMA TickAge == ASSUME Inv, AgeInv, Tick PROVE AgeInv'
<1>1. ASSUME NEW r \in Request
      PROVE  /\ AgeOK(request'[r])
             /\ Running(r) => /\ request'[r].held = request[r].held + 1
                              /\ request'[r].pc = request[r].pc
  <2>1. request[r] \in Requests /\ request[r].result \in Result
    BY RequestAges
  <2>2. CASE Running(r)
    <3> DEFINE s == Older(request[r].result)
               n == request[r].held + 1
               q == [request[r] EXCEPT !.held = n, !.result = s]
    <3>1. request'[r] = q
      BY <2>2 DEF Tick
    <3>2. s.age \in {request[r].result.age, request[r].result.age + 1}
      BY <2>1, OlderResult
    <3>3. n <= MaxHold
      <4>1. request[r].held < MaxHold
        BY <2>2 DEF Tick
      <4>2. request[r].held \in Nat /\ MaxHold \in Nat
        BY RequestAges, Limits
      <4> QED
        BY <4>1, <4>2
    <3> HIDE DEF s
    <3>4. q.held = n /\ q.pc = request[r].pc /\ q.result = s
      BY <2>1 DEF Requests
    <3> HIDE DEF q
    <3>5. Limit(request[r].pc) \in Nat
      BY <2>1, Limits DEF Requests
    <3>6. AgeOK(q)
      BY <3>2, <3>3, <3>4, <3>5, RequestAges DEF AgeOK
    <3> QED
      BY <3>1, <3>4, <3>6
  <2>3. CASE ~Running(r)
    BY <2>3, RequestAges DEF Tick
  <2> QED
    BY <2>2, <2>3
<1>2. ASSUME NEW f \in facts' PROVE FactAgeOK(f)
  <2>1. PICK g \in Alive(facts) : f = [Older(g) EXCEPT !.left = @ - 1]
    BY DEF Tick
  <2>2. g \in Facts /\ g.left > 1 /\ FactAgeOK(g)
    BY Types DEF Inv, Alive, AgeInv
  <2>3. Older(g) \in Facts /\ Older(g).left = g.left /\ Older(g).age \in {g.age, g.age + 1}
    BY <2>2 DEF Older, Facts
  <2>4. f.left = g.left - 1 /\ f.age = Older(g).age
    BY <2>1, <2>3 DEF Facts
  <2>5. g.left \in Nat /\ g.age \in Nat
    BY <2>2 DEF Facts
  <2> QED
    BY <2>2, <2>3, <2>4, <2>5, Limits DEF FactAgeOK
<1>3. ASSUME NEW x \in decisions' PROVE DecisionAgeOK(x)
  <2>1. PICK d \in Alive(decisions) : x = [d EXCEPT !.left = @ - 1, !.result = Older(d.result)]
    BY DEF Tick
  <2>2. d \in Decisions /\ d.left > 1 /\ d.result \in Result /\ DecisionAgeOK(d)
    BY Types DEF Inv, Alive, Decisions, AgeInv
  <2> DEFINE s == Older(d.result)
             n == d.left - 1
  <2>3. s.age \in {d.result.age, d.result.age + 1} /\ d.result.age \in Nat
    BY <2>2, OlderResult DEF Result
  <2>4. x = [d EXCEPT !.left = n, !.result = s]
    BY <2>1
  <2> HIDE DEF s
  <2>5. x.left = n /\ x.result = s /\ d.left \in Nat
    BY <2>2, <2>4 DEF Decisions
  <2> QED
    BY <2>2, <2>3, <2>5, Limits DEF DecisionAgeOK
<1>4. FetchHeld'
  <2> SUFFICES ASSUME fetch'.running
               PROVE  \E r \in Request : request'[r].pc = "fetching" /\ fetch'.age <= request'[r].held
    BY DEF FetchHeld
  <2>1. fetch \in Flights
    BY Types DEF Inv
  <2>2. fetch.running /\ fetch' = Older(fetch)
    BY DEF Tick
  <2>3. fetch.age \in Nat /\ fetch'.age \in {fetch.age, fetch.age + 1}
    BY <2>1, <2>2 DEF Older, Flights
  <2>4. PICK r \in Request : request[r].pc = "fetching" /\ fetch.age <= request[r].held
    BY <2>2 DEF AgeInv, FetchHeld
  <2>5. request'[r].held = request[r].held + 1 /\ request'[r].pc = "fetching"
    BY <1>1, <2>4 DEF Running
  <2> QED
    BY <2>3, <2>4, <2>5, RequestAges
<1> QED
  BY <1>1, <1>2, <1>3, <1>4 DEF AgeInv, AgeOK, FactAgeOK, DecisionAgeOK

\* Every step keeps the ages within their limits.
LEMMA NextAge == Inv /\ AgeInv /\ [Next]_vars => AgeInv'
<1> SUFFICES ASSUME Inv, AgeInv, [Next]_vars PROVE AgeInv'
  OBVIOUS
<1>1. CASE UNCHANGED <<facts, fetch, decisions, request>>
  BY <1>1 DEF AgeInv, AgeOK, FactAgeOK, DecisionAgeOK, FetchHeld
<1>2. ASSUME NEW p \in Piece, Commit(p) PROVE AgeInv'
  BY <1>1, <1>2 DEF Commit
<1>3. ASSUME NEW d \in due, Bump(d) PROVE AgeInv'
  BY <1>1, <1>3 DEF Bump
<1>4. ASSUME NEW r \in Request, Evaluate(r) PROVE AgeInv'
  BY <1>4, BeginAge, ReadEpochsAge, DecisionHitAge, DecisionMissAge, QueryGrantsAge,
     ReadFactEpochAge, FactHitAge, FactMissAge, WriteFactAge, QueryAncestorsAge,
     WriteDecisionAge, ReturnAge DEF Evaluate
<1>5. CASE UNCHANGED vars
  BY <1>1, <1>5 DEF vars
<1> QED
  BY <1>2, <1>3, <1>4, <1>5, FetchReadAge, FetchLandAge, FetchFailAge, TickAge DEF Next

\* With every bump lost, the place an answer rests on is no older than the two
\* lifetimes one after the other and what five evaluations take: the exposure
\* that the TTLs of cached decisions and of folder facts together bound.
THEOREM ExposureIsBounded == Spec => []ExposureBounded
<1>1. Init => AgeInv
  <2> SUFFICES ASSUME Init PROVE AgeInv
    OBVIOUS
  <2>1. \A r \in Request : AgeOK(request[r])
    BY IdleAge DEF Init
  <2> QED
    BY <2>1 DEF Init, AgeInv, FetchHeld, Nobody
<1>2. Inv /\ AgeInv => ExposureBounded
  <2> SUFFICES ASSUME Inv, AgeInv, NEW r \in Request, Answered(r)
               PROVE  request[r].result.age <= (FactTTL - 1) + (DecisionTTL - 1) + 5 * MaxHold
    BY DEF ExposureBounded
  <2> QED
    BY RequestAges, Limits DEF AgeOK, Answered
<1> QED
  BY <1>1, <1>2, NextAge, Invariance, PTL DEF Spec
=============================================================================
