--------------------------- MODULE DecisionCache ---------------------------
(***************************************************************************)
(* Access Core's authorization decisions and the two Redis caches behind   *)
(* them, for one user, one organization and one folder.                    *)
(*                                                                         *)
(* A decision rests on four pieces of data: the user's role set, the       *)
(* object permissions granted to the user, those granted to the role, and  *)
(* the folder's place in the hierarchy (its ancestors).  The value of a    *)
(* piece is abstracted to a version number; what the properties relate is  *)
(* which version an answer was computed from.                              *)
(*                                                                         *)
(* A cached decision is keyed by the asset, user and role epochs, by the   *)
(* role set and by the request; a cached hierarchy fact by the asset       *)
(* epoch.  A writer commits first and bumps the epoch afterwards; the bump *)
(* may be lost.  A failed epoch read yields 0.  Every value expires.       *)
(***************************************************************************)
EXTENDS Integers, Sequences, FiniteSetsExt

CONSTANTS Request,      \* evaluations of canDo that may run at once
          MaxChanges,   \* bound on the committed changes of a behaviour
          MaxEpoch,     \* bound on an epoch
          Unreliable,   \* the epochs whose read may fail
          Restores,     \* whether evaluations with known ancestors occur
          DecisionTTL,  \* decisionMaxTtlMs, in ticks
          FactTTL,      \* factMaxTtlMs, in ticks
          Jitter,       \* the largest downward jitter, in ticks
          MaxHold       \* ticks an evaluation may take

ASSUME BoundsAssumption ==
    /\ MaxChanges \in Nat /\ MaxEpoch \in Nat /\ MaxHold \in Nat
    /\ DecisionTTL \in Nat /\ FactTTL \in Nat /\ Jitter \in Nat
    /\ Jitter < DecisionTTL /\ Jitter < FactTTL
    /\ Unreliable \subseteq {"user", "role", "asset"}
    /\ Restores \subseteq BOOLEAN

VARIABLES
    db,         \* committed version of each piece of data
    bumped,     \* per epoch, the version each of its bumps announced, in order
    due,        \* <<piece, version>>: committed, its bump not yet performed
    facts,      \* cached hierarchy facts
    fetch,      \* the single flight of the folder's hierarchy fact
    decisions,  \* cached decisions
    request     \* the running evaluations

vars == <<db, bumped, due, facts, fetch, decisions, request>>

Piece == {"roles", "user", "role", "place"}
Epoch == {"user", "role", "asset"}

\* The epoch that announces a change of a piece: assignRole and revokeRole
\* bump the user epoch, a grant or revocation its grantee's epoch, and the
\* consumer of asset events the asset epoch.
EpochOf(p) == CASE p = "roles" -> "user" [] p = "user" -> "user"
                [] p = "role" -> "role"  [] OTHER -> "asset"

epoch(e) == Len(bumped[e])

\* The version of piece p that a bump had announced when its epoch was n.
AnnouncedAt(p, n) == IF n = 0 THEN 0 ELSE bumped[EpochOf(p)][n][p]
Announced(p) == AnnouncedAt(p, epoch(EpochOf(p)))

NoPlace == -1
Nobody == [running |-> FALSE, place |-> NoPlace, age |-> 0]
NoKey == [asset |-> 0, user |-> 0, role |-> 0, roles |-> 0]
NoResult == [user |-> 0, role |-> 0, roles |-> 0, place |-> NoPlace, age |-> 0]

Idle == [pc |-> "idle", known |-> FALSE, key |-> NoKey, factKey |-> 0,
         trusted |-> {}, floor |-> [p \in Piece |-> 0], leader |-> FALSE,
         result |-> NoResult, held |-> 0]

Init ==
    /\ db = [p \in Piece |-> 0]
    /\ bumped = [e \in Epoch |-> <<>>]
    /\ due = {}
    /\ facts = {}
    /\ fetch = Nobody
    /\ decisions = {}
    /\ request = [r \in Request |-> Idle]

-----------------------------------------------------------------------------
\* Writers.

\* A role is assigned or revoked, a permission granted or revoked, a folder
\* moved, deleted or restored: the database commits, the bump comes later.
Commit(p) ==
    /\ MapThenSumSet(LAMBDA q : db[q], Piece) < MaxChanges
    /\ db' = [db EXCEPT ![p] = @ + 1]
    /\ due' = due \cup {<<p, db[p] + 1>>}
    /\ UNCHANGED <<bumped, facts, fetch, decisions, request>>

\* The announced versions after the bump for change d of its epoch.
AnnouncedWith(d) ==
    [q \in Piece |-> IF q = d[1] /\ d[2] > Announced(q) THEN d[2]
                     ELSE IF EpochOf(q) = EpochOf(d[1]) THEN Announced(q) ELSE 0]

\* bumpEpoch increments the key.  A stream event may be applied twice, when
\* its marker expired before the redelivery.  Nothing obliges a due bump to
\* happen: one that Redis refused (lost_publish), an event that was never
\* published or that ended in the dead letter stream, is a bump still due.
Bump(d) ==
    /\ d \in due
    /\ epoch(EpochOf(d[1])) < MaxEpoch
    /\ bumped' = [bumped EXCEPT ![EpochOf(d[1])] = Append(@, AnnouncedWith(d))]
    /\ \/ due' = due \ {d}
       \/ d[1] = "place" /\ due' = due
    /\ UNCHANGED <<db, facts, fetch, decisions, request>>

-----------------------------------------------------------------------------
\* One evaluation.

\* The request's snapshot fixes the role set.  A restore loads the ancestors
\* before it asks for the decision (canDoWithKnownAncestors).
Begin(r) ==
    /\ request[r].pc = "idle"
    /\ \E known \in Restores :
         request' = [request EXCEPT ![r] =
             [Idle EXCEPT !.pc = "epochs", !.known = known,
                          !.key = [NoKey EXCEPT !.roles = db["roles"] % 2],
                          !.floor = [p \in Piece |-> Announced(p)],
                          !.result = [NoResult EXCEPT
                              !.roles = db["roles"] % 2,
                              !.place = IF known THEN db["place"] ELSE NoPlace]]]
    /\ UNCHANGED <<db, bumped, due, facts, fetch, decisions>>

\* What readEpoch returns when Redis does not answer.
UnreadAbsent == -1  \* faulty variant: a value of its own
Unread == 0

\* readEpoch: the current value, or 0 when Redis does not answer.
ReadEpochs(r) ==
    /\ request[r].pc = "epochs"
    /\ \E ok \in {o \in SUBSET {"user", "asset"} : {"user", "asset"} \ Unreliable \subseteq o} :
         request' = [request EXCEPT ![r] = [@ EXCEPT
             !.pc = "lookup",
             !.trusted = ok,
             !.key = [request[r].key EXCEPT
                 !.user = IF "user" \in ok THEN epoch("user") ELSE Unread,
                 !.asset = IF "asset" \in ok THEN epoch("asset") ELSE Unread]]]
    /\ UNCHANGED <<db, bumped, due, facts, fetch, decisions>>

\* Entries and flights are found by the whole key.
SameKeyButUser(k, l) == [k EXCEPT !.user = l.user] = l    \* faulty variant
SameKeyButRoles(k, l) == [k EXCEPT !.roles = l.roles] = l \* faulty variant
SameKey(k, l) == k = l

\* decisionKey: the role epochs, read last, complete the key.
KeyOf(r, ok) == [request[r].key EXCEPT !.role = IF ok THEN epoch("role") ELSE Unread]

RoleEpochRead == {TRUE} \cup (IF "role" \in Unreliable THEN {FALSE} ELSE {})

Keyed(r, ok) == [request[r] EXCEPT !.key = KeyOf(r, ok),
                                   !.trusted = @ \cup (IF ok THEN {"role"} ELSE {})]

\* readDecision: an entry answers the requests of its key.
DecisionHit(r) ==
    /\ request[r].pc = "lookup"
    /\ \E ok \in RoleEpochRead, d \in decisions :
         /\ SameKey(d.key, KeyOf(r, ok))
         /\ request' = [request EXCEPT ![r] = [Keyed(r, ok) EXCEPT !.pc = "answered",
                                                                  !.result = d.result]]
    /\ UNCHANGED <<db, bumped, due, facts, fetch, decisions>>

\* No entry, or Redis bypassed: the decision is computed once per key, and
\* later callers with the key wait for the first.
DecisionMiss(r) ==
    /\ request[r].pc = "lookup"
    /\ \E ok \in RoleEpochRead :
         LET led == \E l \in Request : request[l].leader /\ SameKey(request[l].key, KeyOf(r, ok))
         IN request' = [request EXCEPT ![r] =
                [Keyed(r, ok) EXCEPT !.pc = IF led THEN "coalesced" ELSE "grants",
                                     !.leader = ~led]]
    /\ UNCHANGED <<db, bumped, due, facts, fetch, decisions>>

\* The decision of r is made: its flight ends and every caller that waited for
\* it receives the result.
Resolved(r, result) ==
    [q \in Request |->
        IF q = r THEN [request[q] EXCEPT !.pc = "write", !.leader = FALSE, !.result = result]
        ELSE IF request[q].pc = "coalesced" /\ SameKey(request[q].key, request[r].key)
        THEN [request[q] EXCEPT !.pc = "write", !.result = result]
        ELSE request[q]]

\* findGrantedResourceIds reads the direct grants of the user and of the role.
\* When they do not allow the action, the ancestors' grants are asked for.
QueryGrants(r) ==
    /\ request[r].pc = "grants"
    /\ LET granted == [request[r].result EXCEPT !.user = db["user"], !.role = db["role"]]
       IN \/ request' = Resolved(r, [granted EXCEPT !.place = NoPlace, !.age = 0])
          \/ request' = [request EXCEPT ![r].result = granted,
                            ![r].pc = IF request[r].known THEN "ancestors" ELSE "factEpoch"]
    /\ UNCHANGED <<db, bumped, due, facts, fetch, decisions>>

\* readFolderFactThrough reads the asset epoch anew for the fact's key.
ReadFactEpoch(r) ==
    /\ request[r].pc = "factEpoch"
    /\ \E e \in {epoch("asset")} \cup (IF "asset" \in Unreliable THEN {Unread} ELSE {}) :
         request' = [request EXCEPT ![r].pc = "fact", ![r].factKey = e]
    /\ UNCHANGED <<db, bumped, due, facts, fetch, decisions>>

\* A result that rests on the place x holds, as old as it is there.
Placed(s, x) == [s EXCEPT !.place = x.place, !.age = x.age]

FactHit(r) ==
    /\ request[r].pc = "fact"
    /\ \E f \in facts :
         /\ f.key = request[r].factKey
         /\ request' = [request EXCEPT ![r].pc = "ancestors",
                                       ![r].result = Placed(@, f)]
    /\ UNCHANGED <<db, bumped, due, facts, fetch, decisions>>

\* The loader's single flight is keyed by the folder alone: a caller joins the
\* request to Asset Core that is under way, whatever its own epoch.
FactMiss(r) ==
    /\ request[r].pc = "fact"
    /\ request' = [request EXCEPT ![r].pc = "fetching"]
    /\ fetch' = IF fetch.running THEN fetch
                ELSE [Nobody EXCEPT !.running = TRUE]
    /\ UNCHANGED <<db, bumped, due, facts, decisions>>

\* Asset Core reads the folder.
FetchRead ==
    /\ fetch.running
    /\ fetch.place = NoPlace
    /\ fetch' = [fetch EXCEPT !.place = db["place"]]
    /\ UNCHANGED <<db, bumped, due, facts, decisions, request>>

Fetching == {r \in Request : request[r].pc = "fetching"}

\* The response reaches every caller of the flight.
FetchLand ==
    /\ fetch.running
    /\ fetch.place # NoPlace
    /\ fetch' = Nobody
    /\ request' = [r \in Request |->
                     IF r \in Fetching
                     THEN [request[r] EXCEPT !.pc = "writeFact", !.result = Placed(@, fetch)]
                     ELSE request[r]]
    /\ UNCHANGED <<db, bumped, due, facts, decisions>>

\* Asset Core failed or the breaker is open: the error reaches every caller of
\* the flight and everyone waiting for their decisions; nothing is cached.
FetchFail ==
    /\ fetch.running
    /\ fetch' = Nobody
    /\ LET failed == {r \in Request : \/ r \in Fetching
                                      \/ /\ request[r].pc = "coalesced"
                                         /\ \E l \in Fetching : SameKey(request[l].key, request[r].key)}
       IN request' = [r \in Request |-> IF r \in failed THEN Idle ELSE request[r]]
    /\ UNCHANGED <<db, bumped, due, facts, decisions>>

\* SET ... PX replaces the entry of the key; Redis may refuse it.
Put(cache, entry) == {c \in cache : c.key # entry.key} \cup {entry}

WriteFact(r) ==
    /\ request[r].pc = "writeFact"
    /\ \/ UNCHANGED facts
       \/ \E left \in (FactTTL - Jitter)..FactTTL :
            facts' = Put(facts, [key |-> request[r].factKey, left |-> left,
                                 place |-> request[r].result.place,
                                 age |-> request[r].result.age])
    /\ request' = [request EXCEPT ![r].pc = "ancestors"]
    /\ UNCHANGED <<db, bumped, due, fetch, decisions>>

\* The grants on the ancestors settle the decision; they are read later than
\* the direct grants, so the versions of the result are the oldest it rests on.
QueryAncestors(r) ==
    /\ request[r].pc = "ancestors"
    /\ request' = Resolved(r, request[r].result)
    /\ UNCHANGED <<db, bumped, due, facts, fetch, decisions>>

\* Every caller of the flight writes the decision under the key it read.
WriteDecision(r) ==
    /\ request[r].pc = "write"
    /\ \/ UNCHANGED decisions
       \/ \E left \in (DecisionTTL - Jitter)..DecisionTTL :
            decisions' = Put(decisions, [key |-> request[r].key, left |-> left,
                                         result |-> request[r].result])
    /\ request' = [request EXCEPT ![r].pc = "answered"]
    /\ UNCHANGED <<db, bumped, due, facts, fetch>>

\* The caller takes the answer.
Return(r) ==
    /\ request[r].pc = "answered"
    /\ request' = [request EXCEPT ![r] = Idle]
    /\ UNCHANGED <<db, bumped, due, facts, fetch, decisions>>

-----------------------------------------------------------------------------
\* Time.

Running(r) == request[r].pc # "idle"
HasPlace(x) == x.place # NoPlace

Older(x) == IF HasPlace(x) THEN [x EXCEPT !.age = @ + 1] ELSE x

AliveTooLong(cache) == {c \in cache : c.left > 0}  \* faulty variant
Alive(cache) == {c \in cache : c.left > 1}

\* A tick ages what is held and expires what has reached its TTL.  An
\* evaluation takes at most MaxHold ticks.
Tick ==
    /\ \A r \in Request : Running(r) => request[r].held < MaxHold
    /\ facts' = {[Older(f) EXCEPT !.left = @ - 1] : f \in Alive(facts)}
    /\ decisions' = {[d EXCEPT !.left = @ - 1, !.result = Older(d.result)] : d \in Alive(decisions)}
    /\ fetch' = IF fetch.running THEN Older(fetch) ELSE fetch
    /\ request' = [r \in Request |->
                     IF Running(r) THEN [request[r] EXCEPT !.held = @ + 1,
                                                           !.result = Older(@)]
                     ELSE request[r]]
    /\ UNCHANGED <<db, bumped, due>>

-----------------------------------------------------------------------------
Evaluate(r) ==
    \/ Begin(r) \/ ReadEpochs(r)
    \/ DecisionHit(r) \/ DecisionMiss(r) \/ QueryGrants(r)
    \/ ReadFactEpoch(r) \/ FactHit(r) \/ FactMiss(r)
    \/ WriteFact(r) \/ QueryAncestors(r) \/ WriteDecision(r) \/ Return(r)

Next ==
    \/ \E p \in Piece : Commit(p)
    \/ \E d \in due : Bump(d)
    \/ \E r \in Request : Evaluate(r)
    \/ FetchRead \/ FetchLand \/ FetchFail
    \/ Tick

Spec == Init /\ [][Next]_vars

-----------------------------------------------------------------------------
Key == [asset : Nat, user : Nat, role : Nat, roles : Nat]
Result == [user : Nat, role : Nat, roles : Nat, place : Nat \cup {NoPlace}, age : Nat]

\* Types of the caches, the flights and the evaluations.
TypeOK ==
    /\ db \in [Piece -> Nat]
    /\ bumped \in [Epoch -> Seq([Piece -> Nat])]
    /\ due \subseteq Piece \X Nat
    /\ facts \subseteq [key : Nat, left : Nat, place : Nat \cup {NoPlace}, age : Nat]
    /\ fetch \in [running : BOOLEAN, place : Nat \cup {NoPlace}, age : Nat]
    /\ decisions \subseteq [key : Key, left : Nat, result : Result]
    /\ request \in [Request ->
           [pc : {"idle", "epochs", "lookup", "coalesced", "grants", "factEpoch", "fact",
                  "fetching", "writeFact", "ancestors", "write", "answered"},
            known : BOOLEAN, key : Key, factKey : Nat, trusted : SUBSET Epoch,
            floor : [Piece -> Nat], leader : BOOLEAN, result : Result, held : Nat]]

Answered(r) == request[r].pc = "answered"

\* A grant or a revocation whose epoch bump was done before an evaluation
\* began is seen by it, wherever its answer comes from: the cache, another
\* evaluation's flight, or the database.  It needs the epoch to have been read.
GrantChangeSeen ==
    \A r \in Request : Answered(r) =>
        \A p \in {"user", "role"} :
            p \in request[r].trusted => request[r].result[p] >= request[r].floor[p]

\* An answer was computed for the role set of the request it is given to: an
\* assigned or revoked role takes effect with the next request even when the
\* bump of the user epoch is lost, because the role set is part of the key.
OwnRoleSet ==
    \A r \in Request : Answered(r) => request[r].result.roles = request[r].key.roles

\* Lost bumps and joined flights notwithstanding, the place an answer rests on
\* is no older than the two TTLs one after the other, and the time up to five
\* evaluations hold it: the fetch, its joiner, the reader of the fact, the
\* joiner of the decision, the reader of the decision.
ExposureBounded ==
    \A r \in Request : Answered(r) =>
        request[r].result.age <= (FactTTL - 1) + (DecisionTTL - 1) + 5 * MaxHold

\* "The 4s cache TTL is the sole correctness backstop for a lost post-commit
\* epoch bump/publish": no answer rests on a place older than the ceiling the
\* two TTLs share.  It is not so: a fact about to expire is copied into a
\* decision that lives for another TTL.
TTLCeiling ==
    \A r \in Request : Answered(r) =>
        request[r].result.age <= Max({DecisionTTL, FactTTL}) + 5 * MaxHold

\* "Bumping epoch:asset after a move stops inheriting from the old ancestor":
\* an evaluation that began after the bump does not use the old place.  It is
\* not so: the fact's single flight is joined whatever the epoch, and a
\* restore reads the ancestors before the epochs.
MoveSeen ==
    \A r \in Request :
        (Answered(r) /\ "asset" \in request[r].trusted /\ request[r].result.place # NoPlace)
            => request[r].result.place >= request[r].floor["place"]

\* A failed epoch read is to be treated "as a cache miss": the evaluation sees
\* the grant changes announced before it.  It is not so: 0 is the key of the
\* entries written before the first bump.
FailedReadMisses ==
    \A r \in Request : Answered(r) => request[r].result["user"] >= request[r].floor["user"]
=============================================================================
