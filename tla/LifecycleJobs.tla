--------------------------- MODULE LifecycleJobs ---------------------------
(***************************************************************************)
(* The recycle bin of asset-core for one organization: a tree of folders   *)
(* with metadata items in them, the lifecycle units that group what was    *)
(* deleted together, the jobs that delete, restore and purge units in      *)
(* bounded batches, the delete workers that claim those jobs, the          *)
(* catalogue operations that go on beside them behind a fence, and the     *)
(* sample import, which asks neither for the fence nor for the             *)
(* organization's lock.  Media of a purged item are in MediaUpload.        *)
(*                                                                         *)
(* Every transaction is one step, but for the import's.  A unit has at     *)
(* most one unfinished job (unique index), and a finished one is followed  *)
(* by at most one other, so a unit's latest job stands for all of them.    *)
(* Time is what it does: a lease may expire, a delayed retry becomes due,  *)
(* a retention period ends.                                                *)
(***************************************************************************)
EXTENDS Naturals, FiniteSets, SequencesExt

CONSTANTS
    Folders, Items, \* rows of folders and metadata_items
    Place,          \* the folder an item or a folder starts in
    Units,          \* asset_lifecycle_units
    Workers,        \* asset-delete-worker processes
    Imports,        \* transactions of ImportSampleTransaction under way at once
    None,           \* a NULL column
    MaxAttempts,    \* FolderDeletionMaxAttempts
    MaxJobs,        \* bound: lifecycle jobs that are created
    Contended       \* rows another transaction (of media, a request, an access
                    \* check) may have locked when a batch selects FOR UPDATE
                    \* SKIP LOCKED

Nodes == Folders \cup Items

ASSUME TreeAssumption ==
    /\ Place \in [Nodes -> Folders \cup {None}]
    /\ \A m \in Items : Place[m] \in Folders
    /\ Folders \cap Items = {}
    /\ None \notin Nodes \cup Units \cup Workers
    /\ IsFiniteSet(Workers)
    /\ MaxAttempts \in Nat \ {0}
    /\ MaxJobs \in Nat
    /\ Contended \subseteq Nodes

VARIABLES
    \* --- folders and metadata_items
    node,      \* "absent", "inserted" (not committed), "live", "deleted"
               \* (tombstone) or "gone" (row removed)
    path,      \* per folder: its ltree path, itself last
    place,     \* per item: folder_id
    member,    \* lifecycle_unit_id
    \* --- asset_lifecycle_units
    state,     \* "none" or the unit's state
    root,      \* root_resource_id
    rootPath,  \* root_folder_path, as it was at the deletion
    \* --- asset_lifecycle_jobs and the folder_deletion_jobs row beside them
    job,       \* the unit's latest job
    legacy,    \* status of the compatibility row of a delete job
    queued,    \* number of jobs created so far: the order of queued_at
    \* --- delete workers
    worker,    \* the unit whose job a worker processes, and the item it purges
    \* --- transactions of the import
    import     \* what each has read and what it has written

treeVars == <<node, path, place, member>>
unitVars == <<state, root, rootPath>>
jobVars  == <<job, legacy, queued>>
vars     == <<treeVars, unitVars, jobVars, worker, import>>

NoJob == [op |-> "none", status |-> "none", attempts |-> 0, due |-> FALSE,
          owner |-> None, leased |-> FALSE, turn |-> 0]

\* An import goes down one chain of the dataset's folders: the path of the last
\* one as it was read or made, the folders it made, and the item it looks up, as
\* it was read, written or not yet.
NoImport == [path |-> <<>>, made |-> {}, item |-> None, was |-> "none",
             written |-> FALSE]

UnitStates == {"none", "deleting", "deleted", "restore_queued", "restoring",
               "restored", "purge_queued", "purging", "purged", "failed"}

\* FolderDeletionJobStatus; a previewed row is not yet a job.
LegacyStates == {"none", "queued", "running", "succeeded", "failed", "cancelled"}

TypeOK ==
    /\ node \in [Nodes -> {"absent", "inserted", "live", "deleted", "gone"}]
    /\ path \in [Folders -> Seq(Folders)]
    /\ place \in [Items -> Folders]
    /\ member \in [Nodes -> Units \cup {None}]
    /\ state \in [Units -> UnitStates]
    /\ root \in [Units -> Nodes \cup {None}]
    /\ rootPath \in [Units -> Seq(Folders)]
    /\ job \in [Units -> [op : {"none", "delete", "restore", "purge"},
                          status : {"none", "queued", "running", "succeeded",
                                    "failed", "suppressed"},
                          attempts : 0..MaxAttempts, due : BOOLEAN,
                          owner : Workers \cup {None}, leased : BOOLEAN,
                          turn : Nat]]
    /\ legacy \in [Units -> LegacyStates]
    /\ queued \in Nat
    /\ worker \in [Workers -> {None} \cup
                     [unit : Units, item : Items \cup {None}]]
    /\ import \in [Imports -> [path : Seq(Folders), made : SUBSET Folders,
                                item : Items \cup {None},
                                was : {"none", "absent", "live", "deleted"},
                                written : BOOLEAN]]

-----------------------------------------------------------------------------
(* Tree and fence *)

PathOf(n) == IF n \in Items THEN path[place[n]] ELSE path[n]

Exists(n) == node[n] \in {"live", "deleted"}

\* path <@ p
Under(n, p) == IsPrefix(p, PathOf(n))

\* visibleFolderPredicate
Visible(f) ==
    /\ node[f] = "live"
    /\ \A g \in Folders : node[g] = "deleted" => ~IsPrefix(path[g], path[f])

Overlap(p, q) == IsPrefix(p, q) \/ IsPrefix(q, p)

\* Faulty variant: a queued deletion does not fence yet.
FencedRunning(p) ==
    \E u \in Units : legacy[u] = "running" /\ Overlap(rootPath[u], p)

\* ensureNoActiveDeletionForPaths looks at folder deletions only, not at
\* restore or purge jobs.
Fenced(p) ==
    \E u \in Units :
        legacy[u] \in {"queued", "running", "failed"} /\ Overlap(rootPath[u], p)

\* uq_asset_lifecycle_units_live_root
HasLiveUnit(n) ==
    \E u \in Units : root[u] = n /\ state[u] \notin {"none", "restored", "purged"}

\* Rows an import has written, and the folder a row it wrote has come into:
\* until it commits, whoever asks for them waits (FOR UPDATE) or skips them.
Target(i) == Last(import[i].path)

Locked(n) ==
    \E i \in Imports :
        /\ import[i].written
        /\ \/ n = import[i].item
           \/ n = Target(i) /\ (import[i].was = "absent" \/ place[import[i].item] # n)

\* What FOR UPDATE SKIP LOCKED may pass over.
Skippable == Contended \cup {n \in Nodes : Locked(n)}

\* lockedVisibleParent, lockedVisibleParentByID
ParentById(f) == Visible(f) /\ ~Locked(f)

ParentVisible(p) ==
    \/ Len(p) = 1
    \/ \E g \in Folders : path[g] = Front(p) /\ ParentById(g)

\* assertLifecycleRestoreRootAndParent.  The parent of a folder is looked up
\* by the path it had when the folder was deleted, that of an item by
\* original_folder_id.
Restorable(u) ==
    /\ node[root[u]] = "deleted"
    /\ member[root[u]] = u
    /\ ~Locked(root[u])
    /\ IF root[u] \in Items THEN ParentById(Last(rootPath[u]))
                            ELSE ParentVisible(rootPath[u])

PlacePath[f \in Folders] ==
    IF Place[f] = None THEN <<f>> ELSE Append(PlacePath[Place[f]], f)

\* Climbing from a folder ends at a root: the folders start as a forest.
ASSUME ForestAssumption ==
    /\ PlacePath \in [Folders -> Seq(Folders)]
    /\ \A f \in Folders :
          PlacePath[f] = IF Place[f] = None THEN <<f>> ELSE Append(PlacePath[Place[f]], f)

Init ==
    /\ node \in [Nodes -> {"absent", "live"}]
    /\ \A n \in Nodes : node[n] = "live" /\ Place[n] # None => node[Place[n]] = "live"
    /\ path = PlacePath
    /\ place = [m \in Items |-> Place[m]]
    /\ member = [n \in Nodes |-> None]
    /\ state = [u \in Units |-> "none"]
    /\ root = [u \in Units |-> None]
    /\ rootPath = [u \in Units |-> <<>>]
    /\ job = [u \in Units |-> NoJob]
    /\ legacy = [u \in Units |-> "none"]
    /\ queued = 0
    /\ worker = [w \in Workers |-> None]
    /\ import = [i \in Imports |-> NoImport]

SetNodes(S, s) == [n \in Nodes |-> IF n \in S THEN s ELSE node[n]]

SetMembers(S, u) == [n \in Nodes |-> IF n \in S THEN u ELSE member[n]]

\* A unit for a deletion rooted at n.
NewUnit(u, n, s) ==
    /\ state[u] = "none"
    /\ ~HasLiveUnit(n)
    /\ state' = [state EXCEPT ![u] = s]
    /\ root' = [root EXCEPT ![u] = n]
    /\ rootPath' = [rootPath EXCEPT ![u] = PathOf(n)]

NewJob(u, op) ==
    /\ queued < MaxJobs
    /\ queued' = queued + 1
    /\ job' = [job EXCEPT ![u] = [op |-> op, status |-> "queued", attempts |-> 0,
                                  due |-> TRUE, owner |-> None, leased |-> FALSE,
                                  turn |-> queued + 1]]

-----------------------------------------------------------------------------
(* Catalogue operations *)

CreateFolder(f, dest) ==
    /\ node[f] = "absent"
    /\ dest # None => ParentById(dest) /\ ~Fenced(path[dest])
    /\ node' = [node EXCEPT ![f] = "live"]
    /\ path' = [path EXCEPT ![f] = IF dest = None THEN <<f>> ELSE Append(path[dest], f)]
    /\ UNCHANGED <<place, member, unitVars, jobVars, worker, import>>

CreateItem(m) ==
    /\ node[m] = "absent"
    /\ Visible(place[m])
    /\ ~Fenced(path[place[m]])
    /\ node' = [node EXCEPT ![m] = "live"]
    /\ UNCHANGED <<path, place, member, unitVars, jobVars, worker, import>>

\* MoveFolder rewrites the paths of everything below, tombstones included.
MoveFolder(f, dest) ==
    LET new == IF dest = None THEN <<f>> ELSE Append(path[dest], f)
        Moved(p) == new \o SubSeq(p, Len(path[f]) + 1, Len(p))
    IN  /\ ParentById(f)
        /\ ~Fenced(path[f])
        /\ dest # None => /\ ParentById(dest)
                          /\ ~Fenced(path[dest])
                          /\ ~IsPrefix(path[f], path[dest])
        /\ path' = [g \in Folders |-> IF Exists(g) /\ IsPrefix(path[f], path[g])
                                      THEN Moved(path[g]) ELSE path[g]]
        /\ UNCHANGED <<node, place, member, unitVars, jobVars, worker, import>>

\* DeleteFolder (empty folders only) and DeleteMetadataItem.
Delete(u, n) ==
    /\ node[n] = "live"
    /\ ~Locked(n)
    /\ Visible(IF n \in Items THEN place[n] ELSE n)
    /\ ~Fenced(PathOf(n))
    /\ n \in Folders =>
          \A k \in Nodes \ {n} : node[k] = "live" => ~Under(k, path[n])
    /\ NewUnit(u, n, "deleted")
    /\ member[n] = None \* the update names the row it read: live, in no unit
    /\ node' = [node EXCEPT ![n] = "deleted"]
    /\ member' = [member EXCEPT ![n] = u]
    /\ UNCHANGED <<path, place, jobVars, worker, import>>

\* completeLifecycleRestore: a unit is closed only if it is still DELETED.
CloseEntry(n) ==
    state' = [u \in Units |-> IF root[u] = n /\ state[u] = "deleted"
                              THEN "restored" ELSE state[u]]

\* Faulty variant: the restored row keeps its unit.
RestoreNodeOwned(n) ==
    /\ node[n] = "deleted"
    /\ ~Locked(n)
    /\ IF n \in Items THEN ParentById(place[n]) ELSE ParentVisible(path[n])
    /\ ~Fenced(PathOf(n))
    /\ node' = [node EXCEPT ![n] = "live"]
    /\ CloseEntry(n)
    /\ UNCHANGED <<path, place, member, root, rootPath, jobVars, worker, import>>

\* Faulty variant: without the fence.
RestoreNodeUnfenced(n) ==
    /\ node[n] = "deleted"
    /\ ~Locked(n)
    /\ IF n \in Items THEN ParentById(place[n]) ELSE ParentVisible(path[n])
    /\ node' = [node EXCEPT ![n] = "live"]
    /\ member' = [member EXCEPT ![n] = None]
    /\ CloseEntry(n)
    /\ UNCHANGED <<path, place, root, rootPath, jobVars, worker, import>>

\* RestoreFolder and RestoreMetadataItem restore one tombstone.
RestoreNode(n) ==
    /\ node[n] = "deleted"
    /\ ~Locked(n)
    /\ IF n \in Items THEN ParentById(place[n]) ELSE ParentVisible(path[n])
    /\ ~Fenced(PathOf(n))
    /\ node' = [node EXCEPT ![n] = "live"]
    /\ member' = [member EXCEPT ![n] = None]
    /\ CloseEntry(n)
    /\ UNCHANGED <<path, place, root, rootPath, jobVars, worker, import>>

-----------------------------------------------------------------------------
(* ImportSampleTransaction: one READ COMMITTED transaction, which sees what    *)
(* others commit between its statements and shows its own rows at the end.     *)

Step(i, f, made) ==
    import' = [import EXCEPT ![i].path = Append(@, f), ![i].made = @ \cup made]

\* A folder of that name is there, one level below the last one.
ImportFolder(i, f) ==
    /\ import[i].item = None
    /\ node[f] = "live"
    /\ path[f] = Append(import[i].path, f)
    /\ Step(i, f, {})
    /\ UNCHANGED <<treeVars, unitVars, jobVars, worker>>

\* None is: it is made below the path the last one had when it was read.
ImportNewFolder(i, f) ==
    /\ import[i].item = None
    /\ node[f] = "absent"
    /\ node' = [node EXCEPT ![f] = "inserted"]
    /\ path' = [path EXCEPT ![f] = Append(import[i].path, f)]
    /\ Step(i, f, {f})
    /\ UNCHANGED <<place, member, unitVars, jobVars, worker>>

\* The item is looked up by its external identity, without a lock.
ImportItem(i, m) ==
    /\ import[i].path # <<>>
    /\ import[i].item = None
    /\ node[m] \in {"absent", "live", "deleted"}
    /\ import' = [import EXCEPT ![i].item = m, ![i].was = node[m]]
    /\ UNCHANGED <<treeVars, unitVars, jobVars, worker>>

\* Faulty variant: the trigger as it was in V1, which asked only for the folder.
AcceptsParent(i) ==
    LET dest == Target(i)
    IN  node[dest] = "live" \/ dest \in import[i].made

\* trg_metadata_items_folder_active (V6) and the foreign key of folder_id.
Accepts(i) ==
    LET dest == Target(i)
    IN  /\ node[dest] = "live" \/ dest \in import[i].made
        /\ \A g \in Folders : node[g] = "deleted" => ~IsPrefix(path[g], path[dest])

\* It is inserted, or its row updated whatever became of it since it was read.
ImportWrite(i) ==
    LET m == import[i].item
    IN  /\ m # None
        /\ ~import[i].written
        /\ Accepts(i)
        /\ ~Locked(m)
        /\ IF import[i].was = "absent"
           THEN node[m] = "absent" /\ node' = [node EXCEPT ![m] = "inserted"]
           ELSE node[m] \in {"live", "deleted"} /\ node' = node
        /\ import' = [import EXCEPT ![i].written = TRUE]
        /\ UNCHANGED <<path, place, member, unitVars, jobVars, worker>>

\* A row that was read as a tombstone leaves its unit, and the unit the bin.  An
\* update of a row purged meanwhile finds nothing.
ImportCommit(i) ==
    LET r == import[i]
        S == IF r.written THEN {r.item} ELSE {}
    IN  /\ r.path # <<>>
        /\ \/ r.item = None
           \/ r.written
           \/ r.was # "absent" /\ r.item \in {m \in Items : node[m] = "gone"}
        /\ node' = SetNodes(r.made \cup S, "live")
        /\ place' = [m \in Items |-> IF m \in S THEN Target(i) ELSE place[m]]
        /\ member' = IF r.was = "deleted" THEN SetMembers(S, None) ELSE member
        /\ IF r.was = "deleted" THEN CloseEntry(r.item) ELSE UNCHANGED state
        /\ import' = [import EXCEPT ![i] = NoImport]
        /\ UNCHANGED <<path, root, rootPath, jobVars, worker>>

\* An error, a dry run or a crash: everything is rolled back.
ImportAbort(i) ==
    LET r == import[i]
    IN  /\ r.path # <<>>
        /\ node' = SetNodes(r.made \cup (IF r.written /\ r.was = "absent"
                                        THEN {r.item} ELSE {}), "absent")
        /\ import' = [import EXCEPT ![i] = NoImport]
        /\ UNCHANGED <<path, place, member, unitVars, jobVars, worker>>

-----------------------------------------------------------------------------
(* Requests about jobs *)

\* An import that reactivates the root of a unit holds the unit's row too.
UnitLocked(u) ==
    \E i \in Imports : /\ import[i].written
                       /\ import[i].was = "deleted"
                       /\ import[i].item = root[u]

\* closeFolderDeletionVisibilityGate: the root is hidden at once, its members
\* are left to the worker.
CloseGate(u, f) ==
    /\ NewUnit(u, f, "deleting")
    /\ node' = [node EXCEPT ![f] = "deleted"]
    /\ member' = [member EXCEPT ![f] = u]

\* ConfirmFolderDeletion, on a preview that still describes the tree.
Confirm(u, f) ==
    /\ node[f] = "live"
    /\ ~Locked(f)
    /\ ~Fenced(path[f])
    /\ CloseGate(u, f)
    /\ NewJob(u, "delete")
    /\ legacy' = [legacy EXCEPT ![u] = "queued"]
    /\ UNCHANGED <<path, place, worker, import>>

\* CancelFolderDeletionJob reopens the root, and only the root.
Cancel(u) ==
    /\ legacy[u] = "queued"
    /\ job[u].status = "queued"
    /\ state[u] = "deleting"
    /\ node[root[u]] = "deleted"
    /\ member[root[u]] = u
    /\ node' = [node EXCEPT ![root[u]] = "live"]
    /\ member' = [member EXCEPT ![root[u]] = None]
    /\ state' = [state EXCEPT ![u] = "restored"]
    /\ job' = [job EXCEPT ![u] = [@ EXCEPT !.status = "suppressed", !.due = FALSE]]
    /\ legacy' = [legacy EXCEPT ![u] = "cancelled"]
    /\ UNCHANGED <<path, place, root, rootPath, queued, worker, import>>

\* RetryFolderDeletionJob
Retry(u) ==
    /\ legacy[u] = "failed"
    /\ job[u].status = "failed"
    /\ legacy' = [legacy EXCEPT ![u] = "queued"]
    /\ job' = [job EXCEPT ![u] = [@ EXCEPT !.status = "queued", !.attempts = 0,
                                     !.due = TRUE]]
    /\ UNCHANGED <<treeVars, unitVars, queued, worker, import>>

\* QueueLifecycleRestore; repeated while the job is unfinished, it changes
\* nothing.
QueueRestore(u) ==
    /\ state[u] = "deleted"
    /\ Restorable(u)
    /\ state' = [state EXCEPT ![u] = "restore_queued"]
    /\ NewJob(u, "restore")
    /\ UNCHANGED <<treeVars, root, rootPath, legacy, worker, import>>

\* ProcessNextLifecycleCleanupBatch, for one unit whose retention has ended: a
\* folder waits for the units recorded below it.
QueuePurge(u) ==
    /\ state[u] = "deleted"
    /\ ~UnitLocked(u)
    /\ root[u] \in Folders =>
          \A v \in Units \ {u} :
              IsPrefix(rootPath[u], rootPath[v])
              => state[v] \in {"none", "restored", "purged"}
    /\ state' = [state EXCEPT ![u] = "purge_queued"]
    /\ NewJob(u, "purge")
    /\ UNCHANGED <<treeVars, root, rootPath, legacy, worker, import>>

-----------------------------------------------------------------------------
(* Claims.  A worker polls for the oldest job that is due or abandoned; rows *)
(* that another transaction has locked are skipped.                          *)

\* Faulty variant: a job whose worker died is not looked for.
ClaimableQueued(u) == job[u].status = "queued" /\ job[u].due

Claimable(u) ==
    \/ job[u].status = "queued" /\ job[u].due
    \/ job[u].status = "running" /\ ~job[u].leased

Older(u) == {v \in Units : Claimable(v) /\ job[v].turn < job[u].turn}

\* Another worker may be claiming or still processing v's job, and a request
\* may be cancelling it.
MayBeLocked(w, v) == Workers # {w} \/ job[v].op = "delete"

\* Faulty variant: one attempt too many.
ExhaustedLate(u) == job[u].attempts > MaxAttempts

Exhausted(u) == job[u].attempts >= MaxAttempts

\* The states in which a unit's restore or purge is under way.
Underway(u) ==
    \/ job[u].op = "restore" /\ state[u] \in {"restore_queued", "restoring"}
    \/ job[u].op = "purge" /\ state[u] \in {"purge_queued", "purging"}

\* What a claim checks of the unit.  When the check fails the transaction is
\* rolled back and the job stays as it was, the oldest one.
Startable(u) ==
    \/ job[u].op = "delete"
    \/ Underway(u) /\ (job[u].op = "restore" => Restorable(u))

Started(u) ==
    IF job[u].op = "restore" THEN "restoring"
    ELSE IF job[u].op = "purge" THEN "purging" ELSE state[u]

\* ClaimNextLifecycleJob
Claim(w, u) ==
    /\ worker[w] = None
    /\ Claimable(u)
    /\ ~Exhausted(u)
    /\ \A v \in Older(u) : MayBeLocked(w, v)
    /\ Startable(u)
    /\ state' = [state EXCEPT ![u] = Started(u)]
    /\ job' = [job EXCEPT ![u] = [@ EXCEPT !.status = "running", !.due = FALSE,
                                     !.attempts = job[u].attempts + 1,
                                     !.owner = w, !.leased = TRUE]]
    /\ legacy' = IF job[u].op = "delete" THEN [legacy EXCEPT ![u] = "running"] ELSE legacy
    /\ worker' = [worker EXCEPT ![w] = [unit |-> u, item |-> None]]
    /\ UNCHANGED <<treeVars, root, rootPath, queued, import>>

\* The job ends for good: failClaimedLifecycleJob, and the last attempt in
\* FailLifecycleJob and FailFolderDeletionJob.
GiveUp(u) ==
    /\ job' = [job EXCEPT ![u] = [@ EXCEPT !.status = "failed", !.due = FALSE,
                                     !.owner = None, !.leased = FALSE]]
    /\ legacy' = IF job[u].op = "delete" THEN [legacy EXCEPT ![u] = "failed"] ELSE legacy
    /\ state' = IF Underway(u) THEN [state EXCEPT ![u] = "failed"] ELSE state

\* The last attempt was abandoned: the claim ends the job, nobody gets it.
ClaimExhausted(w, u) ==
    /\ worker[w] = None
    /\ Claimable(u)
    /\ Exhausted(u)
    /\ \A v \in Older(u) : MayBeLocked(w, v)
    /\ GiveUp(u)
    /\ UNCHANGED <<treeVars, root, rootPath, queued, worker, import>>

-----------------------------------------------------------------------------
(* Batches.  A delete or restore batch asks only that the job is still       *)
(* running under this worker's name, and renews the lease.                   *)

Busy == {w \in Workers : worker[w] # None}

Holds(w, u, op) ==
    /\ w \in Busy
    /\ worker[w].unit = u
    /\ job[u].op = op
    /\ job[u].status = "running"
    /\ job[u].owner = w

Renew(u) == job' = [job EXCEPT ![u].leased = TRUE]

Succeed(w, u) ==
    /\ job' = [job EXCEPT ![u] = [@ EXCEPT !.status = "succeeded", !.owner = None,
                                     !.leased = FALSE]]
    /\ worker' = [worker EXCEPT ![w] = None]

LiveItems(u) == {m \in Items : node[m] = "live" /\ Under(m, rootPath[u])}
LiveFolders(u) == {f \in Folders : node[f] = "live" /\ Under(f, rootPath[u])}

\* What a batch finds: a row that is locked for sure is not in it, one that may
\* be locked can be missing from it.
Unlocked(S) == {n \in S : ~Locked(n)}

\* Every deeper member goes into a batch before a shallower one.
DeepestFirst(S, all) == \A f \in S, g \in all \ S : Len(path[f]) >= Len(path[g])
ShallowestFirst(S, all) == \A f \in S, g \in all \ S : Len(path[f]) <= Len(path[g])

\* processFolderDeletionBatch: first the items, then the folders, deepest first.
\* A row that is locked is not selected, and holds nothing up.
DeleteItems(w, u, S) ==
    /\ Holds(w, u, "delete")
    /\ S # {}
    /\ S \subseteq Unlocked(LiveItems(u))
    /\ node' = SetNodes(S, "deleted")
    /\ member' = SetMembers(S, u)
    /\ Renew(u)
    /\ UNCHANGED <<path, place, unitVars, legacy, queued, worker, import>>

DeleteFolders(w, u, S) ==
    /\ Holds(w, u, "delete")
    /\ LiveItems(u) \subseteq Skippable
    /\ S # {}
    /\ S \subseteq Unlocked(LiveFolders(u))
    /\ DeepestFirst(S, LiveFolders(u) \ Skippable)
    /\ node' = SetNodes(S, "deleted")
    /\ member' = SetMembers(S, u)
    /\ Renew(u)
    /\ UNCHANGED <<path, place, unitVars, legacy, queued, worker, import>>

\* completeDeletingLifecycleUnit
CompleteDeletion(u) == state' = [state EXCEPT ![u] = "deleted"]

\* The batch that selects no row is the last one.
DeleteDone(w, u) ==
    /\ Holds(w, u, "delete")
    /\ state[u] = "deleting"
    /\ LiveItems(u) \cup LiveFolders(u) \subseteq Skippable
    /\ CompleteDeletion(u)
    /\ legacy' = [legacy EXCEPT ![u] = "succeeded"]
    /\ Succeed(w, u)
    /\ UNCHANGED <<treeVars, root, rootPath, queued, import>>

\* processLifecycleRestoreBatch checks the root and its parent every time.
Restoring(w, u) ==
    /\ Holds(w, u, "restore")
    /\ state[u] = "restoring"
    /\ Restorable(u)

Tombstones(u) == {n \in Nodes : node[n] = "deleted" /\ member[n] = u}
MemberFolders(u) == (Tombstones(u) \cap Folders) \ {root[u]}
MemberItems(u) == Tombstones(u) \cap Items

RestoreFolders(w, u, S) ==
    /\ Restoring(w, u)
    /\ root[u] \in Folders
    /\ S # {}
    /\ S \subseteq Unlocked(MemberFolders(u))
    /\ ShallowestFirst(S, MemberFolders(u) \ Skippable)
    /\ node' = SetNodes(S, "live")
    /\ member' = SetMembers(S, None)
    /\ Renew(u)
    /\ UNCHANGED <<path, place, unitVars, legacy, queued, worker, import>>

RestoreItems(w, u, S) ==
    /\ Restoring(w, u)
    /\ root[u] \in Folders
    /\ MemberFolders(u) \subseteq Skippable
    /\ S # {}
    /\ S \subseteq Unlocked(MemberItems(u))
    /\ node' = SetNodes(S, "live")
    /\ member' = SetMembers(S, None)
    /\ Renew(u)
    /\ UNCHANGED <<path, place, unitVars, legacy, queued, worker, import>>

\* restoreFolderRoot or restoreMetadataRoot, and completeRestoreJob
RestoreRoot(w, u) ==
    /\ Restoring(w, u)
    /\ root[u] \in Folders => MemberFolders(u) \cup MemberItems(u) \subseteq Skippable
    /\ node' = [node EXCEPT ![root[u]] = "live"]
    /\ member' = [member EXCEPT ![root[u]] = None]
    /\ state' = [state EXCEPT ![u] = "restored"]
    /\ Succeed(w, u)
    /\ UNCHANGED <<path, place, root, rootPath, legacy, queued, import>>

-----------------------------------------------------------------------------
(* Purge.  Each transaction (lockRunningPurgeJob) also asks that the lease    *)
(* has not expired.  Rows are found below the path the unit recorded.        *)

Purging(w, u) ==
    /\ Holds(w, u, "purge")
    /\ job[u].leased
    /\ state[u] = "purging"

PurgeItems(u) ==
    {m \in MemberItems(u) : IF root[u] \in Items THEN m = root[u]
                                               ELSE Under(m, rootPath[u])}

\* NextLifecyclePurgeAsset; the item's objects are deleted before the next step.
PurgePick(w, u, m) ==
    /\ Purging(w, u)
    /\ worker[w].item = None
    /\ m \in Unlocked(PurgeItems(u))
    /\ worker' = [worker EXCEPT ![w].item = m]
    /\ UNCHANGED <<treeVars, unitVars, jobVars, import>>

\* Faulty variant: the row is removed whatever became of it since it was picked.
PurgeItemAnyway(w, u) ==
    /\ Purging(w, u)
    /\ worker[w].item # None
    /\ node' = [node EXCEPT ![worker[w].item] = "gone"]
    /\ worker' = [worker EXCEPT ![w].item = None]
    /\ UNCHANGED <<path, place, member, unitVars, jobVars, import>>

\* FinalizeLifecyclePurgeAsset removes the row if it still is this unit's
\* tombstone.
PurgeItem(w, u) ==
    LET m == worker[w].item
    IN  /\ Purging(w, u)
        /\ m # None
        /\ ~Locked(m)
        /\ node' = IF m \in Tombstones(u) THEN [node EXCEPT ![m] = "gone"] ELSE node
        /\ worker' = [worker EXCEPT ![w].item = None]
        /\ UNCHANGED <<path, place, member, unitVars, jobVars, import>>

\* FinalizeLifecyclePurgeJob, while it finds a leaf.
PurgeLeaves(u) ==
    {f \in Tombstones(u) \cap Folders :
        /\ Under(f, rootPath[u])
        /\ \A m \in Items : place[m] = f => ~Exists(m)
        /\ \A g \in Folders \ {f} : Exists(g) /\ Under(g, path[f]) => member[g] # u}

NoItemToPick(w, u) == worker[w].item = None /\ PurgeItems(u) \subseteq Skippable

PurgeFolder(w, u, f) ==
    /\ Purging(w, u)
    /\ NoItemToPick(w, u)
    /\ f \in Unlocked(PurgeLeaves(u))
    /\ node' = [node EXCEPT ![f] = "gone"]
    /\ UNCHANGED <<path, place, member, unitVars, jobVars, worker, import>>

PurgeFinish(w, u) ==
    /\ Purging(w, u)
    /\ NoItemToPick(w, u)
    /\ PurgeLeaves(u) \subseteq Skippable
    /\ \A m \in MemberItems(u) : ~Under(m, rootPath[u])
    /\ state' = [state EXCEPT ![u] = "purged"]
    /\ Succeed(w, u)
    /\ UNCHANGED <<treeVars, root, rootPath, legacy, queued, import>>

-----------------------------------------------------------------------------
(* Failures and time *)

\* Faulty variant: only the job goes back to the queue.
RequeuedJobOnly(u) == state[u]

Requeued(u) ==
    IF job[u].op = "restore" /\ state[u] = "restoring" THEN "restore_queued"
    ELSE IF job[u].op = "purge" /\ state[u] = "purging" THEN "purge_queued" ELSE state[u]

\* A batch failed: FailLifecycleJob, FailFolderDeletionJob.
Fail(w, u) ==
    /\ \E op \in {"delete", "restore", "purge"} : Holds(w, u, op)
    /\ worker' = [worker EXCEPT ![w] = None]
    /\ \/ Exhausted(u) /\ GiveUp(u)
       \/ /\ ~Exhausted(u)
          /\ job' = [job EXCEPT ![u] = [@ EXCEPT !.status = "queued", !.due = FALSE,
                                           !.owner = None, !.leased = FALSE]]
          /\ state' = [state EXCEPT ![u] = Requeued(u)]
          /\ legacy' = IF job[u].op = "delete" THEN [legacy EXCEPT ![u] = "queued"]
                                               ELSE legacy
    /\ UNCHANGED <<treeVars, root, rootPath, queued, import>>

\* The worker crashes, or a step finds the claim lost and the worker moves on.
Drop(w) ==
    /\ worker[w] # None
    /\ worker' = [worker EXCEPT ![w] = None]
    /\ UNCHANGED <<treeVars, unitVars, jobVars, import>>

LeaseExpires(u) ==
    /\ job[u].leased
    /\ job' = [job EXCEPT ![u].leased = FALSE]
    /\ UNCHANGED <<treeVars, unitVars, legacy, queued, worker, import>>

\* automaticRetryDelay is over.
BecomeDue(u) ==
    /\ job[u].status = "queued"
    /\ ~job[u].due
    /\ job' = [job EXCEPT ![u].due = TRUE]
    /\ UNCHANGED <<treeVars, unitVars, legacy, queued, worker, import>>

-----------------------------------------------------------------------------
Catalogue ==
    \/ \E f \in Folders, dest \in Folders \cup {None} : CreateFolder(f, dest)
    \/ \E m \in Items : CreateItem(m)
    \/ \E f \in Folders, dest \in Folders \cup {None} : MoveFolder(f, dest)
    \/ \E u \in Units, n \in Nodes : Delete(u, n)
    \/ \E n \in Nodes : RestoreNode(n)

Requests ==
    \/ \E u \in Units, f \in Folders : Confirm(u, f)
    \/ \E u \in Units : Cancel(u) \/ Retry(u) \/ QueueRestore(u) \/ QueuePurge(u)

Batch(w, u) ==
    \/ \E S \in SUBSET Items : DeleteItems(w, u, S) \/ RestoreItems(w, u, S)
    \/ \E S \in SUBSET Folders : DeleteFolders(w, u, S) \/ RestoreFolders(w, u, S)
    \/ DeleteDone(w, u)
    \/ RestoreRoot(w, u)
    \/ \E m \in Items : PurgePick(w, u, m)
    \/ PurgeItem(w, u)
    \/ \E f \in Folders : PurgeFolder(w, u, f)
    \/ PurgeFinish(w, u)
    \/ Fail(w, u)

Importing ==
    \E i \in Imports :
        \/ \E f \in Folders : ImportFolder(i, f) \/ ImportNewFolder(i, f)
        \/ \E m \in Items : ImportItem(i, m)
        \/ ImportWrite(i)
        \/ ImportCommit(i)
        \/ ImportAbort(i)

Next ==
    \/ Catalogue
    \/ Requests
    \/ Importing
    \/ \E w \in Workers, u \in Units : Claim(w, u) \/ ClaimExhausted(w, u) \/ Batch(w, u)
    \/ \E w \in Workers : Drop(w)
    \/ \E u \in Units : LeaseExpires(u) \/ BecomeDue(u)

Spec == Init /\ [][Next]_vars

\* A worker keeps polling and finishes or abandons what it claimed; the lease
\* of an abandoned job runs out, and a delay passes.  Nothing is assumed of
\* requests, nor of a claim past a locked row.
Oldest(u) == Claimable(u) /\ Older(u) = {}

Abandoned(u) == u \notin {worker[w].unit : w \in Busy}

Fairness ==
    /\ \A w \in Workers :
          /\ WF_vars(\E u \in Units : Oldest(u) /\ (Claim(w, u) \/ ClaimExhausted(w, u)))
          /\ WF_vars((\E u \in Units : Batch(w, u)) \/ Drop(w))
    /\ \A u \in Units : WF_vars(Abandoned(u) /\ LeaseExpires(u))
    /\ \A u \in Units : WF_vars(BecomeDue(u))

FairSpec == Spec /\ Fairness

-----------------------------------------------------------------------------
(* Properties *)

\* The three records of one job agree: the unit's state, the lifecycle job and
\* the folder_deletion_jobs row follow each other through claims, retries,
\* lost leases, cancellation and the restore of the root behind the job's back.
\* (ClaimNextLifecycleJob, FailLifecycleJob, completeRestoreJob)
Agree(u) ==
    LET op == job[u].op
        status == job[u].status
    IN  \/ op = "none" /\ status = "none" /\ legacy[u] = "none"
                       /\ state[u] \in {"none", "deleted", "restored"}
        \/ op = "delete" /\ status \in {"queued", "running", "failed"}
                         /\ state[u] = "deleting" /\ legacy[u] = status
        \/ op = "delete" /\ status = "suppressed"
                         /\ state[u] = "restored" /\ legacy[u] = "cancelled"
        \/ op = "delete" /\ status = "succeeded"
                         /\ state[u] \in {"deleted", "restored"} /\ legacy[u] = "succeeded"
        \/ /\ <<op, status, state[u]>> \in
                {<<"restore", "queued", "restore_queued">>,
                 <<"restore", "running", "restoring">>,
                 <<"restore", "succeeded", "restored">>,
                 <<"restore", "failed", "failed">>,
                 <<"purge", "queued", "purge_queued">>,
                 <<"purge", "running", "purging">>,
                 <<"purge", "succeeded", "purged">>,
                 <<"purge", "failed", "failed">>}
           /\ legacy[u] \in {"none", "succeeded"}

RecordsAgree == \A u \in Units : Agree(u)

\* A tombstone always belongs to a unit, a row not yet created and a live folder
\* to none, whoever deleted or restored it (lifecycle_unit_id is set and cleared
\* with deleted_at).  A live item may belong to one: an import that read it
\* before it was deleted clears deleted_at alone (ReimportClosesEntry).
TombstonesOwned ==
    /\ \A n \in Nodes : node[n] = "deleted" => member[n] # None
    /\ \A n \in Nodes : node[n] \in {"absent", "inserted"} => member[n] = None
    /\ \A f \in Folders : node[f] = "live" => member[f] = None

\* The folder a deletion started from stays a tombstone of that deletion until
\* the unit leaves the bin: no restore, move, nested deletion or lost claim takes
\* the root away from it (RestoreFolder closes the unit in the same
\* transaction, and a running deletion is fenced).
BinEntryExact ==
    \A u \in Units : state[u] \in {"deleting", "deleted"} /\ root[u] \in Folders
                     => root[u] \in Tombstones(u)

\* The one way into a deleted subtree that is not closed: ConfirmFolderDeletion
\* accepts a folder hidden below a tombstone, whose unit is restored meanwhile.
RestoredAround(u) ==
    \E v \in Units \ {u} : job[v].op = "restore" /\ IsPrefix(rootPath[v], rootPath[u])

\* A folder is in place if its path continues that of every folder on it.  An
\* import leaves one that is not: it reads a folder, the folder is moved, and it
\* makes the next one below the path it has read.
InPlace(f) ==
    \A i \in 1..Len(path[f]) :
        Exists(path[f][i]) => path[path[f][i]] = SubSeq(path[f], 1, i)

Stray(u) ==
    \/ ~InPlace(root[u])
    \/ \E v \in Units : job[v].op = "restore" /\ root[v] \in Folders /\ ~InPlace(root[v])

\* A row is only removed while it is a tombstone of a unit being purged, even
\* though the worker picked it in an earlier transaction and others restored
\* and deleted it again meanwhile (FinalizeLifecyclePurgeAsset).
OnlyTombstonesPurged ==
    [][\A n \in Nodes :
          node[n] # "gone" /\ node'[n] = "gone"
          => \E u \in Units : state[u] = "purging" /\ n \in Tombstones(u)]_vars

Deleting(u) == state[u] = "deleting" /\ state'[u] = "deleting"

\* Rows an import that is under way has written.
ImportRows == UNION {import[i].made \cup (IF import[i].written THEN {import[i].item}
                                          ELSE {}) : i \in Imports}

\* While a subtree is being deleted nothing is created in it, restored in it,
\* or moved into or out of it (ensureNoActiveDeletionForPaths), except by an
\* import, which may have got its folder or its item before the gate closed, and
\* unless an import has left the root, or that of a unit being restored, astray.
FenceStep(u) ==
    \A n \in Nodes \ ImportRows :
        /\ node'[n] = "live" /\ Under(n, rootPath[u])' => node[n] = "live"
        /\ Exists(n) /\ Exists(n)' => (Under(n, rootPath[u])' <=> Under(n, rootPath[u]))

Fence ==
    [][\A u \in Units : Deleting(u) /\ ~RestoredAround(u) /\ ~Stray(u) => FenceStep(u)]_vars

\* Behind the closed gate no import finds its way into the subtree or writes an
\* item there, though it asks neither for the fence nor for the organization's
\* lock: its look-ups pass over tombstones, and the trigger of metadata_items
\* looks at every folder above (ImportSampleTransaction, V6).
GateClosedToImports ==
    [][\A u \in Units, i \in Imports : Deleting(u) =>
          /\ IsPrefix(rootPath[u], import'[i].path) => IsPrefix(rootPath[u], import[i].path)
          /\ import'[i].written /\ ~import[i].written
             => ~IsPrefix(rootPath[u], path[Target(i)])]_vars

\* Unless claims of the oldest job are refused again and again, or somebody
\* retries a deletion for ever (it keeps its place in the queue), every job
\* ends: it succeeds or is given up after bounded attempts, through crashes and
\* expired leases (ClaimNextLifecycleJob, FailLifecycleJob).
Refused(u) == Oldest(u) /\ ~Exhausted(u) /\ ~Startable(u)

Unfinished(u) == job[u].status \in {"queued", "running"}

JobsFinish ==
    \/ []<>(\E u \in Units : Refused(u))
    \/ []<><<\E u \in Units : Retry(u)>>_vars
    \/ \A u \in Units : Unfinished(u) ~> ~Unfinished(u)

\* FailLifecycleJob (lifecycle_restore_repository.go) "applies bounded retry to
\* native RESTORE and PURGE jobs": such a job ends.
BoundedRetry ==
    \A u \in Units : (Unfinished(u) /\ job[u].op \in {"restore", "purge"}) ~> ~Unfinished(u)

\* QueueLifecycleRestore: "The source root remains tombstoned, so normal reads
\* stay hidden while a worker prepares its members".
HiddenWhileRestoring ==
    \A u \in Units : state[u] \in {"restore_queued", "restoring"}
                     => root[u] \in Tombstones(u)

\* visibleFolderPredicate is "the SQL rule for a folder that may be exposed
\* through normal Asset Core reads or mutations": nothing is deleted that is
\* hidden below a tombstone.
OnlyVisibleDeleted ==
    [][\A u \in Units : state[u] = "none" /\ root'[u] \in Folders => Visible(root'[u])]_vars

\* createDeletingLifecycleUnit: "The entry remains non-visible in the Recycle Bin
\* until the worker tombstones every active member and marks it DELETED": a
\* deletion that has just completed has left nothing live below its root.
BinEntryComplete ==
    [][\A u \in Units :
          state[u] = "deleting" /\ state'[u] = "deleted"
          => \A n \in Nodes : node[n] = "live" => ~Under(n, rootPath[u])]_vars

\* ImportSampleTransaction: "A re-import restores the same source row. It must
\* therefore close the old live Recycle Bin root before a later delete can create
\* a new lifecycle unit".
ReimportClosesEntry ==
    \A u \in Units : state[u] = "deleted" /\ root[u] \in Items
                     => node[root[u]] # "live"

\* CancelFolderDeletionJob: "A worker has not claimed it yet, so no descendant
\* was changed and it is safe to reopen just the root."
CancelSafe ==
    \A u \in Units : legacy[u] = "cancelled" => Tombstones(u) = {}

\* A purged unit has left no row behind (the purge integration test counts the
\* rows after completion and wants zero).
PurgeComplete ==
    \A u \in Units : state[u] = "purged" => Tombstones(u) = {}
=============================================================================
