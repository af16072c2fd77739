----------------------- MODULE LifecycleJobsTheorems -----------------------
(***************************************************************************)
(* For every tree, every number of units, workers, imports and attempts,   *)
(* and every set of rows that may be locked: the unit, its job and the     *)
(* compatibility row agree; a tombstone belongs to a unit, and a live      *)
(* folder to none; only tombstones of a unit being purged are removed; the *)
(* folder a deletion started from stays its tombstone; nothing enters or   *)
(* leaves a subtree that is being deleted, but for what Fence excepts; and *)
(* no import comes into it.                                                *)
(***************************************************************************)
EXTENDS LifecycleJobs, SequenceTheorems, TLAPS

\* What TypeOK says of a job.
JobRecords == [op : {"none", "delete", "restore", "purge"},
               status : {"none", "queued", "running", "succeeded", "failed",
                         "suppressed"},
               attempts : 0..MaxAttempts, due : BOOLEAN,
               owner : Workers \cup {None}, leased : BOOLEAN, turn : Nat]

\* TypeOK without paths: the rows of the tree,
RowTypes ==
    /\ node \in [Nodes -> {"absent", "inserted", "live", "deleted", "gone"}]
    /\ member \in [Nodes -> Units \cup {None}]

\* the units with their jobs and compatibility rows,
JobTypes ==
    /\ state \in [Units -> UnitStates]
    /\ root \in [Units -> Nodes \cup {None}]
    /\ job \in [Units -> JobRecords]
    /\ legacy \in [Units -> LegacyStates]
    /\ queued \in Nat

\* and the workers.
WorkerTypes == worker \in [Workers -> {None} \cup [unit : Units, item : Items \cup {None}]]

Types == RowTypes /\ JobTypes /\ WorkerTypes

\* What the theorems that need no path rest on,
IInv == Types /\ RecordsAgree /\ TombstonesOwned

\* and what it needs of the imports under way.
ImportRecords == [path : Seq(Folders), made : SUBSET Folders, item : Items \cup {None},
                  was : {"none", "absent", "live", "deleted"}, written : BOOLEAN]

ImportTypes == import \in [Imports -> ImportRecords]

\* An import writes an item it has looked up, and looks one up below a folder.
ImportsInOrder ==
    \A i \in Imports : /\ import[i].written => import[i].item # None
                       /\ import[i].item # None => import[i].path # <<>>

\* Rows an import has inserted are in no other transaction's sight,
Inserted(i) == import[i].made \cup {m \in Items : /\ import[i].written
                                                /\ import[i].was = "absent"
                                                /\ import[i].item = m}

OwnRows ==
    /\ \A i \in Imports : \A n \in Inserted(i) : node[n] = "inserted"
    /\ \A i, j \in Imports : i # j => Inserted(i) \cap Inserted(j) = {}

\* and a row it has updated was in everybody's.
Committed(n) == node[n] \in {"live", "deleted", "gone"}

UpdatedRows ==
    \A i \in Imports : import[i].written /\ import[i].was # "absent"
                       => Committed(import[i].item)

ImportInv == ImportTypes /\ ImportsInOrder /\ OwnRows /\ UpdatedRows

-----------------------------------------------------------------------------
(* Rows *)

\* Setting the rows of S to one status and one unit keeps the row types.
LEMMA SetRows ==
  ASSUME RowTypes, NEW S \in SUBSET Nodes, NEW s \in {"live", "deleted"},
         NEW x \in Units \cup {None},
         node' = SetNodes(S, s), member' = SetMembers(S, x)
  PROVE  RowTypes'
BY DEF RowTypes, SetNodes, SetMembers

\* Rows deleted for a unit, or restored to none, keep tombstones owned.
LEMMA SetOwned ==
  ASSUME RowTypes, TombstonesOwned, TreeAssumption,
         NEW S \in SUBSET Nodes, NEW s, NEW x,
         \/ s = "deleted" /\ x \in Units
         \/ s = "live" /\ x = None,
         node' = SetNodes(S, s), member' = SetMembers(S, x)
  PROVE  TombstonesOwned'
BY DEF RowTypes, TombstonesOwned, SetNodes, SetMembers, TreeAssumption, Nodes

\* What a catalogue step may do to one unit's records: nothing, open a unit
\* that has no job, or close one whose deletion is complete.
LEMMA CatalogueStep ==
  ASSUME IInv, Catalogue
  PROVE  IInv'
<1> USE TreeAssumption DEF IInv, Types
<1>0. ASSUME NEW f \in Folders, NEW dest \in Folders \cup {None}, CreateFolder(f, dest)
      PROVE  IInv'
  BY <1>0 DEF CreateFolder, RowTypes, JobTypes, WorkerTypes, unitVars, jobVars,
              RecordsAgree, Agree, TombstonesOwned, Nodes
<1>1. ASSUME NEW m \in Items, CreateItem(m)
      PROVE  IInv'
  BY <1>1 DEF CreateItem, RowTypes, JobTypes, WorkerTypes, unitVars, jobVars,
              RecordsAgree, Agree, TombstonesOwned, Nodes
<1>2. ASSUME NEW f \in Folders, NEW dest \in Folders \cup {None}, MoveFolder(f, dest)
      PROVE  IInv'
  BY <1>2 DEF MoveFolder, RowTypes, JobTypes, WorkerTypes, unitVars, jobVars,
              RecordsAgree, Agree, TombstonesOwned
<1>3. ASSUME NEW u \in Units, NEW n \in Nodes, Delete(u, n)
      PROVE  IInv'
  <2>1. RowTypes' /\ TombstonesOwned'
    BY <1>3 DEF Delete, RowTypes, TombstonesOwned
  <2>2. JobTypes' /\ WorkerTypes'
    BY <1>3 DEF Delete, NewUnit, JobTypes, WorkerTypes, jobVars, UnitStates
  <2>3. RecordsAgree'
    <3>1. job[u].op = "none" /\ job[u].status = "none" /\ legacy[u] = "none"
      BY <1>3 DEF RecordsAgree, Agree, Delete, NewUnit
    <3>2. Agree(u)'
      BY <1>3, <3>1 DEF Agree, Delete, NewUnit, jobVars, JobTypes
    <3>3. ASSUME NEW v \in Units, v # u PROVE Agree(v)'
      BY <1>3, <3>3 DEF RecordsAgree, Agree, Delete, NewUnit, jobVars, JobTypes
    <3>4. QED
      BY <3>2, <3>3 DEF RecordsAgree
  <2>4. QED
    BY <2>1, <2>2, <2>3
<1>4. ASSUME NEW n \in Nodes, RestoreNode(n)
      PROVE  IInv'
  <2>1. RowTypes' /\ TombstonesOwned'
    BY <1>4 DEF RestoreNode, CloseEntry, RowTypes, TombstonesOwned
  <2>2. JobTypes' /\ WorkerTypes'
    BY <1>4 DEF RestoreNode, CloseEntry, JobTypes, WorkerTypes, jobVars, UnitStates
  <2>3. ASSUME NEW v \in Units PROVE Agree(v)'
    <3>1. \/ state'[v] = state[v]
          \/ state[v] = "deleted" /\ state'[v] = "restored"
      BY <1>4 DEF RestoreNode, CloseEntry
    <3>2. job'[v] = job[v] /\ legacy'[v] = legacy[v]
      BY <1>4 DEF RestoreNode, CloseEntry, jobVars
    <3>3. Agree(v)
      BY DEF RecordsAgree
    <3>4. QED
      BY <3>1, <3>2, <3>3 DEF Agree
  <2>4. QED
    BY <2>1, <2>2, <2>3 DEF RecordsAgree
<1>5. QED
  BY <1>0, <1>1, <1>2, <1>3, <1>4 DEF Catalogue

-----------------------------------------------------------------------------
(* Jobs *)

\* Records of the units other than u are left alone.
OthersKeep(u) ==
    \A v \in Units \ {u} : state'[v] = state[v] /\ job'[v] = job[v] /\ legacy'[v] = legacy[v]

\* A step that rewrites the records of one unit has to keep that unit in agreement.
LEMMA AgreeStep ==
  ASSUME RecordsAgree, NEW u \in Units, OthersKeep(u), Agree(u)'
  PROVE  RecordsAgree'
<1>1. ASSUME NEW v \in Units, v # u PROVE Agree(v)'
  BY <1>1 DEF OthersKeep, RecordsAgree, Agree
<1>2. QED
  BY <1>1 DEF RecordsAgree

\* Replacing the record of u's job by a well-formed one.
LEMMA JobUpdate ==
  ASSUME JobTypes, NEW u \in Units, NEW r \in JobRecords,
         job' = [job EXCEPT ![u] = r]
  PROVE  /\ job' \in [Units -> JobRecords]
         /\ \A v \in Units \ {u} : job'[v] = job[v]
         /\ job'[u] = r
BY DEF JobTypes

\* A new job starts queued with its first attempt to come.
LEMMA NewJobStep ==
  ASSUME JobTypes, TreeAssumption, NEW u \in Units,
         NEW op \in {"delete", "restore", "purge"}, NewJob(u, op)
  PROVE  /\ job' \in [Units -> JobRecords]
         /\ queued' \in Nat
         /\ \A v \in Units \ {u} : job'[v] = job[v]
         /\ job'[u].op = op
         /\ job'[u].status = "queued"
<1> DEFINE new == [op |-> op, status |-> "queued", attempts |-> 0,
                   due |-> TRUE, owner |-> None, leased |-> FALSE, turn |-> queued + 1]
<1>1. queued + 1 \in Nat /\ 0 \in 0..MaxAttempts
  BY DEF JobTypes, TreeAssumption
<1>2. new \in JobRecords /\ new.op = op /\ new.status = "queued"
  BY <1>1 DEF JobRecords
<1>3. job' = [job EXCEPT ![u] = new] /\ queued' = queued + 1
  BY DEF NewJob
<1> HIDE DEF new
<1>4. QED
  BY <1>1, <1>2, <1>3, JobUpdate

\* What the actions make of a job's record.
LEMMA RetriedRecord ==
  ASSUME NEW r \in JobRecords, NEW a \in 0..MaxAttempts
  PROVE  /\ [r EXCEPT !.status = "queued", !.attempts = a, !.due = TRUE] \in JobRecords
         /\ [r EXCEPT !.status = "queued", !.attempts = a, !.due = TRUE].op = r.op
         /\ [r EXCEPT !.status = "queued", !.attempts = a, !.due = TRUE].status = "queued"
BY DEF JobRecords

\* What ClaimNextLifecycleJob writes into a job is a running job of the same kind.
LEMMA ClaimedRecord ==
  ASSUME NEW r \in JobRecords, NEW a \in 0..MaxAttempts, NEW w \in Workers
  PROVE  LET t == [r EXCEPT !.status = "running", !.due = FALSE,
                            !.attempts = a, !.owner = w, !.leased = TRUE]
         IN  t \in JobRecords /\ t.op = r.op /\ t.status = "running"
BY DEF JobRecords

\* A job that is given back or given up is a job of the same kind.
LEMMA ReleasedRecord ==
  ASSUME NEW r \in JobRecords, NEW s \in {"queued", "failed"}
  PROVE  LET t == [r EXCEPT !.status = s, !.due = FALSE, !.owner = None, !.leased = FALSE]
         IN  t \in JobRecords /\ t.op = r.op /\ t.status = s
BY DEF JobRecords

\* A completed job is a job of the same kind.
LEMMA SucceededRecord ==
  ASSUME NEW r \in JobRecords
  PROVE  LET t == [r EXCEPT !.status = "succeeded", !.owner = None, !.leased = FALSE]
         IN  t \in JobRecords /\ t.op = r.op /\ t.status = "succeeded"
BY DEF JobRecords

\* Requests about jobs keep the records in agreement.
LEMMA RequestStep ==
  ASSUME IInv, Requests
  PROVE  IInv'
<1> USE TreeAssumption DEF IInv, Types
<1>1. ASSUME NEW u \in Units, NEW f \in Folders, Confirm(u, f)
      PROVE  IInv'
  <2>1. RowTypes' /\ TombstonesOwned'
    BY <1>1 DEF Confirm, CloseGate, RowTypes, TombstonesOwned, Nodes
  <2>2. /\ JobTypes' /\ WorkerTypes'
        /\ \A v \in Units \ {u} : job'[v] = job[v]
        /\ job'[u].op = "delete" /\ job'[u].status = "queued"
    BY <1>1, NewJobStep
       DEF Confirm, CloseGate, NewUnit, JobTypes, WorkerTypes, UnitStates, LegacyStates, Nodes
  <2>3. OthersKeep(u)
    BY <1>1, <2>2 DEF Confirm, CloseGate, NewUnit, JobTypes, OthersKeep
  <2>4. Agree(u)'
    BY <1>1, <2>2 DEF Confirm, CloseGate, NewUnit, JobTypes, Agree
  <2>5. QED
    BY <2>1, <2>2, <2>3, <2>4, AgreeStep
<1>2. ASSUME NEW u \in Units, Cancel(u)
      PROVE  IInv'
  <2> DEFINE r == [job[u] EXCEPT !.status = "suppressed", !.due = FALSE]
  <2>1. RowTypes' /\ TombstonesOwned'
    BY <1>2 DEF Cancel, RowTypes, TombstonesOwned, Nodes
  <2>2. job[u].op = "delete" /\ job[u] \in JobRecords
    BY <1>2 DEF Cancel, RecordsAgree, Agree, JobTypes
  <2>3. r \in JobRecords /\ r.op = "delete" /\ r.status = "suppressed"
    BY <2>2 DEF JobRecords
  <2>4. job' = [job EXCEPT ![u] = r]
    BY <1>2 DEF Cancel
  <2> HIDE DEF r
  <2>5. /\ job' \in [Units -> JobRecords]
        /\ \A v \in Units \ {u} : job'[v] = job[v]
        /\ job'[u] = r
    BY <2>3, <2>4, JobUpdate
  <2>6. JobTypes' /\ WorkerTypes'
    BY <1>2, <2>5 DEF Cancel, JobTypes, WorkerTypes, UnitStates, LegacyStates
  <2>7. OthersKeep(u) /\ Agree(u)'
    BY <1>2, <2>3, <2>5 DEF Cancel, JobTypes, OthersKeep, Agree
  <2>8. QED
    BY <2>1, <2>6, <2>7, AgreeStep
<1>3. ASSUME NEW u \in Units, Retry(u)
      PROVE  IInv'
  <2> DEFINE r == [job[u] EXCEPT !.status = "queued", !.attempts = 0, !.due = TRUE]
  <2>1. RowTypes' /\ TombstonesOwned'
    BY <1>3 DEF Retry, treeVars, RowTypes, TombstonesOwned
  <2>2. job[u].op = "delete" /\ state[u] = "deleting" /\ job[u] \in JobRecords
    BY <1>3 DEF Retry, RecordsAgree, Agree, JobTypes
  <2>3. r \in JobRecords /\ r.op = "delete" /\ r.status = "queued"
    <3>1. 0 \in 0..MaxAttempts
      OBVIOUS
    <3>2. QED
      BY <2>2, <3>1, RetriedRecord
  <2>4. job' = [job EXCEPT ![u] = r]
    BY <1>3 DEF Retry
  <2> HIDE DEF r
  <2>5. /\ job' \in [Units -> JobRecords]
        /\ \A v \in Units \ {u} : job'[v] = job[v]
        /\ job'[u] = r
    BY <2>3, <2>4, JobUpdate
  <2>6. JobTypes' /\ WorkerTypes'
    BY <1>3, <2>5 DEF Retry, unitVars, JobTypes, WorkerTypes, LegacyStates
  <2>7. OthersKeep(u) /\ Agree(u)'
    BY <1>3, <2>2, <2>3, <2>5 DEF Retry, unitVars, JobTypes, OthersKeep, Agree
  <2>8. QED
    BY <2>1, <2>6, <2>7, AgreeStep
<1>4. ASSUME NEW u \in Units, NEW op \in {"restore", "purge"},
             state[u] = "deleted",
             state' = [state EXCEPT ![u] = IF op = "restore" THEN "restore_queued"
                                                             ELSE "purge_queued"],
             NewJob(u, op),
             UNCHANGED <<treeVars, root, rootPath, legacy, worker>>
      PROVE  IInv'
  <2>1. RowTypes' /\ TombstonesOwned' /\ WorkerTypes'
    BY <1>4 DEF treeVars, RowTypes, TombstonesOwned, WorkerTypes
  <2>2. /\ JobTypes'
        /\ \A v \in Units \ {u} : job'[v] = job[v]
        /\ job'[u].op = op /\ job'[u].status = "queued"
    BY <1>4, NewJobStep DEF JobTypes, UnitStates
  <2>3. OthersKeep(u)
    BY <1>4, <2>2 DEF JobTypes, OthersKeep
  <2>4. legacy[u] \in {"none", "succeeded"}
    BY <1>4 DEF RecordsAgree, Agree
  <2>5. Agree(u)'
    BY <1>4, <2>2, <2>4 DEF JobTypes, Agree
  <2>6. QED
    BY <2>1, <2>2, <2>3, <2>5, AgreeStep
<1>5. ASSUME NEW u \in Units, QueueRestore(u)
      PROVE  IInv'
  BY <1>4, <1>5 DEF QueueRestore
<1>6. ASSUME NEW u \in Units, QueuePurge(u)
      PROVE  IInv'
  BY <1>4, <1>6 DEF QueuePurge
<1>7. QED
  BY <1>1, <1>2, <1>3, <1>5, <1>6 DEF Requests

-----------------------------------------------------------------------------
(* Claims and failures *)

\* A claimable job, like a running one, is unfinished.
LEMMA UnfinishedAgrees ==
  ASSUME IInv, NEW u \in Units, Unfinished(u)
  PROVE  /\ job[u] \in JobRecords
         /\ \/ job[u].op = "delete" /\ state[u] = "deleting" /\ legacy[u] = job[u].status
            \/ /\ job[u].op \in {"restore", "purge"}
               /\ Underway(u)
               /\ legacy[u] \in {"none", "succeeded"}
         /\ job[u].status = "running" =>
              /\ job[u].op = "restore" => state[u] = "restoring"
              /\ job[u].op = "purge" => state[u] = "purging"
<1>1. job[u] \in JobRecords
  BY DEF IInv, Types, JobTypes
<1>2. Agree(u)
  BY DEF IInv, RecordsAgree
<1>3. CASE job[u].op = "delete"
  <2>1. job[u].status \in {"queued", "running"}
    BY DEF Unfinished
  <2>2. QED
    BY <1>1, <1>2, <1>3, <2>1 DEF Agree
<1>4. CASE job[u].op # "delete"
  <2>1. job[u].op # "none"
    BY <1>1, <1>2 DEF Agree, Unfinished
  <2>2. job[u].op \in {"restore", "purge"}
    BY <1>1, <1>4, <2>1 DEF JobRecords
  <2>3. legacy[u] \in {"none", "succeeded"}
    BY <1>2, <1>4, <2>1 DEF Agree
  <2>4. Underway(u)
    BY <1>2, <2>2 DEF Agree, Underway, Unfinished
  <2>5. job[u].status = "running" =>
          /\ job[u].op = "restore" => state[u] = "restoring"
          /\ job[u].op = "purge" => state[u] = "purging"
    BY <1>2, <2>2 DEF Agree
  <2>6. QED
    BY <1>1, <2>2, <2>3, <2>4, <2>5
<1>5. QED
  BY <1>3, <1>4

\* Giving a job up leaves its records in agreement.
LEMMA GiveUpStep ==
  ASSUME IInv, NEW u \in Units, Unfinished(u), GiveUp(u),
         UNCHANGED <<treeVars, root, queued>>, WorkerTypes'
  PROVE  IInv'
<1> DEFINE r == [job[u] EXCEPT !.status = "failed", !.due = FALSE,
                               !.owner = None, !.leased = FALSE]
<1>1. job[u] \in JobRecords
  BY UnfinishedAgrees
<1>2. r \in JobRecords /\ r.op = job[u].op /\ r.status = "failed"
  BY <1>1, ReleasedRecord
<1>3. job' = [job EXCEPT ![u] = r]
  BY DEF GiveUp
<1> HIDE DEF r
<1>4. /\ job' \in [Units -> JobRecords]
      /\ \A v \in Units \ {u} : job'[v] = job[v]
      /\ job'[u] = r
  BY <1>2, <1>3, JobUpdate DEF IInv, Types
<1>5. JobTypes'
  BY <1>4 DEF GiveUp, IInv, Types, JobTypes, UnitStates, LegacyStates
<1>6. OthersKeep(u)
  BY <1>4 DEF GiveUp, IInv, Types, JobTypes, OthersKeep
<1>7. Agree(u)'
  <2>1. CASE job[u].op = "delete"
    <3>1. state[u] = "deleting" /\ ~Underway(u)
      BY <2>1, UnfinishedAgrees DEF Underway
    <3>2. state'[u] = "deleting" /\ legacy'[u] = "failed"
      BY <2>1, <3>1 DEF GiveUp, IInv, Types, JobTypes
    <3>3. QED
      BY <1>2, <1>4, <2>1, <3>2 DEF Agree
  <2>2. CASE job[u].op # "delete"
    <3>1. /\ job[u].op \in {"restore", "purge"} /\ Underway(u)
          /\ legacy[u] \in {"none", "succeeded"}
      BY <2>2, UnfinishedAgrees
    <3>2. state'[u] = "failed" /\ legacy'[u] = legacy[u]
      BY <2>2, <3>1 DEF GiveUp, IInv, Types, JobTypes
    <3>3. QED
      BY <1>2, <1>4, <3>1, <3>2 DEF Agree
  <2>3. QED
    BY <2>1, <2>2
<1>8. RowTypes' /\ TombstonesOwned'
  BY DEF IInv, Types, RowTypes, TombstonesOwned, treeVars
<1>9. QED
  BY <1>5, <1>6, <1>7, <1>8, AgreeStep DEF IInv, Types

\* A claim starts the job and its unit together.
LEMMA ClaimStep ==
  ASSUME IInv, NEW w \in Workers, NEW u \in Units, Claim(w, u)
  PROVE  IInv'
<1> DEFINE r == [job[u] EXCEPT !.status = "running", !.due = FALSE,
                               !.attempts = job[u].attempts + 1,
                               !.owner = w, !.leased = TRUE]
<1>1. Unfinished(u)
  BY DEF Claim, Claimable, Unfinished
<1>2. job[u] \in JobRecords
  BY <1>1, UnfinishedAgrees
<1>3. job[u].attempts + 1 \in 0..MaxAttempts
  BY <1>2, TreeAssumption DEF Claim, Exhausted, JobRecords
<1>4. r \in JobRecords /\ r.op = job[u].op /\ r.status = "running"
  BY <1>2, <1>3, ClaimedRecord
<1>5. job' = [job EXCEPT ![u] = r]
  BY DEF Claim
<1> HIDE DEF r
<1>6. /\ job' \in [Units -> JobRecords]
      /\ \A v \in Units \ {u} : job'[v] = job[v]
      /\ job'[u] = r
  BY <1>4, <1>5, JobUpdate DEF IInv, Types
<1>7. Started(u) \in UnitStates
  BY DEF Started, IInv, Types, JobTypes, UnitStates
<1>8. JobTypes' /\ WorkerTypes'
  BY <1>6, <1>7 DEF Claim, IInv, Types, JobTypes, WorkerTypes, LegacyStates
<1>9. OthersKeep(u)
  BY <1>6 DEF Claim, IInv, Types, JobTypes, OthersKeep
<1>10. Agree(u)'
  BY <1>1, <1>4, <1>6, UnfinishedAgrees
     DEF Claim, Started, IInv, Types, JobTypes, Agree
<1>11. RowTypes' /\ TombstonesOwned'
  BY DEF Claim, IInv, Types, RowTypes, TombstonesOwned, treeVars
<1>12. QED
  BY <1>8, <1>9, <1>10, <1>11, AgreeStep DEF IInv, Types

\* A claim of a job whose attempts are used up fails the job and settles its unit.
LEMMA ClaimExhaustedStep ==
  ASSUME IInv, NEW w \in Workers, NEW u \in Units, ClaimExhausted(w, u)
  PROVE  IInv'
<1>1. Unfinished(u)
  BY DEF ClaimExhausted, Claimable, Unfinished
<1>2. WorkerTypes'
  BY DEF ClaimExhausted, IInv, Types, WorkerTypes
<1>3. QED
  BY <1>1, <1>2, GiveUpStep DEF ClaimExhausted

\* A failed batch requeues the job, or fails it with its unit.
LEMMA FailStep ==
  ASSUME IInv, NEW w \in Workers, NEW u \in Units, Fail(w, u)
  PROVE  IInv'
<1> DEFINE r == [job[u] EXCEPT !.status = "queued", !.due = FALSE,
                               !.owner = None, !.leased = FALSE]
<1>1. Unfinished(u) /\ job[u].status = "running"
  BY DEF Fail, Holds, Unfinished
<1>2. WorkerTypes'
  BY DEF Fail, IInv, Types, WorkerTypes
<1>3. CASE Exhausted(u)
  BY <1>1, <1>2, <1>3, GiveUpStep DEF Fail
<1>4. CASE ~Exhausted(u)
  <2>1. r \in JobRecords /\ r.op = job[u].op /\ r.status = "queued"
    BY <1>1, UnfinishedAgrees, ReleasedRecord
  <2>2. job' = [job EXCEPT ![u] = r]
    BY <1>4 DEF Fail
  <2> HIDE DEF r
  <2>3. /\ job' \in [Units -> JobRecords]
        /\ \A v \in Units \ {u} : job'[v] = job[v]
        /\ job'[u] = r
    BY <2>1, <2>2, JobUpdate DEF IInv, Types
  <2>4. /\ state' = [state EXCEPT ![u] = Requeued(u)]
        /\ legacy' = IF job[u].op = "delete" THEN [legacy EXCEPT ![u] = "queued"]
                                             ELSE legacy
        /\ UNCHANGED <<treeVars, root, rootPath, queued>>
    BY <1>4 DEF Fail
  <2>5. Requeued(u) \in UnitStates
    BY DEF Requeued, IInv, Types, JobTypes, UnitStates
  <2>6. JobTypes'
    BY <2>3, <2>4, <2>5 DEF IInv, Types, JobTypes, LegacyStates
  <2>7. OthersKeep(u)
    BY <2>3, <2>4 DEF IInv, Types, JobTypes, OthersKeep
  <2>8. Agree(u)'
    BY <1>1, <2>1, <2>3, <2>4, UnfinishedAgrees DEF Requeued, IInv, Types, JobTypes, Agree
  <2>9. RowTypes' /\ TombstonesOwned'
    BY <2>4 DEF IInv, Types, RowTypes, TombstonesOwned, treeVars
  <2>10. QED
    BY <1>2, <2>6, <2>7, <2>8, <2>9, AgreeStep DEF IInv, Types
<1>5. QED
  BY <1>3, <1>4

-----------------------------------------------------------------------------
(* Batches *)

\* A step that only renews or drops a lease, or makes a retry due.
LEMMA RenewedRecord ==
  ASSUME NEW r \in JobRecords, NEW b \in BOOLEAN
  PROVE  /\ [r EXCEPT !.leased = b] \in JobRecords
         /\ [r EXCEPT !.leased = b].op = r.op
         /\ [r EXCEPT !.leased = b].status = r.status
         /\ [r EXCEPT !.due = b] \in JobRecords
         /\ [r EXCEPT !.due = b].op = r.op
         /\ [r EXCEPT !.due = b].status = r.status
BY DEF JobRecords

\* Leases and due times are not part of what the records agree on.
LEMMA SameStatusStep ==
  ASSUME IInv, NEW u \in Units, NEW r \in JobRecords,
         r.op = job[u].op, r.status = job[u].status,
         job' = [job EXCEPT ![u] = r],
         UNCHANGED <<unitVars, legacy, queued>>,
         RowTypes', WorkerTypes', TombstonesOwned'
  PROVE  IInv'
<1>1. /\ job' \in [Units -> JobRecords]
      /\ \A v \in Units \ {u} : job'[v] = job[v]
      /\ job'[u] = r
  BY JobUpdate DEF IInv, Types
<1>2. JobTypes'
  BY <1>1 DEF IInv, Types, JobTypes, unitVars
<1>3. OthersKeep(u)
  BY <1>1 DEF OthersKeep, unitVars
<1>4. Agree(u)'
  BY <1>1 DEF IInv, RecordsAgree, Agree, unitVars
<1>5. QED
  BY <1>2, <1>3, <1>4, AgreeStep DEF IInv, Types

\* A batch that only renews the lease.
LEMMA RenewStep ==
  ASSUME IInv, NEW u \in Units, Renew(u),
         UNCHANGED <<unitVars, legacy, queued, worker>>,
         RowTypes', TombstonesOwned'
  PROVE  IInv'
<1> DEFINE r == [job[u] EXCEPT !.leased = TRUE]
<1>1. job[u] \in JobRecords
  BY DEF IInv, Types, JobTypes
<1>2. r \in JobRecords /\ r.op = job[u].op /\ r.status = job[u].status
  BY <1>1, RenewedRecord
<1>3. job' = [job EXCEPT ![u] = r]
  BY DEF Renew
<1>4. WorkerTypes'
  BY DEF IInv, Types, WorkerTypes
<1> HIDE DEF r
<1>5. QED
  BY <1>2, <1>3, <1>4, SameStatusStep

\* The end of a job: what becomes of the unit fits what the job was for.
LEMMA SucceedStep ==
  ASSUME IInv, NEW w \in Workers, NEW u \in Units, Succeed(w, u),
         NEW s \in UnitStates, NEW l \in LegacyStates,
         \/ job[u].op = "delete" /\ s = "deleted" /\ l = "succeeded"
         \/ job[u].op = "restore" /\ s = "restored" /\ l \in {"none", "succeeded"}
         \/ job[u].op = "purge" /\ s = "purged" /\ l \in {"none", "succeeded"},
         state' = [state EXCEPT ![u] = s], legacy' = [legacy EXCEPT ![u] = l],
         UNCHANGED <<root, rootPath, queued>>,
         RowTypes', TombstonesOwned'
  PROVE  IInv'
<1> DEFINE r == [job[u] EXCEPT !.status = "succeeded", !.owner = None, !.leased = FALSE]
<1>1. job[u] \in JobRecords
  BY DEF IInv, Types, JobTypes
<1>2. r \in JobRecords /\ r.op = job[u].op /\ r.status = "succeeded"
  BY <1>1, SucceededRecord
<1>3. job' = [job EXCEPT ![u] = r]
  BY DEF Succeed
<1> HIDE DEF r
<1>4. /\ job' \in [Units -> JobRecords]
      /\ \A v \in Units \ {u} : job'[v] = job[v]
      /\ job'[u] = r
  BY <1>2, <1>3, JobUpdate DEF IInv, Types
<1>5. state'[u] = s /\ legacy'[u] = l
  BY DEF IInv, Types, JobTypes
<1>6. JobTypes'
  BY <1>4 DEF IInv, Types, JobTypes
<1>7. OthersKeep(u)
  BY <1>4 DEF IInv, Types, JobTypes, OthersKeep
<1>8. Agree(u)'
  BY <1>2, <1>4, <1>5 DEF Agree
<1>9. WorkerTypes'
  BY DEF Succeed, IInv, Types, WorkerTypes
<1>10. QED
  BY <1>6, <1>7, <1>8, <1>9, AgreeStep DEF IInv, Types

\* A deletion batch gives every row it deletes to its unit; the last one completes
\* unit, job and row.
LEMMA DeletionStep ==
  ASSUME IInv, NEW w \in Workers, NEW u \in Units,
         \/ \E S \in SUBSET Items : DeleteItems(w, u, S)
         \/ \E S \in SUBSET Folders : DeleteFolders(w, u, S)
         \/ DeleteDone(w, u)
  PROVE  IInv'
<1>1. ASSUME NEW S \in SUBSET Nodes, DeleteItems(w, u, S) \/ DeleteFolders(w, u, S)
      PROVE  IInv'
  <2>1. node' = SetNodes(S, "deleted") /\ member' = SetMembers(S, u)
    BY <1>1 DEF DeleteItems, DeleteFolders
  <2>2. RowTypes'
    BY <2>1, SetRows DEF IInv, Types
  <2>3. TombstonesOwned'
    BY <2>1, SetOwned, TreeAssumption DEF IInv, Types
  <2>4. Renew(u) /\ UNCHANGED <<unitVars, legacy, queued, worker>>
    BY <1>1 DEF DeleteItems, DeleteFolders
  <2>5. QED
    BY <2>2, <2>3, <2>4, RenewStep
<1>2. CASE DeleteDone(w, u)
  <2>1. RowTypes' /\ TombstonesOwned'
    BY <1>2 DEF DeleteDone, CompleteDeletion, treeVars, IInv, Types, RowTypes, TombstonesOwned
  <2>2. /\ job[u].op = "delete" /\ Succeed(w, u)
        /\ state' = [state EXCEPT ![u] = "deleted"]
        /\ legacy' = [legacy EXCEPT ![u] = "succeeded"]
        /\ UNCHANGED <<root, rootPath, queued>>
    BY <1>2 DEF DeleteDone, CompleteDeletion, Holds
  <2>3. "deleted" \in UnitStates /\ "succeeded" \in LegacyStates
    BY DEF UnitStates, LegacyStates
  <2>4. QED
    BY <2>1, <2>2, <2>3, SucceedStep
<1>3. QED
  BY <1>1, <1>2 DEF Nodes

\* A restore batch takes the rows it reopens from the unit; the root's does it last.
LEMMA RestorationStep ==
  ASSUME IInv, NEW w \in Workers, NEW u \in Units,
         \/ \E S \in SUBSET Items : RestoreItems(w, u, S)
         \/ \E S \in SUBSET Folders : RestoreFolders(w, u, S)
         \/ RestoreRoot(w, u)
  PROVE  IInv'
<1>1. ASSUME NEW S \in SUBSET Nodes, RestoreItems(w, u, S) \/ RestoreFolders(w, u, S)
      PROVE  IInv'
  <2>1. node' = SetNodes(S, "live") /\ member' = SetMembers(S, None)
    BY <1>1 DEF RestoreItems, RestoreFolders
  <2>2. RowTypes'
    BY <2>1, SetRows DEF IInv, Types
  <2>3. TombstonesOwned'
    BY <2>1, SetOwned, TreeAssumption DEF IInv, Types
  <2>4. Renew(u) /\ UNCHANGED <<unitVars, legacy, queued, worker>>
    BY <1>1 DEF RestoreItems, RestoreFolders
  <2>5. QED
    BY <2>2, <2>3, <2>4, RenewStep
<1>2. CASE RestoreRoot(w, u)
  <2>1. RowTypes' /\ TombstonesOwned'
    BY <1>2 DEF RestoreRoot, IInv, Types, RowTypes, TombstonesOwned, Nodes
  <2>2. /\ job[u].op = "restore" /\ job[u].status = "running" /\ Succeed(w, u)
        /\ state' = [state EXCEPT ![u] = "restored"]
        /\ legacy' = legacy
        /\ UNCHANGED <<root, rootPath, queued>>
    BY <1>2 DEF RestoreRoot, Restoring, Holds
  <2>3. legacy[u] \in {"none", "succeeded"}
    BY <2>2, UnfinishedAgrees DEF Unfinished
  <2>4. legacy' = [legacy EXCEPT ![u] = legacy[u]]
    BY <2>2 DEF IInv, Types, JobTypes
  <2>5. "restored" \in UnitStates /\ legacy[u] \in LegacyStates
    BY DEF UnitStates, IInv, Types, JobTypes
  <2>6. QED
    BY <2>1, <2>2, <2>3, <2>4, <2>5, SucceedStep
<1>3. QED
  BY <1>1, <1>2 DEF Nodes

\* A purge removes rows of its unit; the last step completes unit and job.
LEMMA PurgeStep ==
  ASSUME IInv, NEW w \in Workers, NEW u \in Units,
         \/ \E m \in Items : PurgePick(w, u, m)
         \/ PurgeItem(w, u)
         \/ \E f \in Folders : PurgeFolder(w, u, f)
         \/ PurgeFinish(w, u)
  PROVE  IInv'
<1> USE DEF IInv, Types
<1>1. ASSUME NEW m \in Items, PurgePick(w, u, m)
      PROVE  IInv'
  <2>1. WorkerTypes'
    BY <1>1 DEF PurgePick, Purging, Holds, Busy, WorkerTypes
  <2>2. RowTypes' /\ JobTypes' /\ RecordsAgree' /\ TombstonesOwned'
    BY <1>1 DEF PurgePick, treeVars, unitVars, jobVars, RowTypes, JobTypes,
                RecordsAgree, Agree, TombstonesOwned
  <2>3. QED
    BY <2>1, <2>2
<1>2. CASE PurgeItem(w, u)
  <2>1. WorkerTypes'
    BY <1>2 DEF PurgeItem, Purging, Holds, Busy, WorkerTypes
  <2>2. JobTypes' /\ RecordsAgree'
    BY <1>2 DEF PurgeItem, unitVars, jobVars, JobTypes, RecordsAgree, Agree
  <2>3. RowTypes' /\ TombstonesOwned'
    BY <1>2 DEF PurgeItem, RowTypes, TombstonesOwned, Nodes
  <2>4. QED
    BY <2>1, <2>2, <2>3
<1>3. ASSUME NEW f \in Folders, PurgeFolder(w, u, f)
      PROVE  IInv'
  <2>1. RowTypes' /\ TombstonesOwned'
    BY <1>3 DEF PurgeFolder, RowTypes, TombstonesOwned, Nodes
  <2>2. JobTypes' /\ WorkerTypes' /\ RecordsAgree'
    BY <1>3 DEF PurgeFolder, unitVars, jobVars, JobTypes, WorkerTypes,
                RecordsAgree, Agree
  <2>3. QED
    BY <2>1, <2>2
<1>4. CASE PurgeFinish(w, u)
  <2>1. RowTypes' /\ TombstonesOwned'
    BY <1>4 DEF PurgeFinish, treeVars, RowTypes, TombstonesOwned
  <2>2. /\ job[u].op = "purge" /\ job[u].status = "running" /\ Succeed(w, u)
        /\ state' = [state EXCEPT ![u] = "purged"]
        /\ legacy' = legacy
        /\ UNCHANGED <<root, rootPath, queued>>
    BY <1>4 DEF PurgeFinish, Purging, Holds
  <2>3. legacy[u] \in {"none", "succeeded"}
    BY <2>2, UnfinishedAgrees DEF Unfinished
  <2>4. legacy' = [legacy EXCEPT ![u] = legacy[u]]
    BY <2>2 DEF JobTypes
  <2>5. "purged" \in UnitStates /\ legacy[u] \in LegacyStates
    BY DEF UnitStates, JobTypes
  <2>6. QED
    BY <2>1, <2>2, <2>3, <2>4, <2>5, SucceedStep
<1>5. QED
  BY <1>1, <1>2, <1>3, <1>4

-----------------------------------------------------------------------------
(* Crashes and time *)

\* A worker that drops its job touches no record.
LEMMA DropStep ==
  ASSUME IInv, NEW w \in Workers, Drop(w)
  PROVE  IInv'
<1>1. WorkerTypes'
  BY DEF Drop, IInv, Types, WorkerTypes
<1>2. RowTypes' /\ JobTypes' /\ RecordsAgree' /\ TombstonesOwned'
  BY DEF Drop, treeVars, unitVars, jobVars, IInv, Types, RowTypes, JobTypes,
         RecordsAgree, Agree, TombstonesOwned
<1>3. QED
  BY <1>1, <1>2 DEF IInv, Types

\* An expired lease or a due time touches no status.
LEMMA TimeStep ==
  ASSUME IInv, NEW u \in Units, LeaseExpires(u) \/ BecomeDue(u)
  PROVE  IInv'
<1>1. job[u] \in JobRecords
  BY DEF IInv, Types, JobTypes
<1>2. RowTypes' /\ WorkerTypes' /\ TombstonesOwned'
  BY DEF LeaseExpires, BecomeDue, treeVars, IInv, Types, RowTypes, WorkerTypes,
         TombstonesOwned
<1>3. CASE LeaseExpires(u)
  <2> DEFINE r == [job[u] EXCEPT !.leased = FALSE]
  <2>1. r \in JobRecords /\ r.op = job[u].op /\ r.status = job[u].status
    BY <1>1, RenewedRecord
  <2>2. job' = [job EXCEPT ![u] = r] /\ UNCHANGED <<unitVars, legacy, queued>>
    BY <1>3 DEF LeaseExpires
  <2> HIDE DEF r
  <2>3. QED
    BY <1>2, <2>1, <2>2, SameStatusStep
<1>4. CASE BecomeDue(u)
  <2> DEFINE r == [job[u] EXCEPT !.due = TRUE]
  <2>1. r \in JobRecords /\ r.op = job[u].op /\ r.status = job[u].status
    BY <1>1, RenewedRecord
  <2>2. job' = [job EXCEPT ![u] = r] /\ UNCHANGED <<unitVars, legacy, queued>>
    BY <1>4 DEF BecomeDue
  <2> HIDE DEF r
  <2>3. QED
    BY <1>2, <2>1, <2>2, SameStatusStep
<1>5. QED
  BY <1>3, <1>4

-----------------------------------------------------------------------------
(* Imports *)

\* What an import does to records, and to the rows it leaves behind.
LEMMA ImportStep ==
  ASSUME IInv, ImportInv, Importing
  PROVE  IInv'
<1> USE TreeAssumption DEF IInv, Types
<1>0. PICK i \in Imports :
         \/ \E f \in Folders : ImportFolder(i, f) \/ ImportNewFolder(i, f)
         \/ \E m \in Items : ImportItem(i, m)
         \/ ImportWrite(i)
         \/ ImportCommit(i)
         \/ ImportAbort(i)
  BY DEF Importing
<1> DEFINE r == import[i]
<1>1. /\ r \in ImportRecords
      /\ r.written => r.item \in Items
      /\ r.made \subseteq Inserted(i)
      /\ \A n \in Inserted(i) : n \in Nodes /\ node[n] = "inserted" /\ member[n] = None
  BY DEF ImportInv, ImportTypes, ImportRecords, ImportsInOrder, OwnRows, Inserted,
         TombstonesOwned, Nodes
<1>2. ASSUME NEW f \in Folders, ImportFolder(i, f)
      PROVE  IInv'
  BY <1>2 DEF ImportFolder, treeVars, unitVars, jobVars, RowTypes, JobTypes, WorkerTypes,
              RecordsAgree, Agree, TombstonesOwned
<1>3. ASSUME NEW f \in Folders, ImportNewFolder(i, f)
      PROVE  IInv'
  <2>1. RowTypes' /\ TombstonesOwned'
    BY <1>3 DEF ImportNewFolder, RowTypes, TombstonesOwned, Nodes
  <2>2. JobTypes' /\ WorkerTypes' /\ RecordsAgree'
    BY <1>3 DEF ImportNewFolder, unitVars, jobVars, JobTypes, WorkerTypes, RecordsAgree, Agree
  <2>3. QED
    BY <2>1, <2>2
<1>4. ASSUME NEW m \in Items, ImportItem(i, m)
      PROVE  IInv'
  BY <1>4 DEF ImportItem, treeVars, unitVars, jobVars, RowTypes, JobTypes, WorkerTypes,
              RecordsAgree, Agree, TombstonesOwned
<1>5. CASE ImportWrite(i)
  <2>1. RowTypes' /\ TombstonesOwned'
    BY <1>5 DEF ImportWrite, RowTypes, TombstonesOwned, Nodes
  <2>2. JobTypes' /\ WorkerTypes' /\ RecordsAgree'
    BY <1>5 DEF ImportWrite, unitVars, jobVars, JobTypes, WorkerTypes, RecordsAgree, Agree
  <2>3. QED
    BY <2>1, <2>2
<1>6. CASE ImportCommit(i)
  <2> DEFINE S == IF r.written THEN {r.item} ELSE {}
  <2>1. /\ S \subseteq Items
        /\ node' = SetNodes(r.made \cup S, "live")
        /\ \/ member' = member
           \/ member' = SetMembers(S, None)
        /\ UNCHANGED <<root, jobVars, worker>>
        /\ \A v \in Units : \/ state'[v] = state[v]
                            \/ state[v] = "deleted" /\ state'[v] = "restored"
        /\ state' \in [Units -> UnitStates]
    BY <1>1, <1>6 DEF ImportCommit, CloseEntry, JobTypes, UnitStates
  <2>2. \A f \in r.made : f \in Folders /\ member[f] = None
    BY <1>1 DEF ImportRecords
  <2> HIDE DEF S
  <2>3. RowTypes'
    BY <2>1 DEF RowTypes, SetNodes, SetMembers
  <2>4. TombstonesOwned'
    BY <2>1, <2>2 DEF RowTypes, TombstonesOwned, SetNodes, SetMembers, Nodes
  <2>5. JobTypes' /\ WorkerTypes'
    BY <2>1 DEF JobTypes, WorkerTypes, jobVars
  <2>6. ASSUME NEW v \in Units PROVE Agree(v)'
    BY <2>1 DEF RecordsAgree, Agree, jobVars
  <2>7. QED
    BY <2>3, <2>4, <2>5, <2>6 DEF RecordsAgree
<1>7. CASE ImportAbort(i)
  <2> DEFINE S == r.made \cup (IF r.written /\ r.was = "absent" THEN {r.item} ELSE {})
  <2>1. node' = SetNodes(S, "absent") /\ member' = member
    BY <1>7 DEF ImportAbort
  <2>2. S \subseteq Inserted(i)
    BY <1>1 DEF Inserted
  <2> HIDE DEF S
  <2>3. RowTypes' /\ TombstonesOwned'
    BY <1>1, <2>1, <2>2 DEF RowTypes, TombstonesOwned, SetNodes, Nodes
  <2>4. JobTypes' /\ WorkerTypes' /\ RecordsAgree'
    BY <1>7 DEF ImportAbort, unitVars, jobVars, JobTypes, WorkerTypes, RecordsAgree, Agree
  <2>5. QED
    BY <2>3, <2>4
<1>8. QED
  BY <1>0, <1>2, <1>3, <1>4, <1>5, <1>6, <1>7

\* Whatever else happens, an import is left alone and so are the rows it has
\* inserted: they are neither live nor tombstones, and not absent either.
LEMMA InsertedKept ==
  ASSUME RowTypes, Next, ~Importing
  PROVE  /\ import' = import
         /\ \A n \in Nodes : node[n] = "inserted" => node'[n] = "inserted"
         /\ \A n \in Nodes : Committed(n) => Committed(n)'
<1> USE DEF RowTypes, Committed
<1>1. CASE Catalogue
  BY <1>1 DEF Catalogue, CreateFolder, CreateItem, MoveFolder, Delete, RestoreNode
<1>2. CASE Requests
  BY <1>2 DEF Requests, Confirm, CloseGate, Cancel, Retry, QueueRestore, QueuePurge, treeVars
<1>3. ASSUME NEW w \in Workers, NEW u \in Units,
             Claim(w, u) \/ ClaimExhausted(w, u) \/ Fail(w, u) \/ DeleteDone(w, u)
      PROVE  import' = import /\ node' = node
  BY <1>3 DEF Claim, ClaimExhausted, Fail, DeleteDone, treeVars
<1>4. ASSUME NEW w \in Workers, NEW u \in Units, NEW S,
             \/ DeleteItems(w, u, S) \/ DeleteFolders(w, u, S)
             \/ RestoreItems(w, u, S) \/ RestoreFolders(w, u, S)
      PROVE  /\ import' = import
             /\ \A n \in Nodes : node[n] = "inserted" => node'[n] = "inserted"
             /\ \A n \in Nodes : Committed(n) => Committed(n)'
  BY <1>4 DEF DeleteItems, DeleteFolders, RestoreItems, RestoreFolders, SetNodes,
              LiveItems, LiveFolders, MemberFolders, MemberItems, Tombstones, Unlocked
<1>5. ASSUME NEW w \in Workers, NEW u \in Units, RestoreRoot(w, u)
      PROVE  /\ import' = import
             /\ \A n \in Nodes : node[n] = "inserted" => node'[n] = "inserted"
             /\ \A n \in Nodes : Committed(n) => Committed(n)'
  BY <1>5 DEF RestoreRoot, Restoring, Restorable
<1>6. ASSUME NEW w \in Workers, NEW u \in Units,
             \/ \E m \in Items : PurgePick(w, u, m)
             \/ PurgeItem(w, u)
             \/ \E f \in Folders : PurgeFolder(w, u, f)
             \/ PurgeFinish(w, u)
      PROVE  /\ import' = import
             /\ \A n \in Nodes : node[n] = "inserted" => node'[n] = "inserted"
             /\ \A n \in Nodes : Committed(n) => Committed(n)'
  BY <1>6 DEF PurgePick, PurgeItem, PurgeFolder, PurgeFinish, PurgeLeaves, Tombstones,
              Unlocked, treeVars
<1>7. ASSUME NEW w \in Workers, Drop(w)
      PROVE  import' = import /\ node' = node
  BY <1>7 DEF Drop, treeVars
<1>8. ASSUME NEW u \in Units, LeaseExpires(u) \/ BecomeDue(u)
      PROVE  import' = import /\ node' = node
  BY <1>8 DEF LeaseExpires, BecomeDue, treeVars
<1>9. QED
  BY <1>1, <1>2, <1>3, <1>4, <1>5, <1>6, <1>7, <1>8 DEF Next, Batch

\* Each import knows the rows it has inserted, and nobody else has them.
LEMMA ImportInvStep ==
  ASSUME IInv, ImportInv, [Next]_vars
  PROVE  ImportInv'
<1> USE TreeAssumption
<1>1. RowTypes
  BY DEF IInv, Types
<1>2. \A i \in Imports : Inserted(i) \subseteq Nodes
  BY DEF ImportInv, ImportTypes, ImportRecords, Inserted, Nodes
<1>3. CASE ~Importing
  <2>1. /\ import' = import
        /\ \A n \in Nodes : node[n] = "inserted" => node'[n] = "inserted"
        /\ \A n \in Nodes : Committed(n) => Committed(n)'
    BY <1>1, <1>3, InsertedKept DEF vars, treeVars, Committed
  <2>2. \A i \in Imports : import[i].written => import[i].item \in Nodes
    BY DEF ImportInv, ImportTypes, ImportRecords, ImportsInOrder, Nodes
  <2>3. ImportTypes' /\ ImportsInOrder' /\ OwnRows'
    BY <1>2, <2>1 DEF ImportInv, ImportTypes, ImportsInOrder, OwnRows, Inserted
  <2>4. UpdatedRows'
    BY <2>1, <2>2 DEF ImportInv, UpdatedRows
  <2>5. QED
    BY <2>3, <2>4 DEF ImportInv
<1>4. ASSUME NEW i \in Imports, NEW r \in ImportRecords,
             import' = [import EXCEPT ![i] = r],
             r.written => r.item # None,
             r.item # None => r.path # <<>>,
             \A n \in Inserted(i)' : node'[n] = "inserted",
             \A n \in Nodes : node[n] = "inserted" /\ n \notin Inserted(i) => node'[n] = "inserted",
             \A n \in Inserted(i)' : n \in Inserted(i) \/ node[n] = "absent",
             r.written /\ r.was # "absent" => node'[r.item] \in {"live", "deleted", "gone"},
             \A n \in Nodes : Committed(n) => Committed(n)'
      PROVE  ImportInv'
  <2>1. ImportTypes' /\ import'[i] = r /\ \A j \in Imports \ {i} : import'[j] = import[j]
    BY <1>4 DEF ImportInv, ImportTypes
  <2>2. ImportsInOrder'
    BY <1>4, <2>1 DEF ImportInv, ImportsInOrder
  <2>3. \A j \in Imports \ {i} : Inserted(j)' = Inserted(j)
    BY <2>1 DEF Inserted
  <2>4. \A j \in Imports \ {i} : \A n \in Inserted(j) :
           n \in Nodes /\ node[n] = "inserted" /\ n \notin Inserted(i)
    BY <1>2 DEF ImportInv, OwnRows
  <2>5. OwnRows'
    BY <1>4, <2>3, <2>4 DEF ImportInv, OwnRows
  <2>6. \A j \in Imports : import[j].written => import[j].item \in Nodes
    BY DEF ImportInv, ImportTypes, ImportRecords, ImportsInOrder, Nodes
  <2>7. UpdatedRows'
    BY <1>4, <2>1, <2>6 DEF ImportInv, UpdatedRows, Committed
  <2>8. QED
    BY <2>1, <2>2, <2>5, <2>7 DEF ImportInv
<1>5. ASSUME NEW i \in Imports,
             \/ \E f \in Folders : ImportFolder(i, f) \/ ImportNewFolder(i, f)
             \/ \E m \in Items : ImportItem(i, m)
             \/ ImportWrite(i)
             \/ ImportCommit(i)
             \/ ImportAbort(i)
      PROVE  ImportInv'
  <2> DEFINE r == import[i]
  <2>1. /\ r \in ImportRecords
        /\ r.written => r.item # None
        /\ r.item # None => r.path # <<>>
        /\ \A n \in Inserted(i) : n \in Nodes /\ node[n] = "inserted"
    BY <1>2 DEF ImportInv, ImportTypes, ImportsInOrder, OwnRows
  <2>2. ASSUME NEW f \in Folders, NEW made \in SUBSET Folders, Step(i, f, made),
               r.item = None
        PROVE  /\ import' = [import EXCEPT ![i] = [r EXCEPT !.path = Append(@, f),
                                                           !.made = @ \cup made]]
               /\ [r EXCEPT !.path = Append(@, f), !.made = @ \cup made] \in ImportRecords
               /\ ~r.written
               /\ Inserted(i) = r.made
               /\ Inserted(i)' = r.made \cup made
    <3>1. Append(r.path, f) \in Seq(Folders)
      BY <2>1, AppendProperties DEF ImportRecords
    <3>2. [r EXCEPT !.path = Append(@, f), !.made = @ \cup made] \in ImportRecords
      BY <2>1, <3>1 DEF ImportRecords
    <3>3. import' = [import EXCEPT ![i] = [r EXCEPT !.path = Append(@, f),
                                                   !.made = @ \cup made]]
      BY <2>2 DEF Step
    <3>4. /\ import'[i].made = r.made \cup made
          /\ import'[i].written = r.written
      BY <2>1, <3>3 DEF ImportInv, ImportTypes, ImportRecords
    <3>5. ~r.written
      BY <2>1, <2>2
    <3>6. QED
      BY <3>2, <3>3, <3>4, <3>5 DEF Inserted
  <2>3. ASSUME NEW f \in Folders, ImportFolder(i, f)
        PROVE  ImportInv'
    <3> DEFINE t == [r EXCEPT !.path = Append(@, f), !.made = @ \cup {}]
    <3>1. /\ import' = [import EXCEPT ![i] = t] /\ t \in ImportRecords
          /\ ~r.written /\ Inserted(i)' = Inserted(i)
      BY <2>2, <2>3 DEF ImportFolder
    <3>2. ~t.written /\ t.item = None
      BY <2>1, <2>3, <3>1 DEF ImportFolder, ImportRecords
    <3>3. node' = node
      BY <2>3 DEF ImportFolder, treeVars
    <3> HIDE DEF t
    <3>4. QED
      BY <1>4, <2>1, <3>1, <3>2, <3>3 DEF Committed
  <2>4. ASSUME NEW f \in Folders, ImportNewFolder(i, f)
        PROVE  ImportInv'
    <3> DEFINE t == [r EXCEPT !.path = Append(@, f), !.made = @ \cup {f}]
    <3>1. /\ import' = [import EXCEPT ![i] = t] /\ t \in ImportRecords
          /\ ~r.written /\ Inserted(i)' = Inserted(i) \cup {f}
      BY <2>2, <2>4 DEF ImportNewFolder
    <3>2. ~t.written /\ t.item = None
      BY <2>1, <2>4, <3>1 DEF ImportNewFolder, ImportRecords
    <3>3. node[f] = "absent" /\ node' = [node EXCEPT ![f] = "inserted"]
      BY <2>4 DEF ImportNewFolder
    <3>4. /\ \A n \in Inserted(i)' : node'[n] = "inserted"
          /\ \A n \in Nodes : node[n] = "inserted" => node'[n] = "inserted"
          /\ \A n \in Nodes : Committed(n) => Committed(n)'
      BY <1>1, <2>1, <3>1, <3>3 DEF RowTypes, Nodes, Committed
    <3> HIDE DEF t
    <3>5. QED
      BY <1>4, <2>1, <3>1, <3>2, <3>3, <3>4
  <2>5. ASSUME NEW m \in Items, ImportItem(i, m)
        PROVE  ImportInv'
    <3> DEFINE t == [r EXCEPT !.item = m, !.was = node[m]]
    <3>0. r.item = None /\ r.path # <<>> /\ ~r.written
      BY <2>1, <2>5 DEF ImportItem
    <3>1. /\ t \in ImportRecords /\ t.path = r.path /\ t.path # <<>> /\ ~t.written
          /\ t.made = r.made
          /\ import' = [import EXCEPT ![i] = t]
      <4>1. node[m] \in {"none", "absent", "live", "deleted"}
        BY <2>5 DEF ImportItem
      <4>2. /\ t \in ImportRecords /\ t.path = r.path /\ t.path # <<>> /\ ~t.written
            /\ t.made = r.made
        BY <2>1, <3>0, <4>1 DEF ImportRecords
      <4>3. import' = [import EXCEPT ![i] = t]
        BY <2>5 DEF ImportItem
      <4>4. QED
        BY <4>2, <4>3
    <3>2. import'[i] = t
      BY <3>1 DEF ImportInv, ImportTypes
    <3>3. node' = node
      BY <2>5 DEF ImportItem, treeVars
    <3> HIDE DEF t
    <3>4. Inserted(i)' = Inserted(i)
      BY <3>0, <3>1, <3>2 DEF Inserted
    <3>5. QED
      BY <1>4, <2>1, <3>1, <3>3, <3>4 DEF Committed
  <2>6. CASE ImportWrite(i)
    <3> DEFINE t == [r EXCEPT !.written = TRUE]
    <3>1. /\ import' = [import EXCEPT ![i] = t] /\ t \in ImportRecords
          /\ t.path = r.path /\ t.item = r.item /\ t.was = r.was /\ t.made = r.made
          /\ t.written /\ ~r.written
          /\ r.item \in Items /\ r.item # None
      BY <2>1, <2>6 DEF ImportWrite, ImportRecords
    <3>2. import'[i] = t
      BY <3>1 DEF ImportInv, ImportTypes
    <3> HIDE DEF t
    <3>3. /\ Inserted(i) = r.made
          /\ Inserted(i)' = r.made \cup (IF r.was = "absent" THEN {r.item} ELSE {})
      BY <3>1, <3>2 DEF Inserted
    <3>4. /\ node[r.item] \in IF r.was = "absent" THEN {"absent"} ELSE {"live", "deleted"}
          /\ node' = IF r.was = "absent" THEN [node EXCEPT ![r.item] = "inserted"] ELSE node
      BY <2>6 DEF ImportWrite
    <3>5. /\ \A n \in Inserted(i)' : node'[n] = "inserted"
          /\ \A n \in Nodes : node[n] = "inserted" => node'[n] = "inserted"
          /\ \A n \in Inserted(i)' : n \in Inserted(i) \/ node[n] = "absent"
          /\ r.was # "absent" => node'[r.item] \in {"live", "deleted", "gone"}
          /\ \A n \in Nodes : Committed(n) => Committed(n)'
      BY <1>1, <2>1, <3>1, <3>3, <3>4 DEF RowTypes, Nodes, Committed
    <3>6. QED
      BY <1>4, <2>1, <3>1, <3>5
  <2>7. ASSUME NEW S \in SUBSET Nodes, NEW s,
               node' = SetNodes(S, s),
               \A n \in S : node[n] = "inserted" => n \in Inserted(i),
               s = "live" \/ \A n \in S : ~Committed(n),
               import' = [import EXCEPT ![i] = NoImport]
        PROVE  ImportInv'
    <3>1. /\ NoImport \in ImportRecords /\ ~NoImport.written /\ NoImport.item = None
          /\ NoImport.made = {}
      BY DEF NoImport, ImportRecords
    <3>2. import'[i] = NoImport
      BY <2>7 DEF ImportInv, ImportTypes
    <3>3. Inserted(i)' = {}
      BY <3>1, <3>2 DEF Inserted
    <3>4. \A n \in Nodes : node[n] = "inserted" /\ n \notin Inserted(i) => node'[n] = "inserted"
      BY <1>1, <2>7 DEF RowTypes, SetNodes
    <3>5. \A n \in Nodes : Committed(n) => Committed(n)'
      BY <1>1, <2>7 DEF RowTypes, SetNodes, Committed
    <3>6. QED
      BY <1>4, <2>7, <3>1, <3>3, <3>4, <3>5
  <2>8. CASE ImportCommit(i)
    <3> DEFINE S == r.made \cup (IF r.written THEN {r.item} ELSE {})
    <3>1. node' = SetNodes(S, "live") /\ import' = [import EXCEPT ![i] = NoImport]
      BY <2>8 DEF ImportCommit
    <3>2. S \subseteq Nodes
      BY <2>1 DEF ImportRecords, Nodes
    <3>3. \A n \in S : node[n] = "inserted" => n \in Inserted(i)
      BY <2>1 DEF ImportInv, UpdatedRows, Committed, Inserted, ImportRecords
    <3>4. QED
      BY <2>7, <3>1, <3>2, <3>3
  <2>9. CASE ImportAbort(i)
    <3> DEFINE S == r.made \cup (IF r.written /\ r.was = "absent" THEN {r.item} ELSE {})
    <3>1. node' = SetNodes(S, "absent") /\ import' = [import EXCEPT ![i] = NoImport]
      BY <2>9 DEF ImportAbort
    <3>2. S \subseteq Nodes
      BY <2>1 DEF ImportRecords, Nodes
    <3>3. S \subseteq Inserted(i)
      BY <2>1 DEF Inserted, ImportRecords
    <3>4. \A n \in S : ~Committed(n)
      BY <2>1, <3>3 DEF Committed
    <3>5. QED
      BY <2>7, <3>1, <3>2, <3>3, <3>4
  <2>10. QED
    BY <1>5, <2>3, <2>4, <2>5, <2>6, <2>8, <2>9
<1>6. QED
  BY <1>3, <1>5 DEF Importing

-----------------------------------------------------------------------------
(* The inductive invariant *)

\* The catalogue starts with live rows and no units.
LEMMA InitIInv == Init => IInv
<1> SUFFICES ASSUME Init PROVE IInv
  OBVIOUS
<1> USE TreeAssumption
<1>1. RowTypes
  BY DEF Init, RowTypes
<1>2. NoJob \in JobRecords
  BY DEF NoJob, JobRecords
<1>3. JobTypes
  BY <1>2 DEF Init, JobTypes, UnitStates, LegacyStates
<1>4. WorkerTypes
  BY DEF Init, WorkerTypes
<1>5. RecordsAgree
  BY DEF Init, RecordsAgree, Agree, NoJob
<1>6. TombstonesOwned
  BY DEF Init, TombstonesOwned, Nodes
<1>7. QED
  BY <1>1, <1>3, <1>4, <1>5, <1>6 DEF IInv, Types

\* Every step keeps the invariant: requests, batches, failures and time.
LEMMA NextIInv == IInv /\ ImportInv /\ [Next]_vars => IInv'
<1> SUFFICES ASSUME IInv, ImportInv, [Next]_vars PROVE IInv'
  OBVIOUS
<1>1. CASE UNCHANGED vars
  BY <1>1 DEF vars, treeVars, unitVars, jobVars, IInv, Types, RowTypes, JobTypes,
              WorkerTypes, RecordsAgree, Agree, TombstonesOwned
<1>2. CASE Catalogue
  BY <1>2, CatalogueStep
<1>3. CASE Requests
  BY <1>3, RequestStep
<1>4. ASSUME NEW w \in Workers, NEW u \in Units, Claim(w, u) \/ ClaimExhausted(w, u)
      PROVE  IInv'
  BY <1>4, ClaimStep, ClaimExhaustedStep
<1>5. ASSUME NEW w \in Workers, NEW u \in Units, Batch(w, u)
      PROVE  IInv'
  BY <1>5, DeletionStep, RestorationStep, PurgeStep, FailStep DEF Batch
<1>6. ASSUME NEW w \in Workers, Drop(w)
      PROVE  IInv'
  BY <1>6, DropStep
<1>7. ASSUME NEW u \in Units, LeaseExpires(u) \/ BecomeDue(u)
      PROVE  IInv'
  BY <1>7, TimeStep
<1>8. CASE Importing
  BY <1>8, ImportStep
<1>9. QED
  BY <1>1, <1>2, <1>3, <1>4, <1>5, <1>6, <1>7, <1>8 DEF Next

\* At first there is no import.
LEMMA InitImportInv == Init => ImportInv
BY DEF Init, NoImport, ImportInv, ImportTypes, ImportRecords, ImportsInOrder, OwnRows,
       UpdatedRows, Inserted

\* The inductive invariant holds in every reachable state.
LEMMA Invariant == Spec => [](IInv /\ ImportInv)
<1>1. IInv /\ ImportInv /\ [Next]_vars => ImportInv'
  BY ImportInvStep
<1>2. QED
  BY InitIInv, InitImportInv, NextIInv, <1>1, PTL DEF Spec

\* The unit, its job and the folder_deletion_jobs row always agree, however many
\* workers claim, lose, retry and give up jobs (ClaimNextLifecycleJob,
\* FailLifecycleJob, FailFolderDeletionJob, CancelFolderDeletionJob).
THEOREM StatesAgree == Spec => []RecordsAgree
<1>1. IInv => RecordsAgree
  BY DEF IInv
<1>2. QED
  BY <1>1, Invariant, PTL

\* A tombstone always belongs to a unit, a row not yet created and a live folder
\* to none, in every interleaving with imports (lifecycle_unit_id is set and
\* cleared with deleted_at; ImportSampleTransaction clears deleted_at alone).
THEOREM TombstonesStayOwned == Spec => []TombstonesOwned
<1>1. IInv => TombstonesOwned
  BY DEF IInv
<1>2. QED
  BY <1>1, Invariant, PTL

-----------------------------------------------------------------------------
(* Removed rows *)

\* Outside a purge, no step makes a row "gone".
LEMMA KeptElsewhere ==
  ASSUME RowTypes, NEW n \in Nodes, node[n] # "gone",
         \/ Catalogue
         \/ Requests
         \/ \E w \in Workers, u \in Units :
               \/ Claim(w, u) \/ ClaimExhausted(w, u) \/ Fail(w, u)
               \/ \E S \in SUBSET Items : DeleteItems(w, u, S) \/ RestoreItems(w, u, S)
               \/ \E S \in SUBSET Folders : DeleteFolders(w, u, S) \/ RestoreFolders(w, u, S)
               \/ DeleteDone(w, u) \/ RestoreRoot(w, u)
         \/ \E w \in Workers : Drop(w)
         \/ \E u \in Units : LeaseExpires(u) \/ BecomeDue(u)
         \/ Importing
         \/ UNCHANGED vars
  PROVE  node'[n] # "gone"
<1> USE DEF RowTypes
<1>1. CASE Catalogue
  BY <1>1 DEF Catalogue, CreateFolder, CreateItem, MoveFolder, Delete, RestoreNode, CloseEntry
<1>2. CASE Requests
  BY <1>2 DEF Requests, Confirm, CloseGate, Cancel, Retry, QueueRestore, QueuePurge, treeVars
<1>3. ASSUME NEW w \in Workers, NEW u \in Units,
             Claim(w, u) \/ ClaimExhausted(w, u) \/ Fail(w, u) \/ DeleteDone(w, u)
      PROVE  node'[n] # "gone"
  BY <1>3 DEF Claim, ClaimExhausted, Fail, DeleteDone, CompleteDeletion, treeVars
<1>4. ASSUME NEW w \in Workers, NEW u \in Units, NEW S,
             \/ DeleteItems(w, u, S) \/ DeleteFolders(w, u, S)
             \/ RestoreItems(w, u, S) \/ RestoreFolders(w, u, S)
      PROVE  node'[n] # "gone"
  BY <1>4 DEF DeleteItems, DeleteFolders, RestoreItems, RestoreFolders, SetNodes
<1>5. ASSUME NEW w \in Workers, NEW u \in Units, RestoreRoot(w, u)
      PROVE  node'[n] # "gone"
  BY <1>5 DEF RestoreRoot
<1>6. ASSUME NEW w \in Workers, Drop(w)
      PROVE  node'[n] # "gone"
  BY <1>6 DEF Drop, treeVars
<1>7. ASSUME NEW u \in Units, LeaseExpires(u) \/ BecomeDue(u)
      PROVE  node'[n] # "gone"
  BY <1>7 DEF LeaseExpires, BecomeDue, treeVars
<1>8. CASE UNCHANGED vars
  BY <1>8 DEF vars, treeVars
<1>9. CASE Importing
  BY <1>9 DEF Importing, ImportFolder, ImportNewFolder, ImportItem, ImportWrite, ImportCommit,
              ImportAbort, treeVars, SetNodes
<1>10. QED
  BY <1>1, <1>2, <1>3, <1>4, <1>5, <1>6, <1>7, <1>8, <1>9

\* A purge step removes at most one row, a tombstone of the unit it purges.
LEMMA GoneByPurge ==
  ASSUME RowTypes, NEW n \in Nodes, node[n] # "gone", node'[n] = "gone",
         NEW w \in Workers, NEW u \in Units,
         \/ \E m \in Items : PurgePick(w, u, m)
         \/ PurgeItem(w, u)
         \/ \E f \in Folders : PurgeFolder(w, u, f)
         \/ PurgeFinish(w, u)
  PROVE  state[u] = "purging" /\ n \in Tombstones(u)
<1> USE DEF RowTypes
<1>1. CASE PurgeItem(w, u)
  <2>1. worker[w].item \in Tombstones(u) /\ n = worker[w].item
    BY <1>1 DEF PurgeItem
  <2>2. QED
    BY <1>1, <2>1 DEF PurgeItem, Purging
<1>2. ASSUME NEW f \in Folders, PurgeFolder(w, u, f)
      PROVE  state[u] = "purging" /\ n \in Tombstones(u)
  <2>1. f \in Tombstones(u) /\ n = f
    BY <1>2 DEF PurgeFolder, PurgeLeaves, Unlocked
  <2>2. QED
    BY <1>2, <2>1 DEF PurgeFolder, Purging
<1>3. ASSUME NEW m \in Items, PurgePick(w, u, m)
      PROVE  FALSE
  BY <1>3 DEF PurgePick, treeVars
<1>4. CASE PurgeFinish(w, u)
  BY <1>4 DEF PurgeFinish, treeVars
<1>5. QED
  BY <1>1, <1>2, <1>3, <1>4

\* A row is removed only while it is a tombstone of a unit being purged, also
\* when it was restored and deleted again after the worker picked it
\* (FinalizeLifecyclePurgeAsset, FinalizeLifecyclePurgeJob).
THEOREM OnlyTombstonesGo == Spec => OnlyTombstonesPurged
<1> DEFINE Removal ==
      \A n \in Nodes :
          node[n] # "gone" /\ node'[n] = "gone"
          => \E u \in Units : state[u] = "purging" /\ n \in Tombstones(u)
<1>1. IInv /\ [Next]_vars => [Removal]_vars
  <2> SUFFICES ASSUME IInv, Next, NEW n \in Nodes, node[n] # "gone", node'[n] = "gone"
               PROVE  \E u \in Units : state[u] = "purging" /\ n \in Tombstones(u)
    OBVIOUS
  <2>1. RowTypes
    BY DEF IInv, Types
  <2>2. PICK w \in Workers, u \in Units :
           \/ \E m \in Items : PurgePick(w, u, m)
           \/ PurgeItem(w, u)
           \/ \E f \in Folders : PurgeFolder(w, u, f)
           \/ PurgeFinish(w, u)
    BY <2>1, KeptElsewhere DEF Next, Batch
  <2>3. QED
    BY <2>1, <2>2, GoneByPurge
<1>2. QED
  BY <1>1, Invariant, PTL DEF Spec, OnlyTombstonesPurged

(***************************************************************************)
(* Paths                                                                   *)
(***************************************************************************)
\* A path is a prefix of another when it agrees with it as far as it goes.
LEMMA PrefixPoints ==
  ASSUME NEW S, NEW s \in Seq(S), NEW t \in Seq(S)
  PROVE  IsPrefix(s, t) <=> /\ Len(s) <= Len(t)
                            /\ \A i \in 1..Len(s) : s[i] = t[i]
<1> DEFINE k == Len(s)
           front == SubSeq(t, 1, k)
<1>1. k \in Nat /\ Len(t) \in Nat
  BY LenProperties
<1>2. SubSeq(s, 1, k) = s
  BY SubSeqFull
<1>3. CASE k <= Len(t)
  <2>1. \A i \in 1..k : t[i] \in S
    BY <1>1, <1>3, ElementOfSeq
  <2>2. /\ front \in Seq(S)
        /\ Len(front) = IF 1 <= k THEN k - 1 + 1 ELSE 0
        /\ \A i \in 1..(k - 1 + 1) : front[i] = t[1 + i - 1]
    <3> HIDE DEF k
    <3>1. QED
      BY <1>1, <2>1, SubSeqProperties
  <2>3. Len(front) = k /\ \A i \in 1..k : front[i] = t[i]
    <3> HIDE DEF k, front
    <3>1. QED
      BY <1>1, <2>2
  <2>4. front = s <=> \A i \in 1..k : s[i] = t[i]
    <3> HIDE DEF front
    <3>1. ASSUME \A i \in 1..k : s[i] = t[i] PROVE front = s
      BY <2>2, <2>3, <3>1, SeqEqual
    <3>2. QED
      BY <2>3, <3>1
  <2>5. QED
    BY <1>2, <1>3, <2>4 DEF IsPrefix
<1>4. CASE ~(k <= Len(t))
  BY <1>4 DEF IsPrefix
<1>5. QED
  BY <1>3, <1>4

\* Prefixes of one path are comparable.
LEMMA PrefixesCompare ==
  ASSUME NEW S, NEW r \in Seq(S), NEW s \in Seq(S), NEW t \in Seq(S),
         IsPrefix(r, t), IsPrefix(s, t)
  PROVE  Overlap(r, s)
BY PrefixPoints, LenProperties DEF Overlap

\* A prefix of a prefix is one.
LEMMA PrefixOfPrefix ==
  ASSUME NEW S, NEW r \in Seq(S), NEW s \in Seq(S), NEW t \in Seq(S),
         IsPrefix(r, s), IsPrefix(s, t)
  PROVE  IsPrefix(r, t)
BY PrefixPoints, LenProperties

\* Every path is a prefix of itself.
LEMMA PrefixOfItself ==
  ASSUME NEW S, NEW s \in Seq(S)
  PROVE  IsPrefix(s, s)
BY PrefixPoints, LenProperties

\* What MoveFolder makes of a path p below the moved folder's path s: the new
\* path of the folder, and what p had behind s.
LEMMA MovedPath ==
  ASSUME NEW S, NEW s \in Seq(S), NEW p \in Seq(S), NEW new \in Seq(S), IsPrefix(s, p)
  PROVE  LET m == new \o SubSeq(p, Len(s) + 1, Len(p))
         IN  /\ m \in Seq(S)
             /\ Len(m) = Len(new) + (Len(p) - Len(s))
             /\ \A i \in 1..Len(new) : m[i] = new[i]
             /\ \A i \in (Len(new) + 1)..Len(m) : m[i] = p[i - Len(new) + Len(s)]
<1> DEFINE m == new \o SubSeq(p, Len(s) + 1, Len(p))
<1> DEFINE a == Len(s) + 1
           b == Len(p)
           rest == SubSeq(p, a, b)
           c == Len(new)
<1>1. a \in Nat /\ b \in Nat /\ c \in Nat /\ a >= 1 /\ a <= b + 1 /\ Len(s) = a - 1
  BY LenProperties, PrefixPoints
<1>2. \A i \in a..b : p[i] \in S
  BY <1>1, ElementOfSeq
<1> HIDE DEF a, b, c
<1>3. /\ rest \in Seq(S)
      /\ Len(rest) = IF a <= b THEN b - a + 1 ELSE 0
      /\ \A i \in 1..(b - a + 1) : rest[i] = p[a + i - 1]
  BY <1>1, <1>2, SubSeqProperties
<1>4. Len(rest) = b - a + 1
  <2> HIDE DEF rest
  <2>1. CASE a <= b
    BY <1>3, <2>1
  <2>2. CASE ~(a <= b)
    <3>1. Len(rest) = 0 /\ b - a + 1 = 0
      BY <1>1, <1>3, <2>2
    <3>2. QED
      BY <3>1
  <2>3. QED
    BY <2>1, <2>2
<1> DEFINE r == Len(rest)
<1> HIDE DEF rest
<1>5. /\ new \o rest \in Seq(S)
      /\ Len(new \o rest) = Len(new) + Len(rest)
      /\ \A i \in 1..(Len(new) + Len(rest)) :
            (new \o rest)[i] = IF i <= Len(new) THEN new[i] ELSE rest[i - Len(new)]
  BY <1>3, ConcatProperties
<1>6. m = new \o rest
  BY DEF rest, a, b
<1> HIDE DEF m
<1>7. /\ m \in Seq(S)
      /\ Len(m) = c + r
      /\ \A i \in 1..(c + r) : m[i] = IF i <= c THEN new[i] ELSE rest[i - c]
  BY <1>5, <1>6 DEF c
<1>8. r = b - a + 1
  BY <1>4
<1> HIDE DEF r
<1>9. \A i \in 1..c : m[i] = new[i]
  <2>1. \A i \in 1..c : i \in 1..(c + r) /\ i <= c
    BY <1>1, <1>8
  <2>2. QED
    BY <1>7, <2>1
<1>10. \A i \in (c + 1)..(c + r) : m[i] = p[i - c + a - 1]
  <2> SUFFICES ASSUME NEW i \in (c + 1)..(c + r) PROVE m[i] = p[i - c + a - 1]
    OBVIOUS
  <2>1. m[i] = rest[i - c]
    <3>1. i \in 1..(c + r) /\ ~(i <= c)
      BY <1>1, <1>8
    <3>2. QED
      BY <1>7, <3>1
  <2>2. i - c \in 1..(b - a + 1)
    BY <1>1, <1>8
  <2>3. rest[i - c] = p[a + (i - c) - 1]
    BY <1>3, <2>2
  <2>4. a + (i - c) - 1 = i - c + a - 1
    BY <1>1
  <2>5. QED
    BY <2>1, <2>3, <2>4
<1>11. /\ Len(m) = c + (b - (a - 1))
       /\ \A i \in (c + 1)..Len(m) : m[i] = p[i - c + (a - 1)]
  <2>1. c + r = c + (b - (a - 1))
    BY <1>1, <1>8
  <2>2. \A i \in (c + 1)..(c + r) : i - c + a - 1 = i - c + (a - 1)
    BY <1>1, <1>8
  <2>3. QED
    BY <1>7, <1>10, <2>1, <2>2
<1>12. /\ m \in Seq(S)
       /\ Len(m) = Len(new) + (Len(p) - Len(s))
       /\ \A i \in 1..Len(new) : m[i] = new[i]
       /\ \A i \in (Len(new) + 1)..Len(m) : m[i] = p[i - Len(new) + Len(s)]
  BY <1>1, <1>7, <1>9, <1>11 DEF b, c
<1>13. QED
  BY <1>12 DEF m

(***************************************************************************)
(* The tree                                                                *)
(***************************************************************************)
\* Paths and the paths recorded at a deletion are sequences of folders, and an
\* item is in a folder.
PathTypes ==
    /\ path \in [Folders -> Seq(Folders)]
    /\ place \in [Items -> Folders]
    /\ rootPath \in [Units -> Seq(Folders)]

\* A folder's path ends with the folder.
Ends == \A g \in Folders : path[g] # <<>> /\ path[g][Len(path[g])] = g

\* The folder of a metadata row exists as long as the row (folder_id is a
\* foreign key).
ItemsHoused == \A m \in Items : Exists(m) => Exists(place[m])

\* What an import has locked stays as it found it: one import writes an item at
\* a time, the item is not removed, nor is the folder it comes into.
Held ==
    /\ \A i, j \in Imports : i # j /\ import[i].written /\ import[j].written
                             => import[i].item # import[j].item
    /\ \A i \in Imports : import[i].written =>
          /\ import[i].was # "absent" => Exists(import[i].item)
          /\ import[i].was = "absent" \/ place[import[i].item] # Target(i)
             => Target(i) \in import[i].made \/ node[Target(i)] = "live"

\* What is known of the tree.  An import may leave a folder at a path that the
\* folders above it have left, so paths need not describe a forest.
TreeInv == PathTypes /\ Ends /\ ItemsHoused /\ Held

\* The folder whose path a row has.
Home(n) == IF n \in Items THEN place[n] ELSE n

\* A row has the path of its home, a folder that exists as long as the row does.
LEMMA HomePath ==
  ASSUME TreeInv, NEW n \in Nodes
  PROVE  /\ Home(n) \in Folders
         /\ PathOf(n) = path[Home(n)]
         /\ PathOf(n) \in Seq(Folders)
         /\ Exists(n) => Exists(Home(n))
BY TreeAssumption DEF TreeInv, PathTypes, ItemsHoused, Home, PathOf, Nodes

\* The path MoveFolder gives the folder it moves.
NewPath(f, dest) == IF dest = None THEN <<f>> ELSE Append(path[dest], f)

\* Folder g moves along with f.
Moves(f, g) == Exists(g) /\ IsPrefix(path[f], path[g])

\* The path a moved folder gets: that of its new parent, then itself.
LEMMA NewPathPoints ==
  ASSUME PathTypes, NEW f \in Folders, NEW dest \in Folders \cup {None}
  PROVE  /\ NewPath(f, dest) \in Seq(Folders)
         /\ Len(NewPath(f, dest)) = IF dest = None THEN 1 ELSE Len(path[dest]) + 1
         /\ NewPath(f, dest)[Len(NewPath(f, dest))] = f
         /\ dest # None => \A i \in 1..Len(path[dest]) : NewPath(f, dest)[i] = path[dest][i]
<1>1. CASE dest = None
  BY <1>1 DEF NewPath
<1>2. CASE dest # None
  <2>1. path[dest] \in Seq(Folders)
    BY <1>2 DEF PathTypes
  <2>2. QED
    BY <1>2, <2>1, AppendProperties DEF NewPath
<1>3. QED
  BY <1>1, <1>2

\* MoveFolder gives every row below the moved folder its new path.
LEMMA MoveEffect ==
  ASSUME PathTypes, NEW f \in Folders, NEW dest \in Folders \cup {None}, MoveFolder(f, dest),
         NEW g \in Folders
  PROVE  /\ ~Moves(f, g) => path'[g] = path[g]
         /\ Moves(f, g) =>
              /\ path'[g] \in Seq(Folders)
              /\ Len(path'[g]) = Len(NewPath(f, dest)) + (Len(path[g]) - Len(path[f]))
              /\ \A i \in 1..Len(NewPath(f, dest)) : path'[g][i] = NewPath(f, dest)[i]
              /\ \A i \in (Len(NewPath(f, dest)) + 1)..Len(path'[g]) :
                    path'[g][i] = path[g][i - Len(NewPath(f, dest)) + Len(path[f])]
<1>1. path'[g] = IF Moves(f, g)
                 THEN NewPath(f, dest) \o SubSeq(path[g], Len(path[f]) + 1, Len(path[g]))
                 ELSE path[g]
  BY DEF MoveFolder, Moves, NewPath
<1>2. path[f] \in Seq(Folders) /\ path[g] \in Seq(Folders) /\ NewPath(f, dest) \in Seq(Folders)
  BY NewPathPoints DEF PathTypes
<1>3. CASE Moves(f, g)
  <2>1. IsPrefix(path[f], path[g])
    BY <1>3 DEF Moves
  <2>2. path'[g] = NewPath(f, dest) \o SubSeq(path[g], Len(path[f]) + 1, Len(path[g]))
    BY <1>1, <1>3
  <2>3. /\ path'[g] \in Seq(Folders)
        /\ Len(path'[g]) = Len(NewPath(f, dest)) + (Len(path[g]) - Len(path[f]))
        /\ \A i \in 1..Len(NewPath(f, dest)) : path'[g][i] = NewPath(f, dest)[i]
        /\ \A i \in (Len(NewPath(f, dest)) + 1)..Len(path'[g]) :
              path'[g][i] = path[g][i - Len(NewPath(f, dest)) + Len(path[f])]
    <3> DEFINE new == NewPath(f, dest)
               s == path[f]
               p == path[g]
    <3>1. /\ s \in Seq(Folders) /\ p \in Seq(Folders) /\ new \in Seq(Folders)
          /\ IsPrefix(s, p)
          /\ path'[g] = new \o SubSeq(p, Len(s) + 1, Len(p))
      BY <1>2, <2>1, <2>2
    <3> HIDE DEF new, s, p
    <3>2. LET m == new \o SubSeq(p, Len(s) + 1, Len(p))
          IN  /\ m \in Seq(Folders)
              /\ Len(m) = Len(new) + (Len(p) - Len(s))
              /\ \A i \in 1..Len(new) : m[i] = new[i]
              /\ \A i \in (Len(new) + 1)..Len(m) : m[i] = p[i - Len(new) + Len(s)]
      BY <3>1, MovedPath
    <3>3. QED
      BY <3>1, <3>2 DEF new, s, p
  <2>4. QED
    BY <1>3, <2>3
<1>4. QED
  BY <1>1, <1>3

\* A path is never empty and ends with its folder.
LEMMA PathEnds ==
  ASSUME TreeInv, NEW g \in Folders
  PROVE  /\ path[g] \in Seq(Folders)
         /\ Len(path[g]) \in Nat
         /\ Len(path[g]) >= 1
         /\ path[g][Len(path[g])] = g
<1>1. path[g] \in Seq(Folders) /\ path[g] # <<>> /\ path[g][Len(path[g])] = g
  BY DEF TreeInv, PathTypes, Ends
<1>2. QED
  BY <1>1, EmptySeq, LenProperties

\* Moving a folder keeps paths well formed.
LEMMA MovePaths ==
  ASSUME TreeInv, NEW f \in Folders, NEW dest \in Folders \cup {None}, MoveFolder(f, dest)
  PROVE  /\ path' \in [Folders -> Seq(Folders)]
         /\ \A g \in Folders : path'[g] \in Seq(Folders)
         /\ \A x : Exists(x)' <=> Exists(x)
<1>1. \A g \in Folders : path'[g] \in Seq(Folders)
  BY MoveEffect DEF TreeInv, PathTypes
<1>2. path' = [g \in Folders |-> path'[g]]
  BY DEF MoveFolder
<1>3. \A x : Exists(x)' <=> Exists(x)
  BY DEF MoveFolder, Exists
<1>4. QED
  BY <1>1, <1>2, <1>3

\* A moved folder's new path ends with the folder.
LEMMA MovedEnd ==
  ASSUME TreeInv, NEW f \in Folders, NEW dest \in Folders \cup {None}, MoveFolder(f, dest),
         NEW g \in Folders, Moves(f, g)
  PROVE  path'[g] # <<>> /\ path'[g][Len(path'[g])] = g
<1> DEFINE new == NewPath(f, dest)
           n == Len(new)
           k == Len(path[f])
           c == Len(path[g])
           q == path'[g]
<1>1. Exists(f) /\ Exists(g) /\ IsPrefix(path[f], path[g])
  BY DEF MoveFolder, ParentById, Visible, Exists, Moves
<1>2. /\ path[f] \in Seq(Folders) /\ path[g] \in Seq(Folders)
      /\ k \in Nat /\ c \in Nat /\ k >= 1
      /\ path[f][k] = f /\ path[g][c] = g
  BY <1>1, PathEnds
<1>3. k <= c /\ \A j \in 1..k : path[f][j] = path[g][j]
  BY <1>1, <1>2, PrefixPoints
<1>4. new \in Seq(Folders) /\ new[n] = f
  BY NewPathPoints DEF TreeInv
<1>5. n \in Nat /\ n >= 1
  <2>1. n = IF dest = None THEN 1 ELSE Len(path[dest]) + 1
    BY NewPathPoints DEF TreeInv
  <2>2. dest # None => Len(path[dest]) \in Nat
    BY LenProperties DEF TreeInv, PathTypes
  <2>3. QED
    BY <2>1, <2>2
<1>6. /\ q \in Seq(Folders)
      /\ Len(q) = n + (c - k)
      /\ \A j \in 1..n : q[j] = new[j]
      /\ \A j \in (n + 1)..Len(q) : q[j] = path[g][j - n + k]
  BY MoveEffect DEF TreeInv
<1> DEFINE l == Len(q)
<1>7. l = n + (c - k)
  BY <1>6
<1>8. q # <<>>
  <2> HIDE DEF new, n, k, c
  <2>1. l >= 1
    BY <1>2, <1>3, <1>5, <1>7
  <2>2. QED
    BY <2>1, EmptySeq
<1>9. /\ \A j \in 1..n : q[j] = new[j]
      /\ \A j \in (n + 1)..l : q[j] = path[g][j - n + k]
  BY <1>6
<1> HIDE DEF new, n, k, c, q, l
<1>10. CASE c = k
  <2>1. g = f
    BY <1>2, <1>3, <1>10
  <2>2. l = n /\ q[n] = f
    BY <1>2, <1>4, <1>5, <1>7, <1>9, <1>10
  <2>3. QED
    BY <1>8, <2>1, <2>2 DEF q, l
<1>11. CASE c > k
  <2>1. l \in (n + 1)..l /\ l - n + k = c
    BY <1>2, <1>5, <1>7, <1>11
  <2>2. q[l] = g
    BY <1>2, <1>9, <2>1
  <2>3. QED
    BY <1>8, <2>2 DEF q, l
<1>12. QED
  BY <1>2, <1>3, <1>10, <1>11

\* Moving a folder keeps what is known of the tree.
LEMMA MoveTree ==
  ASSUME TreeInv, NEW f \in Folders, NEW dest \in Folders \cup {None}, MoveFolder(f, dest)
  PROVE  TreeInv'
<1>1. PathTypes'
  BY MovePaths DEF TreeInv, PathTypes, MoveFolder, unitVars
<1>2. ItemsHoused' /\ Held'
  BY MovePaths DEF TreeInv, ItemsHoused, Held, Target, MoveFolder, Exists
<1>3. ASSUME NEW g \in Folders
      PROVE  path'[g] # <<>> /\ path'[g][Len(path'[g])] = g
  <2>1. CASE Moves(f, g)
    BY <2>1, MovedEnd
  <2>2. CASE ~Moves(f, g)
    BY <2>2, MoveEffect DEF TreeInv, Ends
  <2>3. QED
    BY <2>1, <2>2
<1>4. QED
  BY <1>1, <1>2, <1>3 DEF TreeInv, Ends

\* A folder that gets a path which ends with it.
LEMMA NewEnds ==
  ASSUME TreeInv, NEW f \in Folders, NEW q \in Seq(Folders), q # <<>>, q[Len(q)] = f,
         path' = [path EXCEPT ![f] = q]
  PROVE  path' \in [Folders -> Seq(Folders)] /\ Ends'
BY DEF TreeInv, PathTypes, Ends

\* An import that has looked an item up has a folder for it.
LEMMA TargetFolder ==
  ASSUME ImportInv, NEW i \in Imports, import[i].written \/ import[i].item # None
  PROVE  Target(i) \in Folders
<1> DEFINE s == import[i].path
<1>1. s \in Seq(Folders) /\ s # <<>>
  BY DEF ImportInv, ImportTypes, ImportRecords, ImportsInOrder
<1>2. Len(s) \in Nat /\ Len(s) >= 1
  BY <1>1, EmptySeq
<1>3. s[Len(s)] \in Folders
  <2> HIDE DEF s
  <2>1. Len(s) \in 1..Len(s)
    BY <1>2
  <2>2. QED
    BY <1>1, <2>1, ElementOfSeq
<1>4. QED
  BY <1>3 DEF Target, Last

\* Steps of others that leave the paths of what exists alone.
LEMMA TreeKept ==
  ASSUME TreeInv, ImportInv, UNCHANGED <<place, import>>,
         path' \in [Folders -> Seq(Folders)], Ends',
         rootPath' \in [Units -> Seq(Folders)],
         \A m \in Items : Exists(m)' => Exists(place[m])',
         \A n \in Nodes : Locked(n) /\ Exists(n) => Exists(n)',
         \A f \in Folders : Locked(f) /\ node[f] = "live" => node'[f] = "live"
  PROVE  TreeInv'
<1>1. PathTypes' /\ ItemsHoused'
  BY DEF TreeInv, PathTypes, ItemsHoused
<1>2. ASSUME NEW i \in Imports, import[i].written
      PROVE  /\ import[i].was # "absent" => Exists(import[i].item)'
             /\ import[i].was = "absent" \/ place[import[i].item] # Target(i)
                => Target(i) \in import[i].made \/ node'[Target(i)] = "live"
  <2>1. import[i].item \in Nodes /\ Locked(import[i].item)
    BY <1>2 DEF ImportInv, ImportTypes, ImportRecords, ImportsInOrder, Locked, Nodes
  <2>2. Target(i) \in Folders
    BY <1>2, TargetFolder
  <2>3. import[i].was = "absent" \/ place[import[i].item] # Target(i) => Locked(Target(i))
    BY <1>2 DEF Locked
  <2>4. QED
    BY <1>2, <2>1, <2>2, <2>3 DEF TreeInv, Held
<1>3. Held'
  BY <1>2 DEF TreeInv, Held, Target
<1>4. QED
  BY <1>1, <1>3 DEF TreeInv

\* Steps of others that leave paths, recorded paths and the set of rows alone.
LEMMA SameRows ==
  ASSUME TreeInv, ImportInv, UNCHANGED <<path, place, rootPath, import>>,
         \A n \in Nodes : Exists(n)' => Exists(n),
         \A f \in Folders : Exists(f) => Exists(f)',
         \A n \in Nodes : Locked(n) /\ Exists(n) => Exists(n)',
         \A f \in Folders : Locked(f) /\ node[f] = "live" => node'[f] = "live"
  PROVE  TreeInv'
<1>1. rootPath' \in [Units -> Seq(Folders)] /\ path' \in [Folders -> Seq(Folders)] /\ Ends'
  BY DEF TreeInv, PathTypes, Ends
<1>2. \A m \in Items : Exists(m)' => Exists(place[m])'
  BY DEF TreeInv, PathTypes, ItemsHoused, Nodes
<1>3. QED
  BY <1>1, <1>2, TreeKept

\* Steps that touch no row.
LEMMA SameNodes ==
  ASSUME TreeInv, ImportInv, UNCHANGED <<treeVars, rootPath, import>>
  PROVE  TreeInv'
BY SameRows DEF treeVars, Exists

(***************************************************************************)
(* The tree is kept                                                        *)
(***************************************************************************)
\* A starting path is the parent's, then the folder.
LEMMA StartPath ==
  ASSUME NEW g \in Folders
  PROVE  /\ PlacePath[g] \in Seq(Folders)
         /\ PlacePath[g] # <<>>
         /\ PlacePath[g][Len(PlacePath[g])] = g
<1>1. PlacePath \in [Folders -> Seq(Folders)]
      /\ PlacePath[g] = IF Place[g] = None THEN <<g>> ELSE Append(PlacePath[Place[g]], g)
  BY ForestAssumption
<1>2. CASE Place[g] = None
  BY <1>1, <1>2
<1>3. CASE Place[g] # None
  <2> DEFINE s == PlacePath[Place[g]]
             q == PlacePath[g]
  <2>1. q = Append(s, g) /\ s \in Seq(Folders)
    BY <1>1, <1>3, TreeAssumption DEF Nodes
  <2> HIDE DEF s, q
  <2>2. q \in Seq(Folders) /\ q # <<>> /\ Len(q) = Len(s) + 1 /\ q[Len(s) + 1] = g
    BY <2>1, AppendProperties
  <2>3. QED
    BY <2>2 DEF q
<1>4. QED
  BY <1>2, <1>3

\* The folders start at the paths of the forest, with the items that exist in
\* folders that do.
LEMMA InitTree == Init => TreeInv
<1> SUFFICES ASSUME Init PROVE TreeInv
  OBVIOUS
<1>1. PathTypes
  BY ForestAssumption, TreeAssumption, EmptySeq DEF Init, PathTypes
<1>2. Ends
  BY StartPath DEF Init, Ends
<1>3. ASSUME NEW m \in Items, Exists(m) PROVE Exists(place[m])
  <2>1. m \in Nodes /\ Place[m] \in Folders /\ Place[m] # None
    BY TreeAssumption DEF Nodes
  <2>2. node[m] = "live"
    BY <1>3, <2>1 DEF Init, Exists
  <2>3. QED
    BY <2>1, <2>2 DEF Init, Exists
<1>4. Held
  BY DEF Init, Held, NoImport
<1>5. QED
  BY <1>1, <1>2, <1>3, <1>4 DEF TreeInv, ItemsHoused

\* A deletion that starts, at a row nobody has locked.
LEMMA OpenTree ==
  ASSUME IInv, ImportInv, TreeInv, NEW u \in Units, NEW n \in Nodes, NEW s,
         node[n] = "live", ~Locked(n), NewUnit(u, n, s),
         node' = [node EXCEPT ![n] = "deleted"],
         UNCHANGED <<path, place, import>>
  PROVE  TreeInv'
<1>1. \A x \in Nodes : /\ Exists(x)' <=> Exists(x)
                       /\ Locked(x) /\ node[x] = "live" => node'[x] = "live"
  BY DEF Exists, IInv, Types, RowTypes
<1>2. path' \in [Folders -> Seq(Folders)] /\ Ends' /\ rootPath' \in [Units -> Seq(Folders)]
  BY HomePath DEF NewUnit, TreeInv, PathTypes, Ends
<1>3. \A m \in Items : Exists(m)' => Exists(place[m])'
  BY <1>1 DEF TreeInv, PathTypes, ItemsHoused, Nodes
<1>4. QED
  BY <1>1, <1>2, <1>3, TreeKept DEF Nodes

\* The catalogue's own operations keep the tree in order.
LEMMA CatalogueTree ==
  ASSUME IInv, ImportInv, TreeInv, Catalogue
  PROVE  TreeInv'
<1> USE DEF IInv, Types, RowTypes
<1>1. ASSUME NEW f \in Folders, NEW dest \in Folders \cup {None}, CreateFolder(f, dest)
      PROVE  TreeInv'
  <2>1. /\ UNCHANGED <<place, import, rootPath>>
        /\ path' = [path EXCEPT ![f] = NewPath(f, dest)]
        /\ node[f] = "absent" /\ node' = [node EXCEPT ![f] = "live"]
    BY <1>1 DEF CreateFolder, NewPath, unitVars
  <2>2. NewPath(f, dest) \in Seq(Folders) /\ NewPath(f, dest)[Len(NewPath(f, dest))] = f
    BY NewPathPoints DEF TreeInv
  <2>3. NewPath(f, dest) # <<>>
    <3>1. dest # None => Len(path[dest]) \in Nat
      BY LenProperties DEF TreeInv, PathTypes
    <3>2. Len(NewPath(f, dest)) = IF dest = None THEN 1 ELSE Len(path[dest]) + 1
      BY NewPathPoints DEF TreeInv
    <3>3. Len(NewPath(f, dest)) # 0
      BY <3>1, <3>2
    <3>4. QED
      BY <2>2, <3>3, EmptySeq
  <2>4. path' \in [Folders -> Seq(Folders)] /\ Ends'
    BY <2>1, <2>2, <2>3, NewEnds
  <2>5. \A n \in Nodes : /\ Exists(n) => Exists(n)'
                         /\ node[n] = "live" => node'[n] = "live"
                         /\ Exists(n)' => Exists(n) \/ n = f
    BY <2>1 DEF Exists
  <2>6. \A m \in Items : Exists(m)' => Exists(place[m])'
    BY <2>1, <2>5, TreeAssumption DEF TreeInv, PathTypes, ItemsHoused, Nodes
  <2>7. rootPath' \in [Units -> Seq(Folders)]
    BY <2>1 DEF TreeInv, PathTypes
  <2>8. QED
    BY <2>1, <2>4, <2>5, <2>6, <2>7, TreeKept DEF Nodes
<1>2. ASSUME NEW m \in Items, CreateItem(m)
      PROVE  TreeInv'
  <2>1. /\ UNCHANGED <<path, place, rootPath, import>>
        /\ node[m] = "absent" /\ node' = [node EXCEPT ![m] = "live"]
        /\ Exists(place[m])
    BY <1>2 DEF CreateItem, unitVars, Visible, Exists
  <2>2. \A n \in Nodes : /\ Exists(n) => Exists(n)'
                         /\ node[n] = "live" => node'[n] = "live"
                         /\ Exists(n)' => Exists(n) \/ n = m
    BY <2>1 DEF Exists
  <2>3. \A x \in Items : Exists(x)' => Exists(place[x])'
    BY <2>1, <2>2 DEF TreeInv, PathTypes, ItemsHoused, Nodes
  <2>4. path' \in [Folders -> Seq(Folders)] /\ Ends' /\ rootPath' \in [Units -> Seq(Folders)]
    BY <2>1 DEF TreeInv, PathTypes, Ends
  <2>5. QED
    BY <2>1, <2>2, <2>3, <2>4, TreeKept DEF Nodes
<1>3. ASSUME NEW f \in Folders, NEW dest \in Folders \cup {None}, MoveFolder(f, dest)
      PROVE  TreeInv'
  BY <1>3, MoveTree
<1>4. ASSUME NEW u \in Units, NEW n \in Nodes, Delete(u, n)
      PROVE  TreeInv'
  BY <1>4, OpenTree DEF Delete
<1>5. ASSUME NEW n \in Nodes, RestoreNode(n)
      PROVE  TreeInv'
  <2>1. /\ UNCHANGED <<path, place, rootPath, import>>
        /\ node[n] = "deleted" /\ node' = [node EXCEPT ![n] = "live"]
    BY <1>5 DEF RestoreNode, CloseEntry
  <2>2. \A x \in Nodes : (Exists(x)' <=> Exists(x)) /\ (node[x] = "live" => node'[x] = "live")
    BY <2>1 DEF Exists
  <2>3. QED
    BY <2>1, <2>2, SameRows DEF Nodes
<1>6. QED
  BY <1>1, <1>2, <1>3, <1>4, <1>5 DEF Catalogue

\* Requests about jobs keep the tree in order.
LEMMA RequestTree ==
  ASSUME IInv, ImportInv, TreeInv, Requests
  PROVE  TreeInv'
<1>1. ASSUME NEW u \in Units, NEW f \in Folders, Confirm(u, f)
      PROVE  TreeInv'
  BY <1>1, OpenTree DEF Confirm, CloseGate, Nodes
<1>2. ASSUME NEW u \in Units, Cancel(u)
      PROVE  TreeInv'
  <2>1. UNCHANGED <<path, place, rootPath, import>>
    BY <1>2 DEF Cancel
  <2>2. \A x \in Nodes : (Exists(x)' <=> Exists(x)) /\ (node[x] = "live" => node'[x] = "live")
    BY <1>2 DEF Cancel, Exists, IInv, Types, RowTypes
  <2>3. QED
    BY <2>1, <2>2, SameRows DEF Nodes
<1>3. ASSUME NEW u \in Units, Retry(u) \/ QueueRestore(u) \/ QueuePurge(u)
      PROVE  TreeInv'
  BY <1>3, SameNodes DEF Retry, QueueRestore, QueuePurge, unitVars
<1>4. QED
  BY <1>1, <1>2, <1>3 DEF Requests

\* Delete and restore batches keep the tree in order: what an import has locked
\* is not in them.
LEMMA BatchTree ==
  ASSUME IInv, ImportInv, TreeInv, NEW w \in Workers, NEW u \in Units, NEW S \in SUBSET Nodes,
         \/ DeleteItems(w, u, S) \/ DeleteFolders(w, u, S)
         \/ RestoreItems(w, u, S) \/ RestoreFolders(w, u, S) \/ RestoreRoot(w, u)
  PROVE  TreeInv'
<1>1. UNCHANGED <<path, place, rootPath, import>>
  BY DEF DeleteItems, DeleteFolders, RestoreItems, RestoreFolders, RestoreRoot, unitVars
<1>2. CASE DeleteItems(w, u, S) \/ DeleteFolders(w, u, S)
  <2>1. node' = SetNodes(S, "deleted") /\ \A x \in S : node[x] = "live" /\ ~Locked(x)
    BY <1>2 DEF DeleteItems, DeleteFolders, LiveItems, LiveFolders, Unlocked
  <2>2. \A x \in Nodes : /\ Exists(x)' <=> Exists(x)
                         /\ Locked(x) /\ node[x] = "live" => node'[x] = "live"
    BY <2>1 DEF SetNodes, Exists
  <2>3. QED
    BY <1>1, <2>2, SameRows DEF Nodes
<1>3. CASE RestoreItems(w, u, S) \/ RestoreFolders(w, u, S)
  <2>1. node' = SetNodes(S, "live") /\ \A x \in S : node[x] = "deleted"
    BY <1>3 DEF RestoreItems, RestoreFolders, MemberItems, MemberFolders, Tombstones, Unlocked
  <2>2. \A x \in Nodes : (Exists(x)' <=> Exists(x)) /\ (node[x] = "live" => node'[x] = "live")
    BY <2>1 DEF SetNodes, Exists
  <2>3. QED
    BY <1>1, <2>2, SameRows DEF Nodes
<1>4. CASE RestoreRoot(w, u)
  <2>1. \A x \in Nodes : (Exists(x)' <=> Exists(x)) /\ (node[x] = "live" => node'[x] = "live")
    BY <1>4 DEF RestoreRoot, Restoring, Restorable, Exists, IInv, Types, RowTypes
  <2>2. QED
    BY <1>1, <2>1, SameRows DEF Nodes
<1>5. QED
  BY <1>2, <1>3, <1>4

\* A purge removes items nobody has locked, and folders no item is in.
LEMMA PurgeTree ==
  ASSUME IInv, ImportInv, TreeInv, NEW w \in Workers, NEW u \in Units,
         \/ \E m \in Items : PurgePick(w, u, m)
         \/ PurgeItem(w, u)
         \/ \E f \in Folders : PurgeFolder(w, u, f)
         \/ PurgeFinish(w, u)
  PROVE  TreeInv'
<1> USE DEF IInv, Types, RowTypes
<1>1. UNCHANGED <<path, place, rootPath, import>>
  BY DEF PurgePick, PurgeItem, PurgeFolder, PurgeFinish, treeVars, unitVars
<1>2. CASE PurgeItem(w, u)
  <2>1. worker[w].item \in Items
    BY <1>2 DEF PurgeItem, Purging, Holds, Busy, WorkerTypes
  <2>2. \A x \in Nodes : /\ Exists(x)' => Exists(x)
                         /\ Locked(x) /\ Exists(x) => Exists(x)'
                         /\ node[x] = "live" => node'[x] = "live"
    BY <1>2 DEF PurgeItem, Tombstones, Exists
  <2>3. \A x \in Folders : Exists(x) => Exists(x)'
    BY <1>2, <2>1, TreeAssumption DEF PurgeItem, Exists, Nodes
  <2>4. QED
    BY <1>1, <2>2, <2>3, SameRows DEF Nodes
<1>3. ASSUME NEW f \in Folders, PurgeFolder(w, u, f)
      PROVE  TreeInv'
  <2>1. f \in Tombstones(u) /\ ~Locked(f) /\ \A m \in Items : place[m] = f => ~Exists(m)
    BY <1>3 DEF PurgeFolder, PurgeLeaves, Unlocked
  <2>2. \A x \in Nodes : /\ Exists(x)' <=> Exists(x) /\ x # f
                         /\ node[x] = "live" => node'[x] = "live"
    BY <1>3, <2>1 DEF PurgeFolder, Tombstones, Exists
  <2>3. \A m \in Items : Exists(m)' => Exists(place[m])'
    BY <1>1, <2>1, <2>2, TreeAssumption DEF TreeInv, PathTypes, ItemsHoused, Nodes
  <2>4. path' \in [Folders -> Seq(Folders)] /\ Ends' /\ rootPath' \in [Units -> Seq(Folders)]
    BY <1>1 DEF TreeInv, PathTypes, Ends
  <2>5. QED
    BY <1>1, <2>1, <2>2, <2>3, <2>4, TreeKept DEF Nodes
<1>4. ASSUME NEW m \in Items, PurgePick(w, u, m)
      PROVE  TreeInv'
  BY <1>1, <1>4, SameNodes DEF PurgePick
<1>5. CASE PurgeFinish(w, u)
  BY <1>1, <1>5, SameNodes DEF PurgeFinish
<1>6. QED
  BY <1>2, <1>3, <1>4, <1>5

\* The import keeps the tree in order: what it writes it has locked.
LEMMA ImportTree ==
  ASSUME IInv, ImportInv, TreeInv, Importing
  PROVE  TreeInv'
<1> USE DEF IInv, Types, RowTypes
<1>0. PICK i \in Imports :
         \/ \E f \in Folders : ImportFolder(i, f) \/ ImportNewFolder(i, f)
         \/ \E m \in Items : ImportItem(i, m)
         \/ ImportWrite(i)
         \/ ImportCommit(i)
         \/ ImportAbort(i)
  BY DEF Importing
<1> DEFINE r == import[i]
<1>1. /\ r \in ImportRecords
      /\ r.written => r.item \in Items
      /\ r.item = None => ~r.written
      /\ \A n \in Inserted(i) : node[n] = "inserted"
      /\ import \in [Imports -> ImportRecords]
  BY DEF ImportInv, ImportTypes, ImportRecords, ImportsInOrder, OwnRows
<1>2. ASSUME rootPath' = rootPath, place' = place,
             path' \in [Folders -> Seq(Folders)], Ends',
             \A n \in Nodes : (Exists(n)' <=> Exists(n)) /\ (node[n] = "live" => node'[n] = "live"),
             ~import'[i].written,
             \A j \in Imports \ {i} : import'[j] = import[j]
      PROVE  TreeInv'
  <2>1. PathTypes' /\ ItemsHoused'
    BY <1>2 DEF TreeInv, PathTypes, ItemsHoused, Nodes
  <2>2. ASSUME NEW j \in Imports \ {i}, import[j].written
        PROVE  /\ import[j].was # "absent" => Exists(import[j].item)'
               /\ import[j].was = "absent" \/ place[import[j].item] # Target(j)
                  => Target(j) \in import[j].made \/ node'[Target(j)] = "live"
    <3>1. import[j].item \in Nodes /\ Target(j) \in Nodes
      BY <2>2, TargetFolder DEF ImportInv, ImportTypes, ImportRecords, ImportsInOrder, Nodes
    <3>2. QED
      BY <1>2, <2>2, <3>1 DEF TreeInv, Held
  <2>3. Held'
    BY <1>2, <2>2 DEF TreeInv, Held, Target
  <2>4. QED
    BY <1>2, <2>1, <2>3 DEF TreeInv
<1>3. ASSUME NEW f \in Folders, ImportFolder(i, f)
      PROVE  TreeInv'
  BY <1>1, <1>2, <1>3 DEF ImportFolder, Step, treeVars, unitVars, Exists, ImportRecords,
                          TreeInv, PathTypes, Ends
<1>4. ASSUME NEW f \in Folders, ImportNewFolder(i, f)
      PROVE  TreeInv'
  <2>1. /\ node[f] = "absent" /\ node' = [node EXCEPT ![f] = "inserted"]
        /\ path' = [path EXCEPT ![f] = Append(r.path, f)]
        /\ UNCHANGED <<place, rootPath>>
        /\ ~import'[i].written
        /\ \A j \in Imports \ {i} : import'[j] = import[j]
    BY <1>1, <1>4 DEF ImportNewFolder, Step, unitVars, ImportRecords
  <2> DEFINE q == Append(r.path, f)
  <2>2. q \in Seq(Folders) /\ q # <<>> /\ q[Len(q)] = f
    <3>1. r.path \in Seq(Folders)
      BY <1>1 DEF ImportRecords
    <3>2. QED
      BY <3>1, AppendProperties
  <2>3. path' = [path EXCEPT ![f] = q]
    BY <2>1
  <2> HIDE DEF q
  <2>4. path' \in [Folders -> Seq(Folders)] /\ Ends'
    BY <2>2, <2>3, NewEnds
  <2>5. \A n \in Nodes : (Exists(n)' <=> Exists(n)) /\ (node[n] = "live" => node'[n] = "live")
    BY <2>1 DEF Exists
  <2>6. QED
    BY <1>2, <2>1, <2>4, <2>5
<1>5. ASSUME NEW m \in Items, ImportItem(i, m)
      PROVE  TreeInv'
  BY <1>1, <1>2, <1>5 DEF ImportItem, treeVars, unitVars, Exists, ImportRecords,
                          TreeInv, PathTypes, Ends
<1>6. CASE ImportWrite(i)
  <2> DEFINE m == r.item
  <2>1. /\ m \in Items /\ ~r.written /\ Accepts(i) /\ ~Locked(m)
        /\ \/ r.was = "absent" /\ node[m] = "absent" /\ node' = [node EXCEPT ![m] = "inserted"]
           \/ r.was # "absent" /\ Exists(m) /\ node' = node
        /\ import' = [import EXCEPT ![i].written = TRUE]
        /\ UNCHANGED <<path, place, rootPath>>
    BY <1>1, <1>6 DEF ImportWrite, unitVars, ImportRecords, Exists
  <2>2. /\ \A n \in Nodes : (Exists(n)' <=> Exists(n)) /\ (node[n] = "live" => node'[n] = "live")
        /\ r.was # "absent" => Exists(m)'
    BY <2>1 DEF Exists
  <2>3. /\ import'[i].path = r.path /\ import'[i].item = m
        /\ import'[i].was = r.was /\ import'[i].made = r.made
        /\ \A j \in Imports \ {i} : import'[j] = import[j]
    BY <1>1, <2>1 DEF ImportRecords
  <2>4. PathTypes' /\ Ends' /\ ItemsHoused'
    BY <2>1, <2>2 DEF TreeInv, PathTypes, Ends, ItemsHoused, Nodes
  <2>5. \A j \in Imports \ {i} : import[j].written => import[j].item # m
    BY <2>1 DEF Locked
  <2>6. Target(i) \in r.made \/ node'[Target(i)] = "live"
    <3>1. Target(i) \in Nodes /\ (Target(i) \in r.made \/ node[Target(i)] = "live")
      BY <2>1, TargetFolder, TreeAssumption DEF Accepts, Nodes
    <3>2. QED
      BY <2>2, <3>1
  <2>7. ASSUME NEW j \in Imports \ {i}, import[j].written
        PROVE  /\ import[j].was # "absent" => Exists(import[j].item)'
               /\ import[j].was = "absent" \/ place[import[j].item] # Target(j)
                  => Target(j) \in import[j].made \/ node'[Target(j)] = "live"
    <3>1. import[j].item \in Nodes /\ Target(j) \in Nodes
      BY <2>7, TargetFolder DEF ImportInv, ImportTypes, ImportRecords, ImportsInOrder, Nodes
    <3>2. QED
      BY <2>2, <2>3, <2>7, <3>1 DEF TreeInv, Held
  <2>8. /\ Target(i)' = Target(i) /\ place' = place
        /\ \A j \in Imports \ {i} : Target(j)' = Target(j)
    BY <2>1, <2>3 DEF Target
  <2>9. ASSUME NEW j \in Imports, import'[j].written
         PROVE  /\ import'[j].was # "absent" => Exists(import[j].item)'
                /\ import'[j].was = "absent" \/ place'[import'[j].item] # Target(j)'
                   => Target(j)' \in import'[j].made \/ node'[Target(j)'] = "live"
    <3>1. CASE j = i
      BY <2>2, <2>3, <2>6, <2>8, <2>9, <3>1 DEF Exists
    <3>2. CASE j # i
      BY <2>3, <2>7, <2>8, <2>9, <3>2
    <3>3. QED
      BY <3>1, <3>2
  <2>10. \A j, k \in Imports : j # k /\ import'[j].written /\ import'[k].written
                               => import'[j].item # import'[k].item
    BY <2>3, <2>5 DEF TreeInv, Held
  <2>11. Held'
    BY <2>9, <2>10 DEF Held
  <2>12. QED
    BY <2>4, <2>11 DEF TreeInv
<1>7. CASE ImportCommit(i)
  <2> DEFINE S == IF r.written THEN {r.item} ELSE {}
  <2>1. /\ node' = SetNodes(r.made \cup S, "live")
        /\ place' = [m \in Items |-> IF m \in S THEN Target(i) ELSE place[m]]
        /\ import' = [import EXCEPT ![i] = NoImport]
        /\ UNCHANGED <<path, rootPath>>
    BY <1>7 DEF ImportCommit
  <2>2. /\ \A n \in Nodes : (Exists(n) => Exists(n)') /\ (node[n] = "live" => node'[n] = "live")
        /\ \A m \in Items : Exists(m)' => Exists(m) \/ m \in S
        /\ \A n \in r.made : Exists(n)'
    BY <1>1, <2>1, TreeAssumption DEF SetNodes, Exists, ImportRecords, Nodes
  <2>3. S # {} => r.written /\ S = {r.item} /\ Target(i) \in Folders
    BY TargetFolder
  <2>4. PathTypes' /\ Ends'
    BY <2>1, <2>3 DEF TreeInv, PathTypes, Ends
  <2>5. ASSUME NEW m \in Items, Exists(m)' PROVE Exists(place[m])'
    <3>1. CASE m \in S
      <4>1. r.written /\ m = r.item /\ Target(i) \in Folders /\ place'[m] = Target(i)
        BY <2>1, <2>3, <3>1
      <4>2. CASE r.was = "absent" \/ place[m] # Target(i)
        <5>1. Target(i) \in r.made \/ node[Target(i)] = "live"
          BY <4>1, <4>2 DEF TreeInv, Held
        <5>2. QED
          BY <2>2, <4>1, <5>1 DEF Exists, Nodes
      <4>3. CASE r.was # "absent" /\ place[m] = Target(i)
        <5>1. Exists(m) /\ m \in Nodes
          BY <4>1, <4>3 DEF TreeInv, Held, Nodes
        <5>2. Exists(Target(i))
          BY <4>3, <5>1 DEF TreeInv, ItemsHoused
        <5>3. QED
          BY <2>2, <4>1, <5>2 DEF Nodes
      <4>4. QED
        BY <4>1, <4>2, <4>3
    <3>2. CASE m \notin S
      <4>1. Exists(m) /\ place'[m] = place[m] /\ place[m] \in Folders
        BY <2>1, <2>2, <2>5, <3>2 DEF TreeInv, PathTypes
      <4>2. Exists(place[m]) /\ place[m] \in Nodes
        BY <4>1 DEF TreeInv, ItemsHoused, Nodes
      <4>3. QED
        BY <2>2, <4>1, <4>2
    <3>3. QED
      BY <3>1, <3>2
  <2>6. import'[i] = NoImport /\ \A j \in Imports \ {i} : import'[j] = import[j]
    BY <1>1, <2>1
  <2>7. ASSUME NEW j \in Imports \ {i}, import[j].written
        PROVE  /\ import[j].was # "absent" => Exists(import[j].item)'
               /\ import[j].was = "absent" \/ place'[import[j].item] # Target(j)
                  => Target(j) \in import[j].made \/ node'[Target(j)] = "live"
    <3>1. import[j].item \in Items /\ import[j].item \in Nodes /\ Target(j) \in Nodes
      BY <2>7, TargetFolder DEF ImportInv, ImportTypes, ImportRecords, ImportsInOrder, Nodes
    <3>2. import[j].item \notin S
      BY <2>3, <2>7 DEF TreeInv, Held
    <3>3. place'[import[j].item] = place[import[j].item]
      BY <2>1, <3>1, <3>2
    <3>4. QED
      BY <2>2, <2>6, <2>7, <3>1, <3>3 DEF TreeInv, Held
  <2>8. Held'
    BY <2>6, <2>7 DEF TreeInv, Held, Target, NoImport
  <2>9. QED
    BY <2>4, <2>5, <2>8 DEF TreeInv, ItemsHoused
<1>8. CASE ImportAbort(i)
  <2> DEFINE S == r.made \cup (IF r.written /\ r.was = "absent" THEN {r.item} ELSE {})
  <2>1. /\ node' = SetNodes(S, "absent")
        /\ import' = [import EXCEPT ![i] = NoImport]
        /\ UNCHANGED <<path, place, rootPath>>
    BY <1>8 DEF ImportAbort, unitVars
  <2>2. \A n \in S : node[n] = "inserted"
    BY <1>1 DEF Inserted
  <2> HIDE DEF S
  <2>3. \A n \in Nodes : (Exists(n)' <=> Exists(n)) /\ (node[n] = "live" => node'[n] = "live")
    BY <2>1, <2>2 DEF SetNodes, Exists
  <2>4. ~import'[i].written /\ \A j \in Imports \ {i} : import'[j] = import[j]
    BY <1>1, <2>1 DEF NoImport
  <2>5. path' \in [Folders -> Seq(Folders)] /\ Ends'
    BY <2>1 DEF TreeInv, PathTypes, Ends
  <2>6. QED
    BY <1>2, <2>1, <2>3, <2>4, <2>5
<1>9. QED
  BY <1>0, <1>3, <1>4, <1>5, <1>6, <1>7, <1>8


(***************************************************************************)
(* The bin                                                                 *)
(***************************************************************************)
\* The folder a running deletion started from has the path recorded for it.
DeletingHome ==
    \A u \in Units : state[u] = "deleting"
                     => root[u] \in Folders /\ rootPath[u] = path[root[u]]

\* Running deletions keep apart.
DeletingApart ==
    \A u, v \in Units : u # v /\ state[u] = "deleting" /\ state[v] = "deleting"
                        => ~Overlap(rootPath[u], rootPath[v])

\* A unit nobody opened has no members.
UnusedEmpty == \A u \in Units, n \in Nodes : member[n] = u => state[u] # "none"

\* A unit somebody opened has a root.
RootsKnown == \A u \in Units : state[u] # "none" => root[u] \in Nodes

\* As long as the root is in the bin, the rest of the unit lies below it.
MembersBelow ==
    \A u \in Units : root[u] \in Tombstones(u) =>
        \A n \in Tombstones(u) : IF root[u] \in Items THEN n = root[u]
                                                     ELSE Under(n, path[root[u]])

\* The parent a path names.
ParentId(s) == IF Len(s) = 1 THEN None ELSE s[Len(s) - 1]

\* As long as the root is in the bin, it has the parent it had at the deletion,
SameParent ==
    \A u \in Units : root[u] \in Folders /\ root[u] \in Tombstones(u) =>
        /\ rootPath[u] # <<>>
        /\ rootPath[u][Len(rootPath[u])] = root[u]
        /\ ParentId(rootPath[u]) = ParentId(path[root[u]])

\* or, an item, is in the folder it was in then.
ItemHome ==
    \A u \in Units : root[u] \in Items /\ root[u] \in Tombstones(u)
                     => Last(rootPath[u]) = place[root[u]]

\* What is known of the bin and of running deletions.
BinInv ==
    /\ BinEntryExact
    /\ DeletingHome
    /\ DeletingApart
    /\ UnusedEmpty
    /\ RootsKnown
    /\ MembersBelow
    /\ SameParent
    /\ ItemHome

\* A path that overlaps a running deletion's is fenced.
LEMMA DeletingFences ==
  ASSUME IInv, NEW u \in Units, state[u] = "deleting", NEW s, Overlap(rootPath[u], s)
  PROVE  Fenced(s)
<1>1. Agree(u)
  BY DEF IInv, RecordsAgree
<1>2. legacy[u] \in {"queued", "running", "failed"}
  BY <1>1 DEF Agree
<1>3. QED
  BY <1>2 DEF Fenced

\* No unit is opened by the step; rows leave units, no tombstone moves, and no
\* folder leaves the bin without its unit.
BinQuiet ==
    /\ UNCHANGED <<root, rootPath>>
    /\ \A u \in Units :
          /\ Tombstones(u)' \subseteq Tombstones(u)
          /\ state[u] = "none" <=> state'[u] = "none"
          /\ state'[u] = "deleting" => state[u] = "deleting"
          /\ state'[u] \in {"deleting", "deleted"} =>
                /\ state[u] \in {"deleting", "deleted"}
                /\ root[u] \in Folders => root[u] \in Tombstones(u)'
    /\ \A n \in Nodes :
          /\ member'[n] # None => member'[n] = member[n]
          /\ node[n] = "deleted" /\ node'[n] = "deleted"
             => PathOf(n)' = PathOf(n) /\ Home(n)' = Home(n)

\* Such a step keeps what is known of the bin.
LEMMA QuietBin ==
  ASSUME BinInv, BinQuiet
  PROVE  BinInv'
<1>1. root' = root /\ rootPath' = rootPath
  BY DEF BinQuiet
<1>2. BinEntryExact'
  BY DEF BinQuiet, BinEntryExact
<1>3. \A u \in Units : \A n \in Tombstones(u)' :
         n \in Tombstones(u) /\ PathOf(n)' = PathOf(n) /\ Home(n)' = Home(n)
  BY DEF BinQuiet, Tombstones
<1>4. \A u \in Units, f \in Folders : f \in Tombstones(u)' => path'[f] = path[f]
  BY <1>3, TreeAssumption DEF PathOf
<1>5. DeletingHome'
  <2>1. ASSUME NEW u \in Units, state'[u] = "deleting"
        PROVE  root'[u] \in Folders /\ rootPath'[u] = path'[root'[u]]
    <3>1. root[u] \in Folders /\ rootPath[u] = path[root[u]] /\ root[u] \in Tombstones(u)'
      BY <2>1 DEF BinQuiet, BinInv, DeletingHome
    <3>2. QED
      BY <1>1, <1>4, <3>1
  <2>2. QED
    BY <2>1 DEF DeletingHome
<1>6. DeletingApart'
  BY <1>1 DEF BinQuiet, BinInv, DeletingApart, Overlap
<1>7. UnusedEmpty'
  BY TreeAssumption DEF BinQuiet, BinInv, UnusedEmpty
<1>8. MembersBelow'
  <2>1. ASSUME NEW u \in Units, root'[u] \in Tombstones(u)', NEW n \in Tombstones(u)'
        PROVE  IF root'[u] \in Items THEN n = root'[u] ELSE IsPrefix(path'[root'[u]], PathOf(n)')
    <3>1. /\ root[u] \in Tombstones(u) /\ n \in Tombstones(u) /\ PathOf(n)' = PathOf(n)
          /\ root[u] \in Folders => path'[root[u]] = path[root[u]]
      BY <1>1, <1>3, <1>4, <2>1
    <3>2. root[u] \in Nodes
      BY <3>1 DEF Tombstones
    <3>3. QED
      BY <1>1, <3>1, <3>2 DEF BinInv, MembersBelow, Under, Nodes
  <2>2. QED
    BY <2>1 DEF MembersBelow, Under
<1>9. SameParent'
  BY <1>1, <1>3, <1>4 DEF BinInv, SameParent, ParentId
<1>10. ItemHome'
  BY <1>1, <1>3 DEF BinInv, ItemHome, Home
<1>11. RootsKnown'
  BY <1>1 DEF BinQuiet, BinInv, RootsKnown
<1>12. QED
  BY <1>2, <1>5, <1>6, <1>7, <1>8, <1>9, <1>10, <1>11 DEF BinInv

\* A unit opened for a row that is live.
LEMMA OpenBin ==
  ASSUME IInv, TreeInv, BinInv,
         NEW u \in Units, NEW n \in Nodes, NEW s \in {"deleting", "deleted"},
         NewUnit(u, n, s), node[n] = "live",
         s = "deleting" => n \in Folders /\ ~Fenced(path[n]),
         path' = path, place' = place,
         node' = [node EXCEPT ![n] = "deleted"],
         member' = [member EXCEPT ![n] = u]
  PROVE  BinInv'
<1>1. /\ state[u] = "none"
      /\ state'[u] = s /\ root'[u] = n /\ rootPath'[u] = PathOf(n)
      /\ node'[n] = "deleted" /\ member'[n] = u
      /\ \A v \in Units \ {u} :
            state'[v] = state[v] /\ root'[v] = root[v] /\ rootPath'[v] = rootPath[v]
      /\ \A x \in Nodes \ {n} : node'[x] = node[x] /\ member'[x] = member[x]
  BY DEF NewUnit, IInv, Types, RowTypes, JobTypes, TreeInv, PathTypes
<1>2. n \in Folders => PathOf(n) = path[n]
  BY TreeAssumption DEF PathOf
<1>3. /\ Tombstones(u)' = {n}
      /\ \A v \in Units \ {u} : Tombstones(v)' = Tombstones(v)
  <2>1. \A x \in Nodes : member[x] # u
    BY <1>1 DEF BinInv, UnusedEmpty
  <2>2. QED
    BY <1>1, <2>1 DEF Tombstones
<1>4. BinEntryExact'
  BY <1>1, <1>3 DEF BinInv, BinEntryExact
<1>5. DeletingHome'
  BY <1>1, <1>2 DEF BinInv, DeletingHome
<1>6. DeletingApart'
  <2>1. ASSUME NEW v \in Units, v # u, state'[u] = "deleting", state'[v] = "deleting"
        PROVE  ~Overlap(rootPath'[v], rootPath'[u]) /\ ~Overlap(rootPath'[u], rootPath'[v])
    <3>1. ~Overlap(rootPath[v], path[n])
      BY <1>1, <2>1, DeletingFences
    <3>2. QED
      BY <1>1, <1>2, <2>1, <3>1 DEF Overlap
  <2>2. ASSUME NEW v \in Units, NEW x \in Units, v # x, v # u, x # u,
               state'[v] = "deleting", state'[x] = "deleting"
        PROVE  ~Overlap(rootPath'[v], rootPath'[x])
    BY <1>1, <2>2 DEF BinInv, DeletingApart
  <2>3. QED
    BY <2>1, <2>2 DEF DeletingApart, Overlap
<1>7. UnusedEmpty'
  BY <1>1 DEF BinInv, UnusedEmpty
<1>8. MembersBelow'
  <2>1. ASSUME n \in Folders PROVE Under(n, path[n])
    BY <1>2, <2>1, HomePath, PrefixOfItself DEF Under
  <2>2. \A x \in Nodes : PathOf(x)' = PathOf(x)
    BY DEF PathOf
  <2>3. ASSUME NEW v \in Units, (root[v] \in Tombstones(v))', NEW x \in Tombstones(v)'
        PROVE  IF root'[v] \in Items THEN x = root'[v] ELSE IsPrefix(path'[root'[v]], PathOf(x)')
    <3>1. CASE v = u
      BY <1>1, <1>3, <2>1, <2>2, <2>3, <3>1 DEF Under, Nodes
    <3>2. CASE v # u
      BY <1>1, <1>3, <2>2, <2>3, <3>2 DEF BinInv, MembersBelow, Under, Tombstones
    <3>3. QED
      BY <3>1, <3>2
  <2>4. QED
    BY <2>3 DEF MembersBelow, Under
<1>9. SameParent'
  <2>1. ASSUME n \in Folders PROVE path[n] # <<>> /\ path[n][Len(path[n])] = n
    BY <2>1 DEF TreeInv, Ends
  <2>2. ASSUME NEW v \in Units, root'[v] \in Folders, root'[v] \in Tombstones(v)'
        PROVE  /\ rootPath'[v] # <<>>
               /\ rootPath'[v][Len(rootPath'[v])] = root'[v]
               /\ ParentId(rootPath'[v]) = ParentId(path'[root'[v]])
    <3>1. CASE v = u
      BY <1>1, <1>2, <2>1, <2>2, <3>1
    <3>2. CASE v # u
      BY <1>1, <1>3, <2>2, <3>2 DEF BinInv, SameParent
    <3>3. QED
      BY <3>1, <3>2
  <2>3. QED
    BY <2>2 DEF SameParent, ParentId
<1>10. RootsKnown'
  BY <1>1 DEF BinInv, RootsKnown
<1>11. ItemHome'
  <2>1. ASSUME n \in Items PROVE Last(PathOf(n)) = place[n]
    BY <2>1 DEF TreeInv, PathTypes, Ends, PathOf, Last
  <2>2. ASSUME NEW v \in Units, root'[v] \in Items, root'[v] \in Tombstones(v)'
        PROVE  Last(rootPath'[v]) = place[root'[v]]
    <3>1. CASE v = u
      BY <1>1, <2>1, <2>2, <3>1
    <3>2. CASE v # u
      BY <1>1, <1>3, <2>2, <3>2 DEF BinInv, ItemHome
    <3>3. QED
      BY <3>1, <3>2
  <2>3. QED
    BY <2>2 DEF ItemHome, Last
<1>12. QED
  BY <1>4, <1>5, <1>6, <1>7, <1>8, <1>9, <1>10, <1>11 DEF BinInv

\* A deletion batch adds live rows below the root to its unit.
LEMMA BatchBin ==
  ASSUME IInv, TreeInv, BinInv, NEW u \in Units, NEW S \in SUBSET Nodes,
         state[u] = "deleting",
         \A n \in S : node[n] = "live" /\ Under(n, rootPath[u]),
         node' = SetNodes(S, "deleted"), member' = SetMembers(S, u),
         UNCHANGED <<path, place, unitVars>>
  PROVE  BinInv'
<1>1. path' = path /\ root' = root /\ rootPath' = rootPath /\ state' = state
  BY DEF unitVars
<1>2. /\ \A n \in S : node'[n] = "deleted" /\ member'[n] = u
      /\ \A n \in Nodes \ S : node'[n] = node[n] /\ member'[n] = member[n]
  BY DEF SetNodes, SetMembers
<1>3. /\ Tombstones(u)' = Tombstones(u) \cup S
      /\ \A v \in Units \ {u} : Tombstones(v)' = Tombstones(v)
  BY <1>2 DEF Tombstones
<1>4. BinEntryExact'
  BY <1>1, <1>3 DEF BinInv, BinEntryExact
<1>5. DeletingHome' /\ DeletingApart'
  BY <1>1 DEF BinInv, DeletingHome, DeletingApart, Overlap
<1>6. UnusedEmpty' /\ RootsKnown'
  BY <1>1, <1>2 DEF BinInv, UnusedEmpty, RootsKnown
<1>7. root[u] \in Tombstones(u) /\ root[u] \in Folders /\ rootPath[u] = path[root[u]]
  BY DEF BinInv, BinEntryExact, DeletingHome
<1>8. \A v \in Units : root[v] \in Tombstones(v)' => root[v] \in Tombstones(v)
  BY <1>3, <1>7
<1>9. MembersBelow'
  <2>1. \A x \in Nodes : PathOf(x)' = PathOf(x)
    BY <1>1 DEF PathOf
  <2>2. ASSUME NEW v \in Units, root'[v] \in Tombstones(v)', NEW x \in Tombstones(v)'
        PROVE  IF root'[v] \in Items THEN x = root'[v] ELSE IsPrefix(path'[root'[v]], PathOf(x)')
    <3>1. x \in Tombstones(v) \/ (v = u /\ x \in S)
      BY <1>3, <2>2
    <3>2. CASE x \in Tombstones(v)
      BY <1>1, <1>8, <2>1, <2>2, <3>2 DEF BinInv, MembersBelow, Under, Tombstones
    <3>3. CASE v = u /\ x \in S
      BY <1>1, <1>7, <2>1, <3>3, TreeAssumption DEF Under
    <3>4. QED
      BY <3>1, <3>2, <3>3
  <2>3. QED
    BY <2>2 DEF MembersBelow, Under
<1>10. SameParent'
  BY <1>1, <1>8 DEF BinInv, SameParent, ParentId
<1>11. ItemHome'
  BY <1>1, <1>8 DEF BinInv, ItemHome, Last
<1>12. QED
  BY <1>4, <1>5, <1>6, <1>9, <1>10, <1>11 DEF BinInv

\* What lies below a deleted folder stays below it when a visible folder moves.
LEMMA MoveBelow ==
  ASSUME TreeInv, NEW f \in Folders, NEW dest \in Folders \cup {None}, MoveFolder(f, dest),
         NEW g \in Folders, node[g] = "deleted", NEW y \in Folders, Exists(y),
         IsPrefix(path[g], path[y])
  PROVE  IsPrefix(path'[g], path'[y])
<1> DEFINE new == NewPath(f, dest)
           n == Len(new)
           k == Len(path[f])
<1>1. /\ path[f] \in Seq(Folders) /\ path[g] \in Seq(Folders) /\ path[y] \in Seq(Folders)
      /\ path'[g] \in Seq(Folders) /\ path'[y] \in Seq(Folders)
  BY MovePaths DEF TreeInv, PathTypes
<1>2. Exists(g)
  BY DEF Exists
<1>3. CASE Moves(f, g)
  <2>1. IsPrefix(path[f], path[g])
    BY <1>3 DEF Moves
  <2>2. Moves(f, y)
    BY <1>1, <2>1, PrefixOfPrefix DEF Moves
  <2>3. /\ Len(path'[g]) = n + (Len(path[g]) - k)
        /\ \A i \in 1..n : path'[g][i] = new[i]
        /\ \A i \in (n + 1)..Len(path'[g]) : path'[g][i] = path[g][i - n + k]
    BY <1>3, MoveEffect DEF TreeInv
  <2>4. /\ Len(path'[y]) = n + (Len(path[y]) - k)
        /\ \A i \in 1..n : path'[y][i] = new[i]
        /\ \A i \in (n + 1)..Len(path'[y]) : path'[y][i] = path[y][i - n + k]
    BY <2>2, MoveEffect DEF TreeInv
  <2>5. Len(path[g]) <= Len(path[y]) /\ \A i \in 1..Len(path[g]) : path[g][i] = path[y][i]
    BY <1>1, PrefixPoints
  <2>6. k <= Len(path[g]) /\ k \in Nat /\ n \in Nat /\ Len(path[g]) \in Nat /\ Len(path[y]) \in Nat
    BY <1>1, <2>1, PrefixPoints, LenProperties, NewPathPoints DEF TreeInv
  <2> HIDE DEF new, n, k
  <2> DEFINE lg == Len(path'[g])
             ly == Len(path'[y])
  <2>7. lg <= ly /\ lg \in Nat /\ ly \in Nat
    BY <2>3, <2>4, <2>5, <2>6
  <2>8. ASSUME NEW i \in 1..lg PROVE path'[g][i] = path'[y][i]
    <3>1. CASE i <= n
      BY <2>3, <2>4, <2>6, <3>1
    <3>2. CASE i > n
      <4>1. i \in (n + 1)..lg /\ i \in (n + 1)..ly
        BY <2>6, <2>7, <3>2
      <4>2. i - n + k \in 1..Len(path[g])
        BY <2>3, <2>6, <4>1
      <4>3. QED
        BY <2>3, <2>4, <2>5, <4>1, <4>2
    <3>3. QED
      BY <2>6, <3>1, <3>2
  <2>9. QED
    BY <1>1, <2>7, <2>8, PrefixPoints
<1>4. CASE ~Moves(f, g)
  <2>1. ~IsPrefix(path[g], path[f])
    BY DEF MoveFolder, ParentById, Visible
  <2>2. ~Moves(f, y)
    <3>1. ASSUME Moves(f, y) PROVE FALSE
      <4>1. Overlap(path[f], path[g])
        BY <1>1, <3>1, PrefixesCompare DEF Moves
      <4>2. QED
        BY <1>2, <1>4, <2>1, <4>1 DEF Overlap, Moves
    <3>2. QED
      BY <3>1
  <2>3. path'[g] = path[g] /\ path'[y] = path[y]
    BY <1>4, <2>2, MoveEffect DEF TreeInv
  <2>4. QED
    BY <2>3
<1>5. QED
  BY <1>3, <1>4

\* A tombstone is never moved itself: its parent stays the same.
LEMMA MoveParent ==
  ASSUME TreeInv, NEW f \in Folders, NEW dest \in Folders \cup {None}, MoveFolder(f, dest),
         NEW g \in Folders, node[g] = "deleted"
  PROVE  ParentId(path'[g]) = ParentId(path[g])
<1> DEFINE new == NewPath(f, dest)
           n == Len(new)
           k == Len(path[f])
           c == Len(path[g])
           l == Len(path'[g])
<1>1. CASE Moves(f, g)
  <2>1. Exists(f) /\ Exists(g) /\ IsPrefix(path[f], path[g]) /\ node[f] = "live"
    BY <1>1 DEF MoveFolder, ParentById, Visible, Exists, Moves
  <2>2. /\ path[f] \in Seq(Folders) /\ path[g] \in Seq(Folders)
        /\ k \in Nat /\ c \in Nat /\ k >= 1
        /\ path[f][k] = f /\ path[g][c] = g
    BY <2>1, PathEnds
  <2>3. k <= c /\ \A j \in 1..k : path[f][j] = path[g][j]
    BY <2>1, <2>2, PrefixPoints
  <2>4. new[n] = f
    BY NewPathPoints DEF TreeInv
  <2>5. n \in Nat /\ n >= 1
    <3>1. n = IF dest = None THEN 1 ELSE Len(path[dest]) + 1
      BY NewPathPoints DEF TreeInv
    <3>2. dest # None => Len(path[dest]) \in Nat
      BY LenProperties DEF TreeInv, PathTypes
    <3>3. QED
      BY <3>1, <3>2
  <2>6. /\ l = n + (c - k)
        /\ \A j \in 1..n : path'[g][j] = new[j]
        /\ \A j \in (n + 1)..l : path'[g][j] = path[g][j - n + k]
    BY <1>1, MoveEffect DEF TreeInv
  <2>7. ParentId(path[g]) = IF c = 1 THEN None ELSE path[g][c - 1]
    BY DEF ParentId
  <2>8. ParentId(path'[g]) = IF l = 1 THEN None ELSE path'[g][l - 1]
    BY DEF ParentId
  <2> HIDE DEF new, n, k, c, l
  <2>9. k < c
    <3>1. ASSUME k = c PROVE FALSE
      <4>1. f = g
        BY <2>2, <2>3, <3>1
      <4>2. QED
        BY <2>1, <4>1
    <3>2. QED
      BY <2>2, <2>3, <3>1
  <2>10. c # 1 /\ l # 1 /\ l \in Nat
    BY <2>2, <2>5, <2>6, <2>9
  <2>11. path'[g][l - 1] = path[g][c - 1]
    <3>1. CASE c = k + 1
      <4>1. l - 1 = n /\ c - 1 = k
        BY <2>2, <2>5, <2>6, <3>1
      <4>2. path'[g][n] = f /\ path[g][k] = f
        BY <2>2, <2>3, <2>4, <2>5, <2>6
      <4>3. QED
        BY <4>1, <4>2
    <3>2. CASE c > k + 1
      <4>1. l - 1 >= n + 1 /\ l - 1 <= l /\ l - 1 \in Int
        BY <2>2, <2>5, <2>6, <2>10, <3>2
      <4>2. (l - 1) - n + k = c - 1
        BY <2>2, <2>5, <2>6
      <4>3. l - 1 \in (n + 1)..l
        BY <2>5, <2>10, <4>1
      <4>4. QED
        BY <2>6, <4>2, <4>3
    <3>3. QED
      BY <2>2, <2>9, <3>1, <3>2
  <2>12. QED
    BY <2>7, <2>8, <2>10, <2>11
<1>2. CASE ~Moves(f, g)
  BY <1>2, MoveEffect DEF TreeInv
<1>3. QED
  BY <1>1, <1>2

\* Moving a folder keeps what is known of the bin: what is being deleted is
\* fenced, and whatever lies below a tombstone moves with it or not at all.
LEMMA MoveBin ==
  ASSUME IInv, TreeInv, BinInv,
         NEW f \in Folders, NEW dest \in Folders \cup {None}, MoveFolder(f, dest)
  PROVE  BinInv'
<1>1. node' = node /\ member' = member /\ state' = state /\ root' = root /\ rootPath' = rootPath
      /\ place' = place
  BY DEF MoveFolder, unitVars
<1>2. \A v \in Units : Tombstones(v)' = Tombstones(v)
  BY <1>1 DEF Tombstones
<1>3. BinEntryExact' /\ UnusedEmpty' /\ RootsKnown'
  BY <1>1, <1>2 DEF BinInv, BinEntryExact, UnusedEmpty, RootsKnown
<1>4. DeletingApart'
  BY <1>1 DEF BinInv, DeletingApart, Overlap
<1>5. DeletingHome'
  <2>1. ASSUME NEW u \in Units, state[u] = "deleting"
        PROVE  path'[root[u]] = path[root[u]]
    <3>1. root[u] \in Folders /\ rootPath[u] = path[root[u]]
      BY <2>1 DEF BinInv, DeletingHome
    <3>2. ~Overlap(rootPath[u], path[f])
      BY <2>1, DeletingFences DEF MoveFolder
    <3>3. ~Moves(f, root[u])
      BY <3>1, <3>2 DEF Moves, Overlap
    <3>4. QED
      BY <3>1, <3>3, MoveEffect DEF TreeInv
  <2>2. QED
    BY <1>1, <2>1 DEF BinInv, DeletingHome
<1>6. MembersBelow'
  <2>1. ASSUME NEW v \in Units, root[v] \in Tombstones(v), NEW x \in Tombstones(v)
        PROVE  IF root[v] \in Items THEN x = root[v] ELSE IsPrefix(path'[root[v]], PathOf(x)')
    <3>1. CASE root[v] \in Items
      BY <2>1, <3>1 DEF BinInv, MembersBelow
    <3>2. CASE root[v] \notin Items
      <4>1. root[v] \in Folders /\ node[root[v]] = "deleted" /\ x \in Nodes /\ Exists(x)
        BY <2>1, <3>2 DEF Tombstones, Nodes, Exists
      <4>2. Home(x) \in Folders /\ Exists(Home(x)) /\ PathOf(x) = path[Home(x)]
        BY <4>1, HomePath
      <4>3. PathOf(x)' = path'[Home(x)]
        BY <1>1 DEF PathOf, Home
      <4>4. IsPrefix(path[root[v]], path[Home(x)])
        BY <2>1, <3>2, <4>2 DEF BinInv, MembersBelow, Under
      <4>5. QED
        BY <3>2, <4>1, <4>2, <4>3, <4>4, MoveBelow
    <3>3. QED
      BY <3>1, <3>2
  <2>2. QED
    BY <1>1, <1>2, <2>1 DEF MembersBelow, Under
<1>7. SameParent'
  <2>1. ASSUME NEW u \in Units, root[u] \in Folders, root[u] \in Tombstones(u)
        PROVE  ParentId(path'[root[u]]) = ParentId(path[root[u]])
    BY <2>1, MoveParent DEF Tombstones
  <2>2. ASSUME NEW u \in Units, root'[u] \in Folders, root'[u] \in Tombstones(u)'
        PROVE  /\ rootPath'[u] # <<>>
               /\ rootPath'[u][Len(rootPath'[u])] = root'[u]
               /\ ParentId(rootPath'[u]) = ParentId(path'[root'[u]])
    BY <1>1, <1>2, <2>1, <2>2 DEF BinInv, SameParent
  <2>3. QED
    BY <2>2 DEF SameParent, ParentId
<1>8. ItemHome'
  BY <1>1, <1>2 DEF BinInv, ItemHome, Last
<1>9. QED
  BY <1>3, <1>4, <1>5, <1>6, <1>7, <1>8 DEF BinInv

\* Steps that touch no row.
LEMMA StateQuiet ==
  ASSUME BinInv, UNCHANGED <<treeVars, root, rootPath>>,
         \A u \in Units :
            /\ state[u] = "none" <=> state'[u] = "none"
            /\ state'[u] = "deleting" => state[u] = "deleting"
            /\ state'[u] = "deleted" => state[u] \in {"deleting", "deleted"}
  PROVE  BinQuiet
<1>1. node' = node /\ path' = path /\ place' = place /\ member' = member
  BY DEF treeVars
<1>2. \A u \in Units : Tombstones(u)' = Tombstones(u)
  BY <1>1 DEF Tombstones
<1>3. \A u \in Units : state[u] \in {"deleting", "deleted"} /\ root[u] \in Folders
                       => root[u] \in Tombstones(u)'
  BY <1>2 DEF BinInv, BinEntryExact
<1>4. \A n \in Nodes : PathOf(n)' = PathOf(n) /\ Home(n)' = Home(n)
  BY <1>1 DEF PathOf, Home
<1>5. QED
  BY <1>1, <1>2, <1>3, <1>4 DEF BinQuiet

\* Rows leave a unit that is neither being deleted nor waiting in the bin any more.
LEMMA TakenQuiet ==
  ASSUME BinInv, NEW u \in Units, NEW S, S \subseteq Tombstones(u),
         UNCHANGED <<path, place, root, rootPath>>,
         state[u] # "none", state'[u] \notin {"none", "deleting", "deleted"},
         \A v \in Units \ {u} : state'[v] = state[v],
         \A n \in Nodes \ S : node'[n] = node[n] /\ member'[n] = member[n],
         \A n \in S : node'[n] # "deleted" /\ member'[n] \in {None, member[n]}
  PROVE  BinQuiet
<1>1. \A v \in Units : Tombstones(v)' \subseteq Tombstones(v)
  BY DEF Tombstones
<1>2. \A v \in Units \ {u} : Tombstones(v) \subseteq Tombstones(v)'
  BY DEF Tombstones
<1>3. \A v \in Units \ {u} : state[v] \in {"deleting", "deleted"} /\ root[v] \in Folders
                           => root[v] \in Tombstones(v)'
  BY <1>2 DEF BinInv, BinEntryExact
<1>4. \A n \in Nodes : member'[n] # None => member'[n] = member[n]
  OBVIOUS
<1>5. \A n \in Nodes : PathOf(n)' = PathOf(n) /\ Home(n)' = Home(n)
  BY DEF PathOf, Home
<1>6. QED
  BY <1>1, <1>3, <1>4, <1>5 DEF BinQuiet

\* What is absent is no tombstone's home: it may get a path or a state.
LEMMA FreshQuiet ==
  ASSUME IInv, TreeInv, BinInv, NEW x \in Nodes, node[x] = "absent",
         NEW s \in {"absent", "inserted", "live"}, node' = [node EXCEPT ![x] = s],
         \A g \in Folders \ {x} : path'[g] = path[g],
         UNCHANGED <<place, member, unitVars>>
  PROVE  BinQuiet
<1>1. /\ node'[x] = s /\ \A n \in Nodes \ {x} : node'[n] = node[n]
      /\ member' = member /\ state' = state /\ root' = root /\ rootPath' = rootPath
  BY DEF IInv, Types, RowTypes, unitVars
<1>2. \A u \in Units : Tombstones(u)' = Tombstones(u)
  BY <1>1 DEF Tombstones
<1>3. ASSUME NEW n \in Nodes, node[n] = "deleted"
      PROVE  PathOf(n)' = PathOf(n) /\ Home(n)' = Home(n)
  <2>1. Home(n)' = Home(n) /\ Home(n) \in Folders /\ Exists(Home(n))
    BY <1>3, HomePath DEF Home, Exists
  <2>2. path'[Home(n)] = path[Home(n)]
    BY <2>1 DEF Exists
  <2>3. QED
    BY <2>1, <2>2 DEF PathOf, Home
<1>4. \A u \in Units : state[u] \in {"deleting", "deleted"} /\ root[u] \in Folders
                       => root[u] \in Tombstones(u)
  BY DEF BinInv, BinEntryExact
<1>5. QED
  BY <1>1, <1>2, <1>3, <1>4 DEF BinQuiet

\* A row leaves the bin, and the entry it is the root of is closed.
LEMMA ClosedQuiet ==
  ASSUME BinInv, NEW n \in Nodes, CloseEntry(n), UNCHANGED <<path, place, root, rootPath>>,
         node'[n] # "deleted", member'[n] = None,
         \A x \in Nodes \ {n} : node'[x] = node[x] /\ member'[x] = member[x],
         \A u \in Units : state[u] = "deleting" => root[u] # n
  PROVE  BinQuiet
<1>1. \A u \in Units : state'[u] = IF root[u] = n /\ state[u] = "deleted"
                                   THEN "restored" ELSE state[u]
  BY DEF CloseEntry
<1>2. \A u \in Units : Tombstones(u)' = Tombstones(u) \ {n}
  BY DEF Tombstones
<1>3. ASSUME NEW u \in Units, state'[u] \in {"deleting", "deleted"}
      PROVE  /\ state[u] \in {"deleting", "deleted"}
             /\ root[u] \in Folders => root[u] \in Tombstones(u)'
  <2>1. state[u] = state'[u] /\ root[u] # n
    BY <1>1, <1>3
  <2>2. root[u] \in Folders => root[u] \in Tombstones(u)
    BY <1>3, <2>1 DEF BinInv, BinEntryExact
  <2>3. QED
    BY <1>2, <1>3, <2>1, <2>2
<1>4. \A u \in Units : /\ state[u] = "none" <=> state'[u] = "none"
                       /\ state'[u] = "deleting" => state[u] = "deleting"
  BY <1>1
<1>5. \A x \in Nodes : /\ member'[x] # None => member'[x] = member[x]
                       /\ PathOf(x)' = PathOf(x) /\ Home(x)' = Home(x)
  BY DEF PathOf, Home
<1>6. QED
  BY <1>2, <1>3, <1>4, <1>5 DEF BinQuiet

\* Catalogue operations keep what is known of the bin.
LEMMA CatalogueBin ==
  ASSUME IInv, TreeInv, BinInv, Catalogue
  PROVE  BinInv'
<1>1. ASSUME NEW m \in Items, CreateItem(m)
      PROVE  BinInv'
  BY <1>1, FreshQuiet, QuietBin DEF CreateItem, Nodes
<1>2. ASSUME NEW f \in Folders, NEW dest \in Folders \cup {None}, CreateFolder(f, dest)
      PROVE  BinInv'
  <2>1. \A g \in Folders \ {f} : path'[g] = path[g]
    BY <1>2 DEF CreateFolder, TreeInv, PathTypes
  <2>2. QED
    BY <1>2, <2>1, FreshQuiet, QuietBin DEF CreateFolder, Nodes
<1>3. ASSUME NEW f \in Folders, NEW dest \in Folders \cup {None}, MoveFolder(f, dest)
      PROVE  BinInv'
  BY <1>3, MoveBin
<1>4. ASSUME NEW u \in Units, NEW n \in Nodes, Delete(u, n)
      PROVE  BinInv'
  BY <1>4, OpenBin DEF Delete
<1>5. ASSUME NEW n \in Nodes, RestoreNode(n)
      PROVE  BinInv'
  <2>1. /\ path' = path /\ place' = place /\ root' = root /\ rootPath' = rootPath
        /\ node'[n] = "live" /\ member'[n] = None /\ CloseEntry(n)
        /\ \A x \in Nodes \ {n} : node'[x] = node[x] /\ member'[x] = member[x]
    BY <1>5 DEF RestoreNode, IInv, Types, RowTypes
  <2>2. ASSUME NEW u \in Units, state[u] = "deleting"
        PROVE  root[u] # n
    <3>1. root[u] \in Folders /\ rootPath[u] = path[root[u]] /\ path[root[u]] \in Seq(Folders)
      BY <2>2 DEF BinInv, DeletingHome, TreeInv, PathTypes
    <3>2. PathOf(root[u]) = path[root[u]]
      BY <3>1, TreeAssumption DEF PathOf
    <3>3. Overlap(rootPath[u], PathOf(root[u]))
      BY <3>1, <3>2, PrefixOfItself DEF Overlap
    <3>4. Fenced(PathOf(root[u]))
      BY <2>2, <3>3, DeletingFences
    <3>5. QED
      BY <1>5, <3>4 DEF RestoreNode
  <2>3. BinQuiet
    BY <2>1, <2>2, ClosedQuiet
  <2>4. QED
    BY <2>3, QuietBin
<1>6. QED
  BY <1>1, <1>2, <1>3, <1>4, <1>5 DEF Catalogue

\* The import keeps what is known of the bin: no folder leaves it on its account.
LEMMA ImportBin ==
  ASSUME IInv, ImportInv, TreeInv, BinInv, Importing
  PROVE  BinInv'
<1> USE DEF IInv, Types, RowTypes
<1>0. PICK i \in Imports :
         \/ \E f \in Folders : ImportFolder(i, f) \/ ImportNewFolder(i, f)
         \/ \E m \in Items : ImportItem(i, m)
         \/ ImportWrite(i)
         \/ ImportCommit(i)
         \/ ImportAbort(i)
  BY DEF Importing
<1> DEFINE r == import[i]
<1>1. /\ r \in ImportRecords
      /\ r.written => r.item \in Items
      /\ \A n \in Inserted(i) : n \in Nodes /\ node[n] = "inserted"
  BY DEF ImportInv, ImportTypes, ImportRecords, ImportsInOrder, OwnRows, Inserted, Nodes
<1>2. ASSUME UNCHANGED <<treeVars, unitVars>>
      PROVE  BinInv'
  BY <1>2, StateQuiet, QuietBin DEF unitVars
<1>3. ASSUME NEW f \in Folders, ImportNewFolder(i, f)
      PROVE  BinInv'
  <2>1. \A g \in Folders \ {f} : path'[g] = path[g]
    BY <1>3 DEF ImportNewFolder, TreeInv, PathTypes
  <2>2. QED
    BY <1>3, <2>1, FreshQuiet, QuietBin DEF ImportNewFolder, Nodes
<1>4. CASE ImportWrite(i)
  <2>1. CASE r.was = "absent"
    <3>1. /\ r.item \in Nodes /\ node[r.item] = "absent"
          /\ node' = [node EXCEPT ![r.item] = "inserted"]
          /\ \A g \in Folders : path'[g] = path[g]
          /\ UNCHANGED <<place, member, unitVars>>
      BY <1>1, <1>4, <2>1 DEF ImportWrite, ImportRecords, Nodes
    <3> HIDE DEF r
    <3>2. QED
      BY <3>1, FreshQuiet, QuietBin
  <2>2. CASE r.was # "absent"
    <3>1. UNCHANGED <<treeVars, unitVars>>
      BY <1>4, <2>2 DEF ImportWrite, treeVars
    <3>2. QED
      BY <1>2, <3>1
  <2>3. QED
    BY <2>1, <2>2
<1>5. CASE ImportCommit(i)
  <2> DEFINE W == IF r.written THEN {r.item} ELSE {}
             S == r.made \cup W
  <2>1. /\ node' = SetNodes(S, "live")
        /\ place' = [m \in Items |-> IF m \in W THEN Target(i) ELSE place[m]]
        /\ member' = IF r.was = "deleted" THEN SetMembers(W, None) ELSE member
        /\ IF r.was = "deleted" THEN CloseEntry(r.item) ELSE UNCHANGED state
        /\ UNCHANGED <<path, root, rootPath>>
    BY <1>5 DEF ImportCommit
  <2>2. /\ S \in SUBSET Nodes
        /\ \A x \in S : node'[x] = "live" /\ member'[x] \in {None, member[x]}
        /\ \A x \in Nodes \ S : node'[x] = node[x] /\ member'[x] = member[x]
    <3>1. S \in SUBSET Nodes
      BY <1>1 DEF ImportRecords, Nodes
    <3>2. /\ \A x \in Nodes \ W : member'[x] = member[x]
          /\ \A x \in W : x \in Nodes => member'[x] \in {None, member[x]}
      BY <2>1 DEF SetMembers
    <3> HIDE DEF S, W
    <3>3. \A x \in S : x \in W \/ x \in r.made
      BY DEF S
    <3>4. W \subseteq S
      BY DEF S
    <3>5. QED
      BY <2>1, <3>1, <3>2, <3>3, <3>4 DEF SetNodes
  <2>3. \A x \in Nodes \ S : PathOf(x)' = PathOf(x) /\ Home(x)' = Home(x)
    BY <2>1 DEF PathOf, Home
  <2>4. \A f \in Folders : f \in S => node[f] # "deleted"
    BY <1>1, TreeAssumption DEF Inserted, Nodes
  <2>5. \A u \in Units : state[u] \in {"deleting", "deleted"} /\ root[u] \in Folders
                         => root[u] \in Tombstones(u) /\ root[u] \notin S
    BY <2>4 DEF BinInv, BinEntryExact, Tombstones
  <2>6. \A u \in Units : Tombstones(u)' = Tombstones(u) \ S
    BY <2>2 DEF Tombstones
  <2>7. \A u \in Units : \/ state'[u] = state[u]
                         \/ state[u] = "deleted" /\ state'[u] = "restored"
    BY <2>1 DEF CloseEntry, JobTypes
  <2> HIDE DEF S
  <2>8. \A n \in Nodes : /\ member'[n] # None => member'[n] = member[n]
                         /\ node[n] = "deleted" /\ node'[n] = "deleted"
                            => PathOf(n)' = PathOf(n) /\ Home(n)' = Home(n)
    BY <2>2, <2>3
  <2>9. BinQuiet
    BY <2>1, <2>5, <2>6, <2>7, <2>8 DEF BinQuiet
  <2>10. QED
    BY <2>9, QuietBin
<1>6. CASE ImportAbort(i)
  <2> DEFINE S == r.made \cup (IF r.written /\ r.was = "absent" THEN {r.item} ELSE {})
  <2>1. /\ node' = SetNodes(S, "absent")
        /\ UNCHANGED <<path, place, member, unitVars>>
    BY <1>6 DEF ImportAbort
  <2>2. \A n \in S : node[n] = "inserted"
    BY <1>1 DEF Inserted
  <2> HIDE DEF S
  <2>3. \A u \in Units : Tombstones(u)' = Tombstones(u)
    BY <2>1, <2>2 DEF Tombstones, SetNodes
  <2>4. \A n \in Nodes : PathOf(n)' = PathOf(n) /\ Home(n)' = Home(n)
    BY <2>1 DEF PathOf, Home
  <2>5. \A u \in Units : state[u] \in {"deleting", "deleted"} /\ root[u] \in Folders
                         => root[u] \in Tombstones(u)
    BY DEF BinInv, BinEntryExact
  <2>6. BinQuiet
    BY <2>1, <2>3, <2>4, <2>5 DEF BinQuiet, unitVars
  <2>7. QED
    BY <2>6, QuietBin
<1>7. QED
  BY <1>0, <1>2, <1>3, <1>4, <1>5, <1>6 DEF ImportFolder, ImportItem

\* Requests about jobs keep what is known of the bin.
LEMMA RequestBin ==
  ASSUME IInv, TreeInv, BinInv, Requests
  PROVE  BinInv'
<1> USE DEF IInv, Types, RowTypes, JobTypes
<1>1. ASSUME NEW u \in Units, NEW f \in Folders, Confirm(u, f)
      PROVE  BinInv'
  BY <1>1, OpenBin DEF Confirm, CloseGate, Nodes
<1>2. ASSUME NEW u \in Units, Cancel(u)
      PROVE  BinInv'
  <2>1. {root[u]} \cap Nodes \subseteq Tombstones(u)
    BY <1>2 DEF Cancel, Tombstones
  <2>2. /\ state[u] # "none" /\ state'[u] = "restored"
        /\ \A v \in Units \ {u} : state'[v] = state[v]
        /\ \A n \in Nodes \ ({root[u]} \cap Nodes) : node'[n] = node[n] /\ member'[n] = member[n]
        /\ \A n \in {root[u]} \cap Nodes : node'[n] = "live" /\ member'[n] = None
        /\ UNCHANGED <<path, place, root, rootPath>>
    BY <1>2 DEF Cancel
  <2>3. QED
    BY <2>1, <2>2, TakenQuiet, QuietBin
<1>3. ASSUME NEW u \in Units, Retry(u) \/ QueueRestore(u) \/ QueuePurge(u)
      PROVE  BinInv'
  <2>1. \A v \in Units :
           \/ state'[v] = state[v]
           \/ state[v] # "none" /\ state'[v] \in {"restore_queued", "purge_queued"}
    <3>1. CASE Retry(u)
      BY <3>1 DEF Retry, unitVars
    <3>2. ASSUME NEW s \in {"restore_queued", "purge_queued"},
                 state[u] = "deleted", state' = [state EXCEPT ![u] = s]
          PROVE  \A v \in Units : state'[v] = state[v] \/ (state[v] # "none" /\ state'[v] = s)
      BY <3>2
    <3>3. CASE QueueRestore(u)
      <4>1. state[u] = "deleted" /\ state' = [state EXCEPT ![u] = "restore_queued"]
        BY <3>3 DEF QueueRestore
      <4>2. QED
        BY <3>2, <4>1
    <3>4. CASE QueuePurge(u)
      <4>1. state[u] = "deleted" /\ state' = [state EXCEPT ![u] = "purge_queued"]
        BY <3>4 DEF QueuePurge
      <4>2. QED
        BY <3>2, <4>1
    <3>5. QED
      BY <1>3, <3>1, <3>3, <3>4
  <2>2. UNCHANGED <<treeVars, root, rootPath>>
    BY <1>3 DEF Retry, QueueRestore, QueuePurge, unitVars
  <2>3. QED
    BY <2>1, <2>2, StateQuiet, QuietBin
<1>4. QED
  BY <1>1, <1>2, <1>3 DEF Requests

\* Claims, failures, crashes and time keep what is known of the bin.
LEMMA JobBin ==
  ASSUME IInv, BinInv,
         \/ \E w \in Workers, u \in Units :
               Claim(w, u) \/ ClaimExhausted(w, u) \/ Fail(w, u) \/ DeleteDone(w, u)
         \/ \E w \in Workers : Drop(w)
         \/ \E u \in Units : LeaseExpires(u) \/ BecomeDue(u)
         \/ UNCHANGED vars
  PROVE  BinInv'
<1> USE DEF IInv, Types, JobTypes
<1>1. ASSUME NEW w \in Workers, NEW u \in Units, Claim(w, u)
      PROVE  BinQuiet
  <2>1. Unfinished(u)
    BY <1>1 DEF Claim, Claimable, Unfinished
  <2>2. \A v \in Units :
           \/ state'[v] = state[v]
           \/ state[v] # "none" /\ state'[v] \in {"restoring", "purging"}
    <3>1. /\ state[u] # "none"
          /\ (Started(u) = state[u] \/ Started(u) \in {"restoring", "purging"})
      BY <2>1, UnfinishedAgrees DEF Started, Underway
    <3>2. state' = [state EXCEPT ![u] = Started(u)]
      BY <1>1 DEF Claim
    <3>3. QED
      BY <3>1, <3>2
  <2>3. QED
    BY <1>1, <2>2, StateQuiet DEF Claim
<1>2. ASSUME NEW w \in Workers, NEW u \in Units, ClaimExhausted(w, u) \/ Fail(w, u)
      PROVE  BinQuiet
  <2>1. \A v \in Units :
           \/ state'[v] = state[v]
           \/ state[v] # "none" /\ state'[v] \in {"failed", "restore_queued", "purge_queued"}
    BY <1>2 DEF ClaimExhausted, Fail, GiveUp, Requeued, Underway
  <2>2. UNCHANGED <<treeVars, root, rootPath>>
    BY <1>2 DEF ClaimExhausted, Fail, GiveUp
  <2>3. QED
    BY <2>1, <2>2, StateQuiet
<1>3. ASSUME NEW w \in Workers, NEW u \in Units, DeleteDone(w, u)
      PROVE  BinQuiet
  BY <1>3, StateQuiet DEF DeleteDone, CompleteDeletion
<1>4. ASSUME UNCHANGED <<treeVars, unitVars>>
      PROVE  BinQuiet
  BY <1>4, StateQuiet DEF unitVars
<1>5. BinQuiet
  BY <1>1, <1>2, <1>3, <1>4 DEF Drop, LeaseExpires, BecomeDue, vars
<1>6. QED
  BY <1>5, QuietBin

\* Batches of a worker keep what is known of the bin.
LEMMA WorkBin ==
  ASSUME IInv, TreeInv, BinInv, NEW w \in Workers, NEW u \in Units,
         \/ \E S \in SUBSET Items : DeleteItems(w, u, S) \/ RestoreItems(w, u, S)
         \/ \E S \in SUBSET Folders : DeleteFolders(w, u, S) \/ RestoreFolders(w, u, S)
         \/ RestoreRoot(w, u)
         \/ \E m \in Items : PurgePick(w, u, m)
         \/ PurgeItem(w, u)
         \/ \E f \in Folders : PurgeFolder(w, u, f)
         \/ PurgeFinish(w, u)
  PROVE  BinInv'
<1> USE DEF IInv, Types, RowTypes, JobTypes
<1>1. ASSUME NEW S \in SUBSET Nodes, DeleteItems(w, u, S) \/ DeleteFolders(w, u, S)
      PROVE  BinInv'
  <2>1. Holds(w, u, "delete")
    BY <1>1 DEF DeleteItems, DeleteFolders
  <2>2. state[u] = "deleting"
    BY <2>1, UnfinishedAgrees DEF Holds, Unfinished
  <2>3. /\ \A n \in S : node[n] = "live" /\ Under(n, rootPath[u])
        /\ node' = SetNodes(S, "deleted") /\ member' = SetMembers(S, u)
        /\ UNCHANGED <<path, place, unitVars>>
    BY <1>1 DEF DeleteItems, DeleteFolders, LiveItems, LiveFolders, Unlocked
  <2>4. QED
    BY <2>2, <2>3, BatchBin
<1>2. ASSUME NEW S \in SUBSET Nodes, RestoreItems(w, u, S) \/ RestoreFolders(w, u, S)
      PROVE  BinInv'
  <2>1. /\ S \subseteq Tombstones(u) /\ state[u] = "restoring"
        /\ node' = SetNodes(S, "live") /\ member' = SetMembers(S, None)
        /\ UNCHANGED <<path, place, unitVars>>
    BY <1>2 DEF RestoreItems, RestoreFolders, Restoring, MemberItems, MemberFolders, Unlocked
  <2>2. /\ \A n \in Nodes \ S : node'[n] = node[n] /\ member'[n] = member[n]
        /\ \A n \in S : node'[n] = "live" /\ member'[n] = None
    BY <2>1 DEF SetNodes, SetMembers
  <2>3. QED
    BY <2>1, <2>2, TakenQuiet, QuietBin DEF unitVars
<1>3. CASE RestoreRoot(w, u)
  <2>1. {root[u]} \cap Nodes \subseteq Tombstones(u)
    BY <1>3 DEF RestoreRoot, Restoring, Restorable, Tombstones
  <2>2. /\ state[u] # "none" /\ state'[u] = "restored"
        /\ \A v \in Units \ {u} : state'[v] = state[v]
        /\ \A n \in Nodes \ ({root[u]} \cap Nodes) : node'[n] = node[n] /\ member'[n] = member[n]
        /\ \A n \in {root[u]} \cap Nodes : node'[n] = "live" /\ member'[n] = None
        /\ UNCHANGED <<path, place, root, rootPath>>
    BY <1>3 DEF RestoreRoot, Restoring
  <2>3. QED
    BY <2>1, <2>2, TakenQuiet, QuietBin
<1>4. ASSUME NEW x, x \in Tombstones(u), Purging(w, u),
             node' = [node EXCEPT ![x] = "gone"],
             UNCHANGED <<path, place, member, unitVars>>
      PROVE  BinInv'
  <2> DEFINE S == {x}
  <2>1. /\ S \subseteq Tombstones(u)
        /\ state[u] = "purging" /\ state'[u] = "purging"
        /\ \A v \in Units \ {u} : state'[v] = state[v]
        /\ \A n \in Nodes \ S : node'[n] = node[n] /\ member'[n] = member[n]
        /\ \A n \in S : node'[n] = "gone" /\ member'[n] = member[n]
        /\ UNCHANGED <<path, place, root, rootPath>>
    BY <1>4 DEF Purging, unitVars, Tombstones
  <2> HIDE DEF S
  <2>2. BinQuiet
    BY <2>1, TakenQuiet
  <2>3. QED
    BY <2>2, QuietBin
<1>5. CASE PurgeItem(w, u)
  <2>1. CASE worker[w].item \in Tombstones(u)
    <3>1. /\ Purging(w, u)
          /\ node' = [node EXCEPT ![worker[w].item] = "gone"]
          /\ UNCHANGED <<path, place, member, unitVars>>
      BY <1>5, <2>1 DEF PurgeItem
    <3>2. QED
      BY <1>4, <2>1, <3>1
  <2>2. CASE worker[w].item \notin Tombstones(u)
    <3>1. UNCHANGED <<treeVars, unitVars>>
      BY <1>5, <2>2 DEF PurgeItem, treeVars
    <3>2. QED
      BY <3>1, StateQuiet, QuietBin DEF unitVars
  <2>3. QED
    BY <2>1, <2>2
<1>6. ASSUME NEW f \in Folders, PurgeFolder(w, u, f)
      PROVE  BinInv'
  BY <1>4, <1>6 DEF PurgeFolder, PurgeLeaves, Unlocked
<1>7. ASSUME NEW m \in Items, PurgePick(w, u, m)
      PROVE  BinInv'
  BY <1>7, StateQuiet, QuietBin DEF PurgePick, unitVars
<1>8. CASE PurgeFinish(w, u)
  <2>1. \A v \in Units : state'[v] = state[v] \/ (state[v] = "purging" /\ state'[v] = "purged")
    <3>1. state[u] = "purging" /\ state' = [state EXCEPT ![u] = "purged"]
      BY <1>8 DEF PurgeFinish, Purging
    <3>2. QED
      BY <3>1
  <2>2. QED
    BY <1>8, <2>1, StateQuiet, QuietBin DEF PurgeFinish
<1>9. QED
  BY <1>1, <1>2, <1>3, <1>5, <1>6, <1>7, <1>8 DEF Nodes

\* Everything the theorems about the tree rest on.
FullInv == IInv /\ ImportInv /\ TreeInv /\ BinInv

\* The catalogue starts with nothing in the bin.
LEMMA InitFull == Init => FullInv
<1> SUFFICES ASSUME Init PROVE FullInv
  OBVIOUS
<1>1. IInv /\ ImportInv /\ TreeInv
  BY InitIInv, InitImportInv, InitTree
<1>2. BinInv
  BY TreeAssumption DEF Init, BinInv, BinEntryExact, DeletingHome, DeletingApart, UnusedEmpty,
         RootsKnown, MembersBelow, SameParent, ItemHome, Tombstones
<1>3. QED
  BY <1>1, <1>2 DEF FullInv

\* Every step keeps it.
LEMMA NextFull == FullInv /\ [Next]_vars => FullInv'
<1> SUFFICES ASSUME FullInv, [Next]_vars PROVE FullInv'
  OBVIOUS
<1>1. IInv /\ ImportInv /\ TreeInv /\ BinInv
  BY DEF FullInv
<1>2. IInv' /\ ImportInv'
  BY <1>1, NextIInv, ImportInvStep
<1>3. ASSUME NEW w \in Workers, NEW u \in Units, Batch(w, u)
      PROVE  TreeInv' /\ BinInv'
  <2>1. CASE \E S \in SUBSET Items : DeleteItems(w, u, S) \/ RestoreItems(w, u, S)
    BY <1>1, <2>1, BatchTree, WorkBin DEF Nodes
  <2>2. CASE \E S \in SUBSET Folders : DeleteFolders(w, u, S) \/ RestoreFolders(w, u, S)
    BY <1>1, <2>2, BatchTree, WorkBin DEF Nodes
  <2>3. CASE RestoreRoot(w, u)
    BY <1>1, <2>3, BatchTree, WorkBin
  <2>4. CASE \/ \E m \in Items : PurgePick(w, u, m)
             \/ PurgeItem(w, u)
             \/ \E f \in Folders : PurgeFolder(w, u, f)
             \/ PurgeFinish(w, u)
    BY <1>1, <2>4, PurgeTree, WorkBin
  <2>5. CASE DeleteDone(w, u) \/ Fail(w, u)
    <3>1. UNCHANGED <<treeVars, rootPath, import>>
      BY <2>5 DEF DeleteDone, CompleteDeletion, Fail
    <3>2. TreeInv'
      BY <1>1, <3>1, SameNodes
    <3>3. QED
      BY <1>1, <2>5, <3>2, JobBin
  <2>6. QED
    BY <1>3, <2>1, <2>2, <2>3, <2>4, <2>5 DEF Batch
<1>4. ASSUME \/ \E w \in Workers, u \in Units : Claim(w, u) \/ ClaimExhausted(w, u)
             \/ \E w \in Workers : Drop(w)
             \/ \E u \in Units : LeaseExpires(u) \/ BecomeDue(u)
             \/ UNCHANGED vars
      PROVE  TreeInv' /\ BinInv'
  <2>1. UNCHANGED <<treeVars, rootPath, import>>
    BY <1>4 DEF Claim, ClaimExhausted, GiveUp, Drop, LeaseExpires, BecomeDue, vars, unitVars
  <2>2. TreeInv'
    BY <1>1, <2>1, SameNodes
  <2>3. QED
    BY <1>1, <1>4, <2>2, JobBin
<1>5. CASE Catalogue
  BY <1>1, <1>2, <1>5, CatalogueTree, CatalogueBin DEF FullInv
<1>6. CASE Requests
  BY <1>1, <1>2, <1>6, RequestTree, RequestBin DEF FullInv
<1>7. CASE Importing
  BY <1>1, <1>2, <1>7, ImportTree, ImportBin DEF FullInv
<1>8. QED
  BY <1>2, <1>3, <1>4, <1>5, <1>6, <1>7 DEF Next, FullInv

\* What is known of the tree and the bin holds in every reachable state.
LEMMA FullInvariant == Spec => []FullInv
BY InitFull, NextFull, PTL DEF Spec

\* Every variable keeps its type; paths stay sequences of folders through moves
\* of live and deleted subtrees (MoveFolder).
THEOREM TypesKept == Spec => []TypeOK
<1>1. FullInv => TypeOK
  BY DEF FullInv, IInv, Types, RowTypes, JobTypes, WorkerTypes, TreeInv, PathTypes, ImportInv, ImportTypes,
         ImportRecords, TypeOK, JobRecords, LegacyStates
<1>2. QED
  BY <1>1, FullInvariant, PTL

\* The folder a deletion started from stays that unit's tombstone while the unit
\* is being deleted or in the bin, for every tree and whatever is moved, restored,
\* cancelled, deleted again, purged or imported meanwhile
\* (ensureNoActiveDeletionForPaths, completeLifecycleRestore).
THEOREM BinRootsStay == Spec => []BinEntryExact
<1>1. FullInv => BinEntryExact
  BY DEF FullInv, BinInv
<1>2. QED
  BY <1>1, FullInvariant, PTL

-----------------------------------------------------------------------------
(* The fence *)

\* The root of a running deletion.
LEMMA DeletingRoot ==
  ASSUME FullInv, NEW u \in Units, state[u] = "deleting"
  PROVE  /\ root[u] \in Folders /\ node[root[u]] = "deleted" /\ member[root[u]] = u
         /\ Exists(root[u])
         /\ rootPath[u] = path[root[u]]
         /\ rootPath[u] \in Seq(Folders)
         /\ Len(rootPath[u]) \in Nat /\ Len(rootPath[u]) >= 1
<1>1. root[u] \in Folders /\ rootPath[u] = path[root[u]] /\ root[u] \in Tombstones(u)
  BY DEF FullInv, BinInv, DeletingHome, BinEntryExact
<1>2. node[root[u]] = "deleted" /\ member[root[u]] = u /\ Exists(root[u])
  BY <1>1 DEF Tombstones, Exists
<1>3. QED
  BY <1>1, <1>2, PathEnds DEF FullInv

\* What is above a folder in place.
LEMMA AboveInPlace ==
  ASSUME TreeInv, NEW f \in Folders, InPlace(f), NEW i \in 1..Len(path[f]),
         Exists(path[f][i])
  PROVE  Len(path[path[f][i]]) = i /\ IsPrefix(path[path[f][i]], path[f])
<1> DEFINE s == path[f]
           t == SubSeq(s, 1, i)
<1>1. s \in Seq(Folders) /\ Len(s) \in Nat /\ i \in 1..Len(s)
  BY PathEnds
<1>2. path[s[i]] = t
  BY DEF InPlace
<1> HIDE DEF s
<1>3. i \in Nat /\ i >= 1 /\ i <= Len(s) /\ \A j \in 1..i : s[j] \in Folders
  BY <1>1, ElementOfSeq
<1>4. /\ t \in Seq(Folders)
      /\ Len(t) = IF 1 <= i THEN i - 1 + 1 ELSE 0
      /\ \A j \in 1..(i - 1 + 1) : t[j] = s[1 + j - 1]
  BY <1>3, SubSeqProperties
<1> HIDE DEF t
<1>5. Len(t) = i /\ \A j \in 1..i : t[j] = s[j]
  BY <1>3, <1>4
<1>6. IsPrefix(t, s)
  BY <1>1, <1>3, <1>4, <1>5, PrefixPoints
<1>7. QED
  BY <1>2, <1>5, <1>6 DEF s

\* Nothing is moved into or out of what is being deleted.
LEMMA FencedMove ==
  ASSUME FullInv, NEW u \in Units, state[u] = "deleting", InPlace(root[u]),
         NEW f \in Folders, NEW dest \in Folders \cup {None}, MoveFolder(f, dest),
         NEW y \in Folders
  PROVE  IsPrefix(rootPath[u], path'[y]) <=> IsPrefix(rootPath[u], path[y])
<1> DEFINE r == rootPath[u]
           new == NewPath(f, dest)
<1>1. /\ r \in Seq(Folders) /\ r = path[root[u]] /\ Len(r) \in Nat /\ Len(r) >= 1
      /\ root[u] \in Folders /\ Exists(root[u])
      /\ path[f] \in Seq(Folders) /\ path[y] \in Seq(Folders) /\ path'[y] \in Seq(Folders)
      /\ TreeInv /\ IInv
  BY DeletingRoot, MovePaths DEF FullInv, TreeInv, PathTypes
<1>2. ~Overlap(r, path[f])
  BY <1>1, DeletingFences DEF MoveFolder
<1>3. CASE ~Moves(f, y)
  BY <1>1, <1>3, MoveEffect DEF TreeInv
<1>4. CASE Moves(f, y)
  <2>1. ~IsPrefix(r, path[y])
    BY <1>1, <1>2, <1>4, PrefixesCompare DEF Moves
  <2>2. ~IsPrefix(r, path'[y])
    <3> SUFFICES ASSUME IsPrefix(r, path'[y]) PROVE FALSE
      OBVIOUS
    <3>1. /\ Len(path'[y]) = Len(new) + (Len(path[y]) - Len(path[f]))
          /\ \A i \in 1..Len(new) : path'[y][i] = new[i]
      BY <1>1, <1>4, MoveEffect DEF TreeInv
    <3>2. Len(path[f]) <= Len(path[y]) /\ Len(path[f]) \in Nat /\ Len(path[y]) \in Nat
      BY <1>1, <1>4, PrefixPoints, LenProperties DEF Moves
    <3>3. CASE dest # None
      <4>1. /\ dest \in Folders /\ path[dest] \in Seq(Folders) /\ Len(path[dest]) \in Nat
            /\ ~Fenced(path[dest])
        BY <3>3, LenProperties DEF MoveFolder, FullInv, TreeInv, PathTypes
      <4>2. /\ Len(new) = Len(path[dest]) + 1
            /\ \A i \in 1..Len(path[dest]) : new[i] = path[dest][i]
        BY <1>1, <3>3, NewPathPoints DEF TreeInv
      <4> DEFINE s == path[dest]
                 q == path'[y]
                 n == Len(new)
                 c == Len(path[y])
                 k == Len(path[f])
                 l == Len(s)
                 t == Len(q)
      <4>3. /\ t = n + (c - k) /\ k <= c /\ k \in Nat /\ c \in Nat
            /\ n = l + 1 /\ l \in Nat
            /\ \A i \in 1..n : q[i] = new[i]
            /\ \A i \in 1..l : new[i] = s[i]
        BY <3>1, <3>2, <4>1, <4>2
      <4>4. l <= t /\ \A i \in 1..l : s[i] = q[i]
        <5> HIDE DEF s, q, n, c, k, l, t
        <5>1. QED
          BY <4>3
      <4>5. IsPrefix(s, q)
        BY <1>1, <4>1, <4>4, PrefixPoints
      <4>6. Overlap(r, s)
        BY <1>1, <4>1, <4>5, PrefixesCompare
      <4>7. QED
        BY <1>1, <4>1, <4>6, DeletingFences
    <3>4. CASE dest = None
      <4>1. Len(new) = 1 /\ new[1] = f
        BY <3>4 DEF NewPath
      <4>2. path'[y][1] = f
        BY <3>1, <4>1
      <4>3. r[1] = path'[y][1]
        BY <1>1, PrefixPoints
      <4>4. path[root[u]][1] = f /\ 1 \in 1..Len(path[root[u]])
        BY <1>1, <4>2, <4>3
      <4>5. Exists(f)
        BY DEF MoveFolder, ParentById, Visible, Exists
      <4>6. IsPrefix(path[f], path[root[u]])
        BY <1>1, <4>4, <4>5, AboveInPlace
      <4>7. QED
        BY <1>1, <1>2, <4>6 DEF Overlap
    <3>5. QED
      BY <3>3, <3>4
  <2>3. QED
    BY <2>1, <2>2
<1>5. QED
  BY <1>3, <1>4

\* The path without its last folder.
LEMMA FrontPoints ==
  ASSUME NEW S, NEW s \in Seq(S), s # <<>>
  PROVE  /\ Front(s) \in Seq(S)
         /\ Len(Front(s)) = Len(s) - 1
         /\ \A i \in 1..(Len(s) - 1) : Front(s)[i] = s[i]
<1> DEFINE k == Len(s) - 1
           t == SubSeq(s, 1, k)
<1>1. Len(s) \in Nat /\ Len(s) >= 1
  BY EmptySeq
<1>2. \A i \in 1..k : s[i] \in S
  BY <1>1, ElementOfSeq
<1>3. k \in Nat
  BY <1>1
<1>4. Front(s) = t
  BY DEF Front
<1> HIDE DEF k
<1>5. /\ t \in Seq(S)
      /\ Len(t) = IF 1 <= k THEN k - 1 + 1 ELSE 0
      /\ \A i \in 1..(k - 1 + 1) : t[i] = s[1 + i - 1]
  BY <1>2, <1>3, SubSeqProperties
<1> HIDE DEF t
<1>6. Len(t) = k /\ \A i \in 1..k : t[i] = s[i]
  BY <1>3, <1>5
<1>7. QED
  BY <1>4, <1>5, <1>6 DEF k

\* A root that can be restored is where it was deleted, and its parent, if it
\* has one, is visible.
LEMMA RestorableHome ==
  ASSUME FullInv, NEW v \in Units, root[v] \in Folders, root[v] \in Tombstones(v),
         ParentVisible(rootPath[v]), InPlace(root[v])
  PROVE  /\ rootPath[v] = path[root[v]]
         /\ \/ Len(path[root[v]]) = 1
            \/ \E g \in Folders : Visible(g) /\ path[g] = Front(path[root[v]])
<1> DEFINE old == rootPath[v]
           now == path[root[v]]
           r == Len(old)
           a == Len(now)
<1>1. TreeInv /\ Exists(root[v])
  BY DEF FullInv, Tombstones, Exists
<1>2. now \in Seq(Folders) /\ a \in Nat /\ a >= 1 /\ now[a] = root[v]
  BY <1>1, PathEnds
<1>3. /\ old \in Seq(Folders) /\ old # <<>> /\ old[r] = root[v]
      /\ ParentId(old) = ParentId(now)
  BY <1>1 DEF FullInv, BinInv, SameParent, TreeInv, PathTypes
<1>4. r \in Nat /\ r >= 1
  BY <1>3, EmptySeq
<1>5. \A i \in 1..a : now[i] \in Folders
  BY <1>2, ElementOfSeq
<1>6. None \notin Folders
  BY TreeAssumption DEF Nodes
<1>7. /\ ParentId(old) = IF r = 1 THEN None ELSE old[r - 1]
      /\ ParentId(now) = IF a = 1 THEN None ELSE now[a - 1]
  BY DEF ParentId
<1>8. ASSUME NEW i \in 1..a, Exists(now[i])
      PROVE  Len(path[now[i]]) = i /\ IsPrefix(path[now[i]], now)
  BY <1>1, <1>8, AboveInPlace
<1>9. r # 1 => \E g \in Folders : path[g] = Front(old) /\ Visible(g)
  BY DEF ParentVisible, ParentById
<1>10. r = Len(old) /\ a = Len(now)
  OBVIOUS
<1> HIDE DEF old, now, r, a
<1>11. ASSUME r = a, \A i \in 1..r : old[i] = now[i]
       PROVE  old = now
  BY <1>2, <1>3, <1>10, <1>11, SeqEqual
<1>12. CASE r = 1
  <2>1. ParentId(now) = None
    BY <1>3, <1>7, <1>12
  <2>2. a = 1
    <3>1. ASSUME a # 1 PROVE FALSE
      <4>1. a - 1 \in 1..a
        BY <1>2, <3>1
      <4>2. QED
        BY <1>5, <1>6, <1>7, <2>1, <3>1, <4>1
    <3>2. QED
      BY <3>1
  <2>3. old = now
    BY <1>2, <1>3, <1>11, <1>12, <2>2
  <2>4. QED
    BY <1>10, <2>2, <2>3 DEF old, now
<1>13. CASE r # 1
  <2>1. PICK g \in Folders : path[g] = Front(old) /\ Visible(g)
    BY <1>9, <1>13
  <2>2. Exists(g)
    BY <2>1 DEF Visible, Exists
  <2>3. path[g] \in Seq(Folders) /\ path[g][Len(path[g])] = g
    BY <1>1, <2>2, PathEnds
  <2>4. Len(path[g]) = r - 1 /\ \A i \in 1..(r - 1) : path[g][i] = old[i]
    BY <1>3, <1>10, <2>1, FrontPoints
  <2>5. old[r - 1] = g
    <3>1. r - 1 \in 1..(r - 1)
      BY <1>4, <1>13
    <3>2. QED
      BY <2>3, <2>4, <3>1
  <2>6. ParentId(now) = g
    BY <1>3, <1>7, <1>13, <2>5
  <2>7. a # 1 /\ now[a - 1] = g
    BY <1>6, <1>7, <2>6
  <2>8. a - 1 \in 1..a
    BY <1>2, <2>7
  <2>9. Len(path[g]) = a - 1 /\ IsPrefix(path[g], now)
    BY <1>8, <2>2, <2>7, <2>8
  <2>10. \A i \in 1..(a - 1) : path[g][i] = now[i]
    BY <1>2, <2>3, <2>9, PrefixPoints
  <2>11. r = a
    BY <1>2, <1>4, <2>4, <2>9
  <2>12. \A i \in 1..r : old[i] = now[i]
    BY <1>2, <1>3, <1>4, <2>4, <2>10, <2>11
  <2>13. old = now
    BY <1>11, <2>11, <2>12
  <2>14. QED
    BY <2>1, <2>13 DEF old, now
<1>14. QED
  BY <1>12, <1>13

\* A unit that can be restored has no row inside what is being deleted, unless
\* it was deleted around it.
LEMMA RestorableOutside ==
  ASSUME FullInv, NEW u \in Units, state[u] = "deleting", ~RestoredAround(u),
         NEW v \in Units, job[v].op = "restore", state[v] # "none", Restorable(v),
         root[v] \in Folders => InPlace(root[v]),
         NEW x \in Tombstones(v)
  PROVE  ~IsPrefix(rootPath[u], PathOf(x))
<1> SUFFICES ASSUME IsPrefix(rootPath[u], PathOf(x)) PROVE FALSE
  OBVIOUS
<1> DEFINE r == rootPath[u]
           now == path[root[v]]
<1>1. TreeInv /\ IInv /\ BinInv
  BY DEF FullInv
<1>2. /\ r \in Seq(Folders) /\ r = path[root[u]] /\ Len(r) \in Nat /\ Len(r) >= 1
      /\ root[u] \in Folders /\ node[root[u]] = "deleted"
  BY DeletingRoot
<1>3. v # u
  <2>1. Agree(u)
    BY <1>1 DEF IInv, RecordsAgree
  <2>2. job[u].op = "delete"
    BY <2>1 DEF Agree
  <2>3. QED
    BY <2>2
<1>4. root[v] \in Tombstones(v)
  BY <1>1 DEF Restorable, Tombstones, BinInv, RootsKnown
<1>5. x \in Nodes /\ Exists(x) /\ PathOf(x) \in Seq(Folders)
  BY <1>1, HomePath DEF Tombstones, Exists
<1>6. CASE root[v] \in Items
  <2>1. x = root[v]
    BY <1>1, <1>4, <1>6 DEF BinInv, MembersBelow
  <2>2. PathOf(x) = path[place[x]] /\ Visible(place[x]) /\ place[x] \in Folders
    BY <1>1, <1>4, <1>6, <2>1
       DEF PathOf, Restorable, ParentById, BinInv, ItemHome, TreeInv, PathTypes
  <2>3. QED
    BY <1>2, <2>2 DEF Visible
<1>7. CASE root[v] \notin Items
  <2>1. root[v] \in Folders /\ ParentVisible(rootPath[v]) /\ Exists(root[v])
    BY <1>4, <1>7 DEF Tombstones, Nodes, Restorable, Exists
  <2>2. IsPrefix(now, PathOf(x))
    BY <1>1, <1>4, <1>7 DEF BinInv, MembersBelow, Under
  <2>3. now \in Seq(Folders) /\ Len(now) \in Nat /\ Len(now) >= 1 /\ now # <<>>
    BY <1>1, <2>1, PathEnds DEF TreeInv, Ends
  <2>4. Overlap(now, r)
    <3> DEFINE t == PathOf(x)
    <3>1. IsPrefix(r, t) /\ IsPrefix(now, t) /\ t \in Seq(Folders)
      BY <1>5, <2>2
    <3> HIDE DEF t, now, r
    <3>2. QED
      BY <1>2, <2>3, <3>1, PrefixesCompare
  <2>5. rootPath[v] = now
    BY <1>4, <2>1, RestorableHome
  <2>6. ~IsPrefix(now, r)
    BY <1>3, <2>5 DEF RestoredAround
  <2>7. IsPrefix(r, now)
    BY <2>4, <2>6 DEF Overlap
  <2>8. Len(r) <= Len(now) /\ \A i \in 1..Len(r) : r[i] = now[i]
    BY <1>2, <2>3, <2>7, PrefixPoints
  <2>9. Len(r) < Len(now)
    <3>1. ASSUME Len(r) = Len(now) PROVE FALSE
      <4>1. \A i \in 1..Len(now) : now[i] = r[i]
        BY <2>8, <3>1
      <4>2. IsPrefix(now, r)
        <5> HIDE DEF now, r
        <5>1. QED
          BY <1>2, <2>3, <3>1, <4>1, PrefixPoints
      <4>3. QED
        BY <2>6, <4>2
    <3>2. QED
      BY <1>2, <2>3, <2>8, <3>1
  <2>10. Len(now) # 1
    <3> DEFINE c == Len(now)
               k == Len(r)
    <3>1. k \in Nat /\ c \in Nat /\ k >= 1 /\ k < c
      BY <1>2, <2>3, <2>9
    <3> HIDE DEF c, k
    <3>2. c # 1
      BY <3>1
    <3>3. QED
      BY <3>2 DEF c
  <2>11. PICK g \in Folders : Visible(g) /\ path[g] = Front(now)
    BY <1>4, <2>1, <2>10, RestorableHome
  <2>12. /\ Front(now) \in Seq(Folders) /\ Len(Front(now)) = Len(now) - 1
         /\ \A i \in 1..(Len(now) - 1) : Front(now)[i] = now[i]
    BY <2>3, FrontPoints
  <2>13. IsPrefix(r, Front(now))
    <3> DEFINE t == Front(now)
    <3>1. Len(t) = Len(now) - 1 /\ \A i \in 1..(Len(now) - 1) : t[i] = now[i]
      BY <2>12
    <3>2. t \in Seq(Folders)
      BY <2>12
    <3> HIDE DEF t, now, r
    <3>3. Len(r) <= Len(t) /\ \A i \in 1..Len(r) : r[i] = t[i]
      BY <1>2, <2>3, <2>8, <2>9, <3>1
    <3>4. IsPrefix(r, t)
      BY <1>2, <3>2, <3>3, PrefixPoints
    <3>5. QED
      BY <3>4 DEF t
  <2>14. QED
    BY <1>2, <2>11, <2>13 DEF Visible
<1>8. QED
  BY <1>6, <1>7

\* What a step does to the paths of rows that exist: it moves a folder with what
\* is below it, or leaves them alone, but for the item an import has written.
LEMMA PathsStay ==
  ASSUME Next, FullInv, NEW n \in Nodes, Exists(n), n \notin ImportRows
  PROVE  \/ PathOf(n)' = PathOf(n)
         \/ /\ \E f \in Folders, dest \in Folders \cup {None} : MoveFolder(f, dest)
            /\ Home(n)' = Home(n)
<1> DEFINE Stays == path' = path /\ place' = place
<1>1. TreeInv /\ ImportInv /\ Home(n) \in Folders /\ Exists(Home(n))
  BY HomePath DEF FullInv
<1>2. Stays => PathOf(n)' = PathOf(n)
  BY DEF PathOf
<1>3. ASSUME NEW f \in Folders, node[f] = "absent", \A g \in Folders \ {f} : path'[g] = path[g],
             place' = place
      PROVE  PathOf(n)' = PathOf(n)
  <2>1. Home(n) # f
    BY <1>1, <1>3 DEF Exists
  <2>2. QED
    BY <1>1, <1>3, <2>1, TreeAssumption DEF PathOf, Home, Nodes
<1>4. CASE Catalogue
  <2>1. ASSUME NEW f \in Folders, NEW dest \in Folders \cup {None}, CreateFolder(f, dest)
        PROVE  PathOf(n)' = PathOf(n)
    <3>1. \A g \in Folders \ {f} : path'[g] = path[g]
      BY <1>1, <2>1 DEF CreateFolder, TreeInv, PathTypes
    <3>2. QED
      BY <1>3, <2>1, <3>1 DEF CreateFolder
  <2>2. ASSUME NEW f \in Folders, NEW dest \in Folders \cup {None}, MoveFolder(f, dest)
        PROVE  Home(n)' = Home(n)
    BY <2>2 DEF MoveFolder, Home
  <2>3. ASSUME NEW u \in Units, NEW x \in Nodes,
               Delete(u, x) \/ RestoreNode(x) \/ (x \in Items /\ CreateItem(x))
        PROVE  Stays
    BY <2>3 DEF Delete, RestoreNode, CreateItem
  <2>4. ASSUME NEW x \in Nodes, RestoreNode(x) \/ (x \in Items /\ CreateItem(x))
        PROVE  Stays
    BY <2>4 DEF RestoreNode, CreateItem
  <2>5. QED
    BY <1>2, <1>4, <2>1, <2>2, <2>3, <2>4 DEF Catalogue, Nodes
<1>5. Requests => Stays
  BY DEF Requests, Confirm, CloseGate, Cancel, Retry, QueueRestore, QueuePurge, treeVars
<1>6. ASSUME NEW w \in Workers, NEW u \in Units,
             Claim(w, u) \/ ClaimExhausted(w, u) \/ Batch(w, u)
      PROVE  Stays
  BY <1>6 DEF Claim, ClaimExhausted, Batch, DeleteItems, RestoreItems, DeleteFolders,
              RestoreFolders, DeleteDone, CompleteDeletion, RestoreRoot, PurgePick, PurgeItem,
              PurgeFolder, PurgeFinish, Fail, treeVars
<1>7. ASSUME NEW w \in Workers, Drop(w)
      PROVE  Stays
  BY <1>7 DEF Drop, treeVars
<1>8. ASSUME NEW u \in Units, LeaseExpires(u) \/ BecomeDue(u)
      PROVE  Stays
  BY <1>8 DEF LeaseExpires, BecomeDue, treeVars
<1>9. CASE Importing
  <2>1. PICK i \in Imports :
           \/ \E f \in Folders : ImportFolder(i, f) \/ ImportNewFolder(i, f)
           \/ \E m \in Items : ImportItem(i, m)
           \/ ImportWrite(i)
           \/ ImportCommit(i)
           \/ ImportAbort(i)
    BY <1>9 DEF Importing
  <2>2. ASSUME NEW f \in Folders, ImportNewFolder(i, f)
        PROVE  PathOf(n)' = PathOf(n)
    <3>1. \A g \in Folders \ {f} : path'[g] = path[g]
      BY <1>1, <2>2 DEF ImportNewFolder, TreeInv, PathTypes
    <3>2. QED
      BY <1>3, <2>2, <3>1 DEF ImportNewFolder
  <2>3. CASE ImportCommit(i)
    <3>1. import[i].written => n # import[i].item
      BY DEF ImportRows
    <3>2. path' = path /\ (n \in Items => place'[n] = place[n])
      BY <2>3, <3>1 DEF ImportCommit
    <3>3. QED
      BY <3>2 DEF PathOf
  <2>4. \/ \E f \in Folders : ImportFolder(i, f)
        \/ \E m \in Items : ImportItem(i, m)
        \/ ImportWrite(i)
        \/ ImportAbort(i)
        => Stays
    BY DEF ImportFolder, ImportItem, ImportWrite, ImportAbort, treeVars
  <2>5. QED
    BY <1>2, <2>1, <2>2, <2>3, <2>4
<1>10. QED
  BY <1>2, <1>4, <1>5, <1>6, <1>7, <1>8, <1>9 DEF Next

\* A unit's root and path are recorded when the unit is opened, and only then.
LEMMA RecordedStays ==
  ASSUME Next, FullInv, NEW u \in Units, state[u] # "none"
  PROVE  rootPath'[u] = rootPath[u] /\ root'[u] = root[u]
<1> DEFINE Same == rootPath'[u] = rootPath[u] /\ root'[u] = root[u]
<1>1. rootPath \in [Units -> Seq(Folders)] /\ root \in [Units -> Nodes \cup {None}]
  BY DEF FullInv, TreeInv, PathTypes, IInv, Types, JobTypes
<1>2. ASSUME NEW v \in Units, NEW n, NEW s, NewUnit(v, n, s)
      PROVE  Same
  BY <1>1, <1>2 DEF NewUnit
<1>3. Catalogue => Same
  BY <1>2 DEF Catalogue, CreateFolder, CreateItem, MoveFolder, Delete, RestoreNode, CloseEntry, unitVars
<1>4. Requests => Same
  BY <1>2 DEF Requests, Confirm, CloseGate, Cancel, Retry, QueueRestore, QueuePurge, unitVars
<1>5. ASSUME NEW w \in Workers, NEW v \in Units,
             Claim(w, v) \/ ClaimExhausted(w, v) \/ Batch(w, v)
      PROVE  Same
  BY <1>5 DEF Claim, ClaimExhausted, Batch, DeleteItems, RestoreItems, DeleteFolders,
              RestoreFolders, DeleteDone, CompleteDeletion, RestoreRoot, PurgePick, PurgeItem,
              PurgeFolder, PurgeFinish, Fail, unitVars
<1>6. ASSUME NEW w \in Workers, Drop(w)
      PROVE  Same
  BY <1>6 DEF Drop, unitVars
<1>7. ASSUME NEW v \in Units, LeaseExpires(v) \/ BecomeDue(v)
      PROVE  Same
  BY <1>7 DEF LeaseExpires, BecomeDue, unitVars
<1>8. Importing => Same
  BY DEF Importing, ImportFolder, ImportNewFolder, ImportItem, ImportWrite, ImportCommit,
         ImportAbort, unitVars
<1>9. QED
  BY <1>3, <1>4, <1>5, <1>6, <1>7, <1>8 DEF Next

\* The steps that make a row live, other than an import's.
LEMMA Revivals ==
  ASSUME Next, FullInv, NEW n \in Nodes \ ImportRows, node[n] # "live", node'[n] = "live"
  PROVE  \/ n \in Folders /\ \E dest \in Folders \cup {None} : CreateFolder(n, dest)
         \/ n \in Items /\ CreateItem(n)
         \/ RestoreNode(n)
         \/ \E v \in Units : Cancel(v) /\ n = root[v]
         \/ \E v \in Units :
               /\ job[v].op = "restore" /\ state[v] = "restoring" /\ Restorable(v)
               /\ n \in Tombstones(v) /\ UNCHANGED <<path, place>>
<1>1. node \in [Nodes -> {"absent", "inserted", "live", "deleted", "gone"}]
  BY DEF FullInv, IInv, Types, RowTypes
<1>2. CASE Catalogue
  <2>1. ASSUME NEW m \in Items, CreateItem(m) PROVE n = m
    BY <1>1, <2>1 DEF CreateItem
  <2>2. ASSUME NEW f \in Folders, NEW dest \in Folders \cup {None}, MoveFolder(f, dest) PROVE FALSE
    BY <2>2 DEF MoveFolder
  <2>3. ASSUME NEW u \in Units, NEW x \in Nodes, Delete(u, x) PROVE FALSE
    BY <1>1, <2>3 DEF Delete
  <2>4. ASSUME NEW x \in Nodes, RestoreNode(x) PROVE n = x
    BY <1>1, <2>4 DEF RestoreNode, CloseEntry
  <2>5. ASSUME NEW f \in Folders, NEW dest \in Folders \cup {None}, CreateFolder(f, dest)
        PROVE  n = f
    BY <1>1, <2>5 DEF CreateFolder
  <2>6. QED
    BY <1>2, <2>1, <2>2, <2>3, <2>4, <2>5 DEF Catalogue
<1>3. CASE Requests
  <2>1. ASSUME NEW u \in Units, NEW f \in Folders, Confirm(u, f) PROVE FALSE
    BY <1>1, <2>1 DEF Confirm, CloseGate
  <2>2. ASSUME NEW u \in Units, Cancel(u) PROVE n = root[u]
    BY <1>1, <2>2 DEF Cancel
  <2>3. ASSUME NEW u \in Units, Retry(u) \/ QueueRestore(u) \/ QueuePurge(u) PROVE FALSE
    BY <2>3 DEF Retry, QueueRestore, QueuePurge, treeVars
  <2>4. QED
    BY <1>3, <2>1, <2>2, <2>3 DEF Requests
<1>4. ASSUME NEW w \in Workers, NEW v \in Units, Batch(w, v)
      PROVE  /\ job[v].op = "restore" /\ state[v] = "restoring" /\ Restorable(v)
             /\ n \in Tombstones(v) /\ UNCHANGED <<path, place>>
  <2>1. ASSUME NEW S \in SUBSET Nodes, DeleteItems(w, v, S) \/ DeleteFolders(w, v, S) PROVE FALSE
    BY <2>1 DEF DeleteItems, DeleteFolders, SetNodes
  <2>2. ASSUME NEW S \in SUBSET Nodes, RestoreItems(w, v, S) \/ RestoreFolders(w, v, S)
        PROVE  /\ job[v].op = "restore" /\ state[v] = "restoring" /\ Restorable(v)
               /\ n \in Tombstones(v) /\ UNCHANGED <<path, place>>
    <3>1. n \in S
      BY <2>2 DEF RestoreItems, RestoreFolders, SetNodes
    <3>2. QED
      BY <2>2, <3>1 DEF RestoreItems, RestoreFolders, Restoring, Holds, MemberItems,
                        MemberFolders, Unlocked
  <2>3. ASSUME RestoreRoot(w, v)
        PROVE  /\ job[v].op = "restore" /\ state[v] = "restoring" /\ Restorable(v)
               /\ n \in Tombstones(v) /\ UNCHANGED <<path, place>>
    <3>1. n = root[v]
      BY <1>1, <2>3 DEF RestoreRoot
    <3>2. QED
      BY <2>3, <3>1 DEF RestoreRoot, Restoring, Holds, Restorable, Tombstones
  <2>4. DeleteDone(w, v) \/ PurgeFinish(w, v) \/ Fail(w, v) => FALSE
    BY DEF DeleteDone, CompleteDeletion, PurgeFinish, Fail, treeVars
  <2>5. ASSUME NEW m \in Items, PurgePick(w, v, m) PROVE FALSE
    BY <2>5 DEF PurgePick, treeVars
  <2>6. PurgeItem(w, v) => FALSE
    BY <1>1 DEF PurgeItem
  <2>7. ASSUME NEW f \in Folders, PurgeFolder(w, v, f) PROVE FALSE
    BY <1>1, <2>7 DEF PurgeFolder
  <2>8. QED
    BY <1>4, <2>1, <2>2, <2>3, <2>4, <2>5, <2>6, <2>7 DEF Batch, Nodes
<1>5. ASSUME NEW w \in Workers, NEW v \in Units, Claim(w, v) \/ ClaimExhausted(w, v) PROVE FALSE
  BY <1>5 DEF Claim, ClaimExhausted, treeVars
<1>6. ASSUME NEW w \in Workers, Drop(w) PROVE FALSE
  BY <1>6 DEF Drop, treeVars
<1>7. ASSUME NEW v \in Units, LeaseExpires(v) \/ BecomeDue(v) PROVE FALSE
  BY <1>7 DEF LeaseExpires, BecomeDue, treeVars
<1>8. CASE Importing
  <2>1. PICK i \in Imports :
           \/ \E f \in Folders : ImportFolder(i, f) \/ ImportNewFolder(i, f)
           \/ \E m \in Items : ImportItem(i, m)
           \/ ImportWrite(i)
           \/ ImportCommit(i)
           \/ ImportAbort(i)
    BY <1>8 DEF Importing
  <2>2. n \notin import[i].made /\ (import[i].written => n # import[i].item)
    BY DEF ImportRows
  <2>3. CASE ImportCommit(i)
    BY <2>2, <2>3 DEF ImportCommit, SetNodes
  <2>4. CASE ImportAbort(i)
    BY <2>2, <2>4 DEF ImportAbort, SetNodes
  <2>5. CASE ImportWrite(i)
    BY <1>1, <2>5 DEF ImportWrite
  <2>6. ASSUME NEW f \in Folders, ImportFolder(i, f) \/ ImportNewFolder(i, f)
        PROVE  FALSE
    BY <1>1, <2>6 DEF ImportFolder, ImportNewFolder, treeVars
  <2>7. ASSUME NEW m \in Items, ImportItem(i, m)
        PROVE  FALSE
    BY <2>7 DEF ImportItem, treeVars
  <2>8. QED
    BY <2>1, <2>3, <2>4, <2>5, <2>6, <2>7
<1>9. QED
  BY <1>2, <1>3, <1>4, <1>5, <1>6, <1>7, <1>8 DEF Next

\* No row becomes live inside what is being deleted.
LEMMA NothingRevived ==
  ASSUME Next, FullInv, NEW u \in Units, state[u] = "deleting", state'[u] = "deleting",
         ~RestoredAround(u), ~Stray(u),
         NEW n \in Nodes \ ImportRows, node[n] # "live", node'[n] = "live"
  PROVE  ~IsPrefix(rootPath[u], PathOf(n)')
<1>1. TreeInv /\ IInv /\ BinInv
  BY DEF FullInv
<1>2. ASSUME NEW s, Overlap(rootPath[u], s) PROVE Fenced(s)
  BY <1>1, <1>2, DeletingFences
<1>3. ASSUME n \in Items, CreateItem(n)
      PROVE  ~IsPrefix(rootPath[u], PathOf(n)')
  BY <1>2, <1>3 DEF CreateItem, PathOf, Overlap
<1>4. ASSUME RestoreNode(n)
      PROVE  ~IsPrefix(rootPath[u], PathOf(n)')
  BY <1>2, <1>4 DEF RestoreNode, PathOf, Overlap
<1>5. ASSUME NEW v \in Units, Cancel(v), n = root[v]
      PROVE  ~IsPrefix(rootPath[u], PathOf(n)')
  <2>1. v # u /\ state[v] = "deleting" /\ path' = path /\ place' = place
    <3>1. state'[v] = "restored"
      BY <1>1, <1>5 DEF Cancel, IInv, Types, JobTypes
    <3>2. QED
      BY <1>5, <3>1 DEF Cancel
  <2>2. n \in Folders /\ rootPath[v] = path[n]
    BY <1>1, <1>5, <2>1 DEF BinInv, DeletingHome
  <2>3. PathOf(n)' = rootPath[v]
    BY <2>1, <2>2, TreeAssumption DEF PathOf
  <2>4. ~Overlap(rootPath[u], rootPath[v])
    BY <1>1, <2>1 DEF BinInv, DeletingApart
  <2>5. QED
    BY <2>1, <2>3, <2>4 DEF Overlap
<1>6. ASSUME NEW v \in Units, job[v].op = "restore", state[v] = "restoring", Restorable(v),
             n \in Tombstones(v), UNCHANGED <<path, place>>
      PROVE  ~IsPrefix(rootPath[u], PathOf(n)')
  <2>1. ~IsPrefix(rootPath[u], PathOf(n))
    BY <1>6, RestorableOutside DEF Stray
  <2>2. QED
    BY <1>6, <2>1 DEF PathOf
<1>7. ASSUME n \in Folders, NEW dest \in Folders \cup {None}, CreateFolder(n, dest)
      PROVE  ~IsPrefix(rootPath[u], PathOf(n)')
  <2> DEFINE r == rootPath[u]
             q == NewPath(n, dest)
  <2>1. PathOf(n)' = q
    BY <1>1, <1>7, TreeAssumption DEF CreateFolder, PathOf, NewPath, TreeInv, PathTypes
  <2>2. /\ r \in Seq(Folders) /\ Len(r) \in Nat /\ Len(r) >= 1
        /\ r = path[root[u]] /\ root[u] \in Folders /\ root[u] # n
    BY <1>7, DeletingRoot DEF CreateFolder
  <2>3. r[Len(r)] = root[u]
    BY <1>1, <2>2, PathEnds
  <2>4. /\ q \in Seq(Folders)
        /\ Len(q) = IF dest = None THEN 1 ELSE Len(path[dest]) + 1
        /\ q[Len(q)] = n
        /\ dest # None => \A i \in 1..Len(path[dest]) : q[i] = path[dest][i]
    BY <1>1, <1>7, NewPathPoints DEF TreeInv
  <2>5. CASE dest = None
    <3> SUFFICES ASSUME IsPrefix(r, q) PROVE FALSE
      BY <2>1
    <3> HIDE DEF r, q
    <3>1. Len(r) = 1 /\ q[1] = n
      BY <2>2, <2>4, <2>5, PrefixPoints
    <3>2. r[1] = q[1]
      BY <2>2, <2>4, PrefixPoints
    <3>3. QED
      BY <2>2, <2>3, <3>1, <3>2
  <2>6. CASE dest # None
    <3> DEFINE s == path[dest]
    <3>1. s \in Seq(Folders) /\ Len(s) \in Nat /\ ~Fenced(s)
      BY <1>1, <1>7, <2>6, PathEnds DEF CreateFolder
    <3>2. IsPrefix(s, q)
      <4>1. Len(s) <= Len(q) /\ \A i \in 1..Len(s) : s[i] = q[i]
        BY <2>4, <2>6, <3>1
      <4> HIDE DEF s, q
      <4>2. QED
        BY <2>4, <3>1, <4>1, PrefixPoints
    <3>3. ~Overlap(r, s)
      BY <1>2, <3>1
    <3> HIDE DEF r, s, q
    <3>4. ~IsPrefix(r, q)
      BY <2>2, <2>4, <3>1, <3>2, <3>3, PrefixesCompare
    <3>5. QED
      BY <2>1, <3>4 DEF r
  <2>7. QED
    BY <2>5, <2>6
<1>8. QED
  BY <1>3, <1>4, <1>5, <1>6, <1>7, Revivals

\* While a subtree is being deleted nothing is created in it, restored in it, or
\* moved into or out of it, in every tree and by everybody but an import; what
\* the exceptions are Fence says (ensureNoActiveDeletionForPaths).
THEOREM FenceHolds == Spec => Fence
<1> DEFINE Shut ==
      \A u \in Units : Deleting(u) /\ ~RestoredAround(u) /\ ~Stray(u) => FenceStep(u)
<1>1. FullInv /\ [Next]_vars => [Shut]_vars
  <2> SUFFICES ASSUME FullInv, Next, NEW u \in Units, Deleting(u), ~RestoredAround(u), ~Stray(u),
                      NEW n \in Nodes \ ImportRows
               PROVE  /\ node'[n] = "live" /\ Under(n, rootPath[u])' => node[n] = "live"
                      /\ Exists(n) /\ Exists(n)'
                         => (Under(n, rootPath[u])' <=> Under(n, rootPath[u]))
    BY DEF FenceStep
  <2>1. state[u] = "deleting" /\ state'[u] = "deleting"
    BY DEF Deleting
  <2>2. rootPath'[u] = rootPath[u]
    BY <2>1, RecordedStays
  <2>3. ASSUME Exists(n)
        PROVE  IsPrefix(rootPath[u], PathOf(n)') <=> IsPrefix(rootPath[u], PathOf(n))
    <3>1. CASE PathOf(n)' = PathOf(n)
      BY <3>1
    <3>2. ASSUME NEW f \in Folders, NEW dest \in Folders \cup {None}, MoveFolder(f, dest),
                 Home(n)' = Home(n)
          PROVE  IsPrefix(rootPath[u], PathOf(n)') <=> IsPrefix(rootPath[u], PathOf(n))
      <4>1. Home(n) \in Folders /\ PathOf(n) = path[Home(n)] /\ PathOf(n)' = path'[Home(n)]
        BY <3>2, HomePath DEF FullInv, PathOf, Home
      <4>2. QED
        BY <2>1, <3>2, <4>1, FencedMove DEF Stray
    <3>3. QED
      BY <2>3, <3>1, <3>2, PathsStay
  <2>4. Exists(n) => (Under(n, rootPath[u])' <=> Under(n, rootPath[u]))
    BY <2>2, <2>3 DEF Under
  <2>5. node'[n] = "live" /\ node[n] # "live" => ~IsPrefix(rootPath[u], PathOf(n)')
    BY <2>1, NothingRevived
  <2>6. QED
    BY <2>2, <2>4, <2>5 DEF Under
<1>2. QED
  BY <1>1, FullInvariant, PTL DEF Spec, Fence

\* A way that has not come into what is being deleted does not come into it with
\* one more folder, if that folder is not the root.
LEMMA OutsideAppended ==
  ASSUME FullInv, NEW u \in Units, state[u] = "deleting", NEW p \in Seq(Folders),
         NEW f \in Folders, f # root[u], IsPrefix(rootPath[u], Append(p, f))
  PROVE  IsPrefix(rootPath[u], p)
<1> DEFINE r == rootPath[u]
           q == Append(p, f)
<1>1. /\ r \in Seq(Folders) /\ Len(r) \in Nat /\ r = path[root[u]] /\ root[u] \in Folders
      /\ r[Len(r)] = root[u] /\ Len(r) >= 1
  BY DeletingRoot, PathEnds DEF FullInv
<1>2. /\ q \in Seq(Folders) /\ Len(q) = Len(p) + 1 /\ q[Len(p) + 1] = f
      /\ \A i \in 1..Len(p) : q[i] = p[i]
      /\ Len(p) \in Nat
  BY AppendProperties, LenProperties
<1> HIDE DEF r, q
<1>3. IsPrefix(r, q)
  BY DEF r, q
<1>4. Len(r) <= Len(q) /\ \A i \in 1..Len(r) : r[i] = q[i]
  BY <1>1, <1>2, <1>3, PrefixPoints
<1>5. Len(r) # Len(q)
  BY <1>1, <1>2, <1>4
<1>6. Len(r) <= Len(p) /\ \A i \in 1..Len(r) : r[i] = p[i]
  BY <1>1, <1>2, <1>4, <1>5
<1>7. QED
  BY <1>1, <1>6, PrefixPoints DEF r

\* No import that has not found its way into a subtree before its deletion began
\* finds it or writes an item there while it lasts, in every tree and however
\* imports and moves interleave (ImportSampleTransaction, V6).
THEOREM GateHolds == Spec => GateClosedToImports
<1> DEFINE Closed ==
      \A u \in Units, i \in Imports : Deleting(u) =>
          /\ IsPrefix(rootPath[u], import'[i].path) => IsPrefix(rootPath[u], import[i].path)
          /\ import'[i].written /\ ~import[i].written
             => ~IsPrefix(rootPath[u], path[Target(i)])
<1>1. FullInv /\ [Next]_vars => [Closed]_vars
  <2> SUFFICES ASSUME FullInv, Next, NEW u \in Units, Deleting(u), NEW j \in Imports
               PROVE  /\ IsPrefix(rootPath[u], import'[j].path)
                         => IsPrefix(rootPath[u], import[j].path)
                      /\ import'[j].written /\ ~import[j].written
                         => ~IsPrefix(rootPath[u], path[Target(j)])
    OBVIOUS
  <2>1. state[u] = "deleting"
    BY DEF Deleting
  <2>2. /\ root[u] \in Folders /\ node[root[u]] = "deleted" /\ rootPath[u] = path[root[u]]
        /\ rootPath[u] \in Seq(Folders) /\ Len(rootPath[u]) >= 1 /\ Len(rootPath[u]) \in Nat
    BY <2>1, DeletingRoot
  <2>3. import \in [Imports -> ImportRecords]
    BY DEF FullInv, ImportInv, ImportTypes
  <2>4. CASE import'[j] = import[j]
    BY <2>4
  <2>5. ASSUME NEW f \in Folders, f # root[u], import'[j].path = Append(import[j].path, f),
               import'[j].written = import[j].written
        PROVE  /\ IsPrefix(rootPath[u], import'[j].path) => IsPrefix(rootPath[u], import[j].path)
               /\ ~(import'[j].written /\ ~import[j].written)
    BY <2>1, <2>3, <2>5, OutsideAppended DEF ImportRecords
  <2>6. ASSUME NEW f \in Folders, ImportFolder(j, f) \/ ImportNewFolder(j, f)
        PROVE  /\ f # root[u] /\ import'[j].path = Append(import[j].path, f)
               /\ import'[j].written = import[j].written
    BY <2>2, <2>3, <2>6 DEF ImportFolder, ImportNewFolder, Step, ImportRecords
  <2>7. ASSUME NEW m \in Items, ImportItem(j, m)
        PROVE  import'[j].path = import[j].path /\ import'[j].written = import[j].written
    BY <2>3, <2>7 DEF ImportItem, ImportRecords
  <2>8. CASE ImportWrite(j)
    <3>1. import'[j].path = import[j].path
      BY <2>3, <2>8 DEF ImportWrite, ImportRecords
    <3>2. ~IsPrefix(rootPath[u], path[Target(j)])
      BY <2>2, <2>8 DEF ImportWrite, Accepts
    <3>3. QED
      BY <3>1, <3>2
  <2>9. CASE ImportCommit(j) \/ ImportAbort(j)
    <3>1. import'[j] = NoImport
      BY <2>3, <2>9 DEF ImportCommit, ImportAbort
    <3>2. ~IsPrefix(rootPath[u], <<>>)
      <4>1. <<>> \in Seq(Folders) /\ Len(<<>>) = 0
        BY EmptySeq
      <4> DEFINE r == rootPath[u]
                 e == <<>>
      <4>2. r \in Seq(Folders) /\ Len(r) \in Nat /\ Len(r) >= 1 /\ e \in Seq(Folders) /\ Len(e) = 0
        BY <2>2, <4>1
      <4> HIDE DEF r, e
      <4>3. IsPrefix(r, e) => Len(r) <= Len(e)
        BY <4>2, PrefixPoints
      <4>4. ~IsPrefix(r, e)
        BY <4>2, <4>3
      <4>5. QED
        BY <4>4 DEF r, e
    <3>3. QED
      BY <3>1, <3>2 DEF NoImport
  <2>10. CASE Importing
    <3>1. PICK i \in Imports :
             \/ \E f \in Folders : ImportFolder(i, f) \/ ImportNewFolder(i, f)
             \/ \E m \in Items : ImportItem(i, m)
             \/ ImportWrite(i)
             \/ ImportCommit(i)
             \/ ImportAbort(i)
      BY <2>10 DEF Importing
    <3>2. i # j => import'[j] = import[j]
      BY <2>3, <3>1 DEF ImportFolder, ImportNewFolder, Step, ImportItem, ImportWrite,
                        ImportCommit, ImportAbort, ImportRecords
    <3>3. QED
      BY <2>4, <2>5, <2>6, <2>7, <2>8, <2>9, <3>1, <3>2
  <2>11. CASE ~Importing
    BY <2>4, <2>11, InsertedKept DEF FullInv, IInv, Types
  <2>12. QED
    BY <2>10, <2>11
<1>2. QED
  BY <1>1, FullInvariant, PTL DEF Spec, GateClosedToImports
=============================================================================
