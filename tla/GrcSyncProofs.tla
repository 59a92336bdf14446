--------------------------- MODULE GrcSyncProofs ---------------------------
(***************************************************************************)
(* Theorems about GrcSync, for any number of records, any capacity of the  *)
(* queue and any bounds.                                                   *)
(***************************************************************************)
EXTENDS GrcSync, TLAPS

USE QueueAssumption, GrcAssumption

-----------------------------------------------------------------------------
(* The operations of the queue *)

\* An insertion evicts no deletion and adds no other row than the new one
\* (SyncQueueRepository::enqueue).
LEMMA EvictionKeepsTombstones ==
  ASSUME NEW q
  PROVE  /\ EvictForInsert(q) \subseteq q
         /\ \A r \in q : r.kind = "delete" => r \in EvictForInsert(q)
  BY DEF EvictForInsert, EvictLow, Evictable, FirstRows

\* The same of the eviction at the start of a drain (enforce_queue_limit).
LEMMA LimitKeepsTombstones ==
  ASSUME NEW q
  PROVE  /\ EnforceQueueLimit(q) \subseteq q
         /\ \A r \in q : r.kind = "delete" => r \in EnforceQueueLimit(q)
  BY DEF EnforceQueueLimit, Evictable, FirstRows

\* Reading the queue returns rows of the queue (get_pending, get_pending_for).
LEMMA PendingFromQueue ==
  ASSUME NEW q, NEW kind
  PROVE  GetPending(q) \subseteq q /\ GetPendingFor(q, kind) \subseteq q
  BY DEF GetPending, GetPendingFor, FirstRows, Due

\* A new row is a row.
LEMMA NewRowType ==
  ASSUME NEW id \in Nat, NEW kind \in Kinds, NEW e \in Ids \union Incidents,
         NEW v \in Nat
  PROVE  NewRow(id, kind, e, v) \in QueueRow
  BY DEF NewRow, QueueRow

\* Recording a failure keeps the type: the attempts stay below the width of the
\* backoff because the computation that would exceed it panics first.
LEMMA RecordFailureType ==
  ASSUME NEW q \in SUBSET QueueRow, NEW ids
  PROVE  RecordFailure(q, ids) \in SUBSET QueueRow
<1>1. ASSUME NEW r \in QueueRow, ~BackoffOverflows(r)
      PROVE  FailedRow(r) \in QueueRow
  <2>1. r.attempts + 1 \in 0 .. (PowWidth - 1)
    BY <1>1 DEF QueueRow, BackoffOverflows
  <2>2. [r EXCEPT !.attempts = r.attempts + 1] \in QueueRow
    BY <2>1 DEF QueueRow
  <2>3. \A s \in QueueRow : [s EXCEPT !.retry = "waiting"] \in QueueRow
    BY DEF QueueRow
  <2> QED
    BY <2>2, <2>3 DEF FailedRow
<1> QED
  BY <1>1 DEF RecordFailure

-----------------------------------------------------------------------------
(* Type correctness *)

\* The initial state is well typed.
LEMMA TypeInit == Init => TypeOK
<1> SUFFICES ASSUME Init PROVE TypeOK
  OBVIOUS
<1>1. complete \in BOOLEAN
  BY DEF Init
<1>2. platform \in [Ids -> Nat]
  BY DEF Init
<1> QED
  BY <1>1, <1>2 DEF Init, TypeOK, Stages, Replies

\* One step keeps the types: one case per action.
LEMMA TypeStep == TypeOK /\ [Next]_vars => TypeOK'
<1> SUFFICES ASSUME TypeOK, [Next]_vars PROVE TypeOK'
  OBVIOUS
<1> USE DEF TypeOK, jobVars, dbVars
<1>1. ASSUME NEW i \in Ids, StartSave(i) PROVE TypeOK'
  BY <1>1 DEF StartSave, Tasks
<1>2. ASSUME NEW i \in Ids, StartDelete(i) PROVE TypeOK'
  BY <1>2 DEF StartDelete, Tasks
<1>3. ASSUME NEW i \in Ids, StartRestore(i) PROVE TypeOK'
  BY <1>3 DEF StartRestore, Tasks
<1>4. ASSUME NEW t \in tasks, Upsert(t) PROVE TypeOK'
  BY <1>4 DEF Upsert, Tasks
<1>5. ASSUME NEW t \in tasks, UpsertFails(t) PROVE TypeOK'
  BY <1>5 DEF UpsertFails, Tasks
<1>6. ASSUME NEW t \in tasks, CancelDelete(t) PROVE TypeOK'
  BY <1>6 DEF CancelDelete, Tasks, CancelGrcDelete
<1>7. ASSUME NEW t \in tasks, EnqueueUpload(t) PROVE TypeOK'
  <2>1. NewRow(nextId, "upload", t.id, t.version) \in QueueRow
    BY NewRowType DEF Tasks, Kinds
  <2> QED
    BY <1>7, <2>1, EvictionKeepsTombstones DEF EnqueueUpload, Enqueue
<1>8. ASSUME NEW t \in tasks, DeleteGrc(t) PROVE TypeOK'
  <2>1. NewRow(nextId, "delete", t.id, 0) \in QueueRow
    BY NewRowType DEF Tasks, Kinds
  <2>2. t.id \in Ids
    BY DEF Tasks
  <2> QED
    BY <1>8, <2>1, <2>2 DEF DeleteGrc, DeleteGrcRows
<1>9. ASSUME NEW t \in tasks, TaskFails(t) PROVE TypeOK'
  BY <1>9 DEF TaskFails
<1>10. CASE BeginHeartbeat
  BY <1>10 DEF BeginHeartbeat, Stages
<1>11. CASE EnforceLimit
  BY <1>11, LimitKeepsTombstones DEF EnforceLimit, Stages
<1>12. CASE ReadDeletions
  BY <1>12, PendingFromQueue DEF ReadDeletions, Stages, Tombstones
<1>13. CASE DeletionsDone
  BY <1>13 DEF DeletionsDone, Stages, AfterDeletions
<1>14. ASSUME NEW r \in batch, SendDelete(r) PROVE TypeOK'
  BY <1>14 DEF SendDelete, Stages, Replies
<1>15. ASSUME NEW r \in batch, DeleteConfirmed(r) PROVE TypeOK'
  BY <1>15 DEF DeleteConfirmed, Stages, Replies, Remove
<1>16. ASSUME NEW r \in batch, DeleteFailed(r) PROVE TypeOK'
  BY <1>16, RecordFailureType DEF DeleteFailed, Stages, Replies, AfterDeletions
<1>17. CASE DeleteUnacknowledged
  BY <1>17 DEF DeleteUnacknowledged, Stages, Replies, AfterDeletions
<1>18. CASE ReadUploads
  BY <1>18, PendingFromQueue DEF ReadUploads, Stages, AfterUploads
<1>19. CASE SendUploads
  <2>1. ASSUME NEW taken \in SUBSET batch
        PROVE  Stored(taken) \in [Ids -> Nat] /\ {r.version : r \in taken} \subseteq Nat
    BY <2>1 DEF Stored, Youngest, QueueRow
  <2> QED
    BY <1>19, <2>1 DEF SendUploads, Stages, Replies
<1>20. CASE UploadsConfirmed
  BY <1>20 DEF UploadsConfirmed, Stages, Replies, AcknowledgeRows,
               AcknowledgedIds, AfterUploads
<1>21. CASE UploadsShort
  BY <1>21 DEF UploadsShort, Stages, Replies, AfterUploads
<1>22. CASE UploadsFailed
  BY <1>22, RecordFailureType DEF UploadsFailed, Stages, Replies, AfterUploads
<1>23. CASE Fetch
  BY <1>23 DEF Fetch, FetchStages, Stages
<1>24. CASE FetchFails
  BY <1>24 DEF FetchFails, AfterDownload, Stages
<1>25. CASE Reconcile
  BY <1>25 DEF Reconcile, AfterDownload, Stages
<1>26. CASE RequeueRead
  <2>1. \A i \in Ids : NewRow(0, "upload", i, local[i]) \in QueueRow
    BY NewRowType DEF Kinds
  <2> QED
    BY <1>26, <2>1 DEF RequeueRead, Stages
<1>27. ASSUME NEW r \in batch, RequeueOne(r) PROVE TypeOK'
  <2>1. r.entity \in Ids \union Incidents /\ r.version \in Nat
    BY DEF QueueRow
  <2>2. NewRow(nextId, "upload", r.entity, r.version) \in QueueRow
    BY <2>1, NewRowType DEF Kinds
  <2> QED
    BY <1>27, <2>2, EvictionKeepsTombstones DEF RequeueOne, Enqueue
<1>28. CASE RequeueDone
  BY <1>28 DEF RequeueDone, Stages
<1>29. CASE JobFault
  BY <1>29 DEF JobFault, Stages, Replies, AfterDeletions, AfterUploads,
               AfterDownload, ReconcileStages
<1>30. ASSUME NEW r \in queue, BackoffElapses(r) PROVE TypeOK'
  <2>1. [r EXCEPT !.retry = "due"] \in QueueRow
    BY DEF QueueRow
  <2> QED
    BY <1>30, <2>1 DEF BackoffElapses
<1>31. ASSUME NEW r \in queue, IncidentTried(r) PROVE TypeOK'
  BY <1>31, RecordFailureType DEF IncidentTried, Remove
<1>32. ASSUME NEW n \in Incidents, QueueIncident(n) PROVE TypeOK'
  <2>1. NewRow(nextId, "incident", n, 0) \in QueueRow
    BY NewRowType DEF Kinds
  <2> QED
    BY <1>32, <2>1, EvictionKeepsTombstones DEF QueueIncident, Enqueue
<1>33. ASSUME NEW i \in Ids, RemoteEdit(i) PROVE TypeOK'
  BY <1>33 DEF RemoteEdit
<1>34. ASSUME NEW i \in Ids, RemoteDelete(i) PROVE TypeOK'
  BY <1>34 DEF RemoteDelete
<1>35. CASE Crash
  BY <1>35 DEF Crash, Stages, Replies
<1>36. CASE UNCHANGED vars
  BY <1>36 DEF vars
<1> QED
  BY <1>1, <1>2, <1>3, <1>4, <1>5, <1>6, <1>7, <1>8, <1>9, <1>10, <1>11,
     <1>12, <1>13, <1>14, <1>15, <1>16, <1>17, <1>18, <1>19, <1>20, <1>21,
     <1>22, <1>23, <1>24, <1>25, <1>26, <1>27, <1>28, <1>29, <1>30, <1>31,
     <1>32, <1>33, <1>34, <1>35, <1>36
  DEF Next, UserStep, JobStep, EnvironmentStep

\* Every reachable state is well typed: in particular no row ever counts as many
\* attempts as the backoff has bits, whatever the platform answers.
THEOREM TypeCorrect == Spec => []TypeOK
  BY TypeInit, TypeStep, PTL DEF Spec

-----------------------------------------------------------------------------
(* A queued deletion is not undone *)

\* An insertion that is not a deletion changes no queued deletion.
LEMMA EnqueueTombstones ==
  ASSUME NEW q, NEW row, row.kind # "delete", NEW i
  PROVE  HasTombstone(Enqueue(q, row), i) <=> HasTombstone(q, i)
  BY EvictionKeepsTombstones DEF HasTombstone, Enqueue

LEMMA LimitTombstones ==
  ASSUME NEW q, NEW i
  PROVE  HasTombstone(EnforceQueueLimit(q), i) <=> HasTombstone(q, i)
  BY LimitKeepsTombstones DEF HasTombstone

\* A recorded failure only touches attempts and retry.
LEMMA FailedRowFields ==
  ASSUME NEW r \in QueueRow
  PROVE  /\ FailedRow(r).kind = r.kind
         /\ FailedRow(r).entity = r.entity
         /\ FailedRow(r).id = r.id
         /\ FailedRow(r).version = r.version
         /\ FailedRow(r).attempts = r.attempts + 1
<1> DEFINE s == [r EXCEPT !.attempts = r.attempts + 1]
<1>1. FailedRow(r) = [s EXCEPT !.retry = "waiting"]
  BY DEF FailedRow
<1>2. /\ s.kind = r.kind /\ s.entity = r.entity /\ s.id = r.id
      /\ s.version = r.version
      /\ s.attempts = r.attempts + 1
  BY DEF QueueRow
<1>3. DOMAIN s = {"id", "kind", "entity", "version", "attempts", "retry"}
  BY DEF QueueRow
<1> HIDE DEF s
<1> QED
  BY <1>1, <1>2, <1>3

LEMMA FailureTombstones ==
  ASSUME NEW q \in SUBSET QueueRow, NEW ids, NEW i
  PROVE  HasTombstone(RecordFailure(q, ids), i) <=> HasTombstone(q, i)
  BY FailedRowFields DEF HasTombstone, RecordFailure

\* The heartbeat job and the environment add no deletion, and touch neither the
\* tasks of the user (a crash ends them) nor what was deleted.
LEMMA OthersAddNoTombstone ==
  ASSUME TypeOK, JobStep \/ EnvironmentStep
  PROVE  /\ \A i \in Ids : HasTombstone(queue', i) => HasTombstone(queue, i)
         /\ tasks' \subseteq tasks
         /\ UNCHANGED deleted
<1> DEFINE Fewer == /\ \A i \in Ids : HasTombstone(queue', i) => HasTombstone(queue, i)
                    /\ tasks' \subseteq tasks
                    /\ UNCHANGED deleted
<1> USE DEF TypeOK, dbVars, jobVars
<1>1. CASE \/ BeginHeartbeat \/ ReadDeletions \/ DeletionsDone
           \/ DeleteUnacknowledged \/ ReadUploads \/ SendUploads \/ UploadsShort
           \/ Fetch \/ FetchFails \/ Reconcile \/ RequeueRead \/ RequeueDone
           \/ JobFault \/ Crash
  BY <1>1 DEF BeginHeartbeat, ReadDeletions, DeletionsDone,
              DeleteUnacknowledged, ReadUploads, SendUploads, UploadsShort,
              Fetch, FetchFails, Reconcile, RequeueRead, RequeueDone, JobFault,
              Crash
<1>2. CASE EnforceLimit
  BY <1>2, LimitTombstones DEF EnforceLimit
<1>3. ASSUME NEW r \in batch, SendDelete(r) PROVE Fewer
  BY <1>3 DEF SendDelete
<1>4. ASSUME NEW r \in batch, DeleteConfirmed(r) PROVE Fewer
  BY <1>4 DEF DeleteConfirmed, Remove, HasTombstone
<1>5. ASSUME NEW r \in batch, DeleteFailed(r) PROVE Fewer
  BY <1>5, FailureTombstones DEF DeleteFailed
<1>6. CASE UploadsConfirmed
  BY <1>6 DEF UploadsConfirmed, AcknowledgeRows, HasTombstone
<1>7. CASE UploadsFailed
  BY <1>7, FailureTombstones DEF UploadsFailed
<1>8. ASSUME NEW r \in batch, RequeueOne(r) PROVE Fewer
  BY <1>8, EnqueueTombstones DEF RequeueOne, NewRow
<1>9. ASSUME NEW r \in queue, BackoffElapses(r) PROVE Fewer
  <2>1. /\ [r EXCEPT !.retry = "due"].kind = r.kind
        /\ [r EXCEPT !.retry = "due"].entity = r.entity
    BY DEF QueueRow
  <2> QED
    BY <1>9, <2>1 DEF BackoffElapses, HasTombstone
<1>10. ASSUME NEW r \in queue, IncidentTried(r) PROVE Fewer
  <2>1. CASE queue' = Remove(queue, {r.id})
    BY <1>10, <2>1 DEF IncidentTried, Remove, HasTombstone
  <2>2. CASE queue' = RecordFailure(queue, {r.id})
    BY <1>10, <2>2, FailureTombstones DEF IncidentTried
  <2> QED
    BY <1>10, <2>1, <2>2 DEF IncidentTried
<1>11. ASSUME NEW n \in Incidents, QueueIncident(n) PROVE Fewer
  BY <1>11, EnqueueTombstones DEF QueueIncident, NewRow
<1>12. ASSUME NEW i \in Ids, RemoteEdit(i) \/ RemoteDelete(i) PROVE Fewer
  BY <1>12 DEF RemoteEdit, RemoteDelete
<1> QED
  BY <1>1, <1>2, <1>3, <1>4, <1>5, <1>6, <1>7, <1>8, <1>9, <1>10, <1>11, <1>12
  DEF JobStep, EnvironmentStep

\* When the commands on one record run one at a time, a task that writes or queues a
\* record was started before its deletion and is over, or is the restoration that
\* ends it.
LEMMA TaskStep ==
  ASSUME Overlap = FALSE, TaskInv, [Next]_vars
  PROVE  TaskInv'
<1> USE DEF TaskInv
<1>0. TypeOK /\ TypeOK'
  BY TypeStep
<1> DEFINE Kept == OneTaskPerRecord' /\ TasksRespectDeletion'
<1>1. ASSUME NEW i \in Ids, StartSave(i) PROVE Kept
  BY <1>0, <1>1 DEF StartSave, CanStart, OneTaskPerRecord, TasksRespectDeletion
<1>2. ASSUME NEW i \in Ids, StartDelete(i) PROVE Kept
  BY <1>0, <1>2 DEF StartDelete, CanStart, OneTaskPerRecord, TasksRespectDeletion
<1>3. ASSUME NEW i \in Ids, StartRestore(i) PROVE Kept
  BY <1>0, <1>3 DEF StartRestore, CanStart, OneTaskPerRecord, TasksRespectDeletion
<1>4. ASSUME NEW t \in tasks, Upsert(t) PROVE Kept
  <2> DEFINE u == [t EXCEPT !.step = IF t.op = "restore" THEN "cancel" ELSE "enqueue"]
  <2>1. u.id = t.id
    BY <1>0 DEF TypeOK, Tasks
  <2>2. t.id \notin deleted' /\ deleted' \subseteq deleted
    BY <1>4 DEF Upsert, TasksRespectDeletion
  <2>3. tasks' = (tasks \ {t}) \union {u}
    BY <1>4 DEF Upsert
  <2> HIDE DEF u
  <2> QED
    BY <2>1, <2>2, <2>3 DEF OneTaskPerRecord, TasksRespectDeletion
<1>5. ASSUME NEW t \in tasks, UpsertFails(t) PROVE Kept
  <2> DEFINE u == [t EXCEPT !.step = "enqueue"]
  <2>1. u.id = t.id
    BY <1>0 DEF TypeOK, Tasks
  <2>2. tasks' \subseteq (tasks \ {t}) \union (IF t.op = "restore" THEN {} ELSE {u})
    BY <1>5 DEF UpsertFails
  <2> HIDE DEF u
  <2>3. UNCHANGED deleted /\ (t.op # "restore" => t.id \notin deleted)
    BY <1>5 DEF UpsertFails, TasksRespectDeletion
  <2> QED
    BY <2>1, <2>2, <2>3 DEF OneTaskPerRecord, TasksRespectDeletion
<1>6. ASSUME NEW t \in tasks, CancelDelete(t) PROVE Kept
  <2> DEFINE u == [t EXCEPT !.step = "enqueue"]
  <2>1. u.id = t.id
    BY <1>0 DEF TypeOK, Tasks
  <2>2. tasks' = (tasks \ {t}) \union {u}
    BY <1>6 DEF CancelDelete
  <2> HIDE DEF u
  <2>3. UNCHANGED deleted /\ t.id \notin deleted
    BY <1>6 DEF CancelDelete, TasksRespectDeletion
  <2> QED
    BY <2>1, <2>2, <2>3 DEF OneTaskPerRecord, TasksRespectDeletion
<1>7. ASSUME NEW t \in tasks, DeleteGrc(t) PROVE Kept
  <2>1. \A u \in tasks' : u \in tasks /\ u.id # t.id
    BY <1>7 DEF DeleteGrc, OneTaskPerRecord
  <2> QED
    BY <1>7, <2>1 DEF DeleteGrc, OneTaskPerRecord, TasksRespectDeletion
<1>8. ASSUME NEW t \in tasks, EnqueueUpload(t) \/ TaskFails(t) PROVE Kept
  BY <1>8 DEF EnqueueUpload, TaskFails, OneTaskPerRecord, TasksRespectDeletion
<1>9. CASE JobStep \/ EnvironmentStep
  BY <1>0, <1>9, OthersAddNoTombstone DEF OneTaskPerRecord, TasksRespectDeletion
<1>10. CASE UNCHANGED vars
  BY <1>0, <1>10 DEF vars, OneTaskPerRecord, TasksRespectDeletion
<1> QED
  BY <1>0, <1>1, <1>2, <1>3, <1>4, <1>5, <1>6, <1>7, <1>8, <1>9, <1>10
  DEF Next, UserStep

LEMMA TaskInit == Init => TaskInv
  BY TypeInit DEF Init, TaskInv, OneTaskPerRecord, TasksRespectDeletion

\* No command then goes on with a record deleted since it began.
LEMMA NoneLate ==
  ASSUME TaskInv
  PROVE  ~LateStep
  BY DEF TaskInv, TasksRespectDeletion, LateStep, Upsert, CancelDelete,
         EnqueueUpload

LEMMA NothingLate ==
  ASSUME Overlap = FALSE
  PROVE  Spec => []TaskInv
<1>1. Init => TaskInv
  BY TaskInit
<1>2. TaskInv /\ [Next]_vars => TaskInv'
  BY TaskStep
<1> QED
  BY <1>1, <1>2, PTL DEF Spec

\* A step that moves none of the variables is not a late one.
LEMMA LateChanges ==
  ASSUME TypeOK, UNCHANGED vars
  PROVE  ~LateStep
<1>1. nextId' = nextId /\ nextId \in Nat /\ tasks' = tasks /\ tasks \subseteq Tasks
  BY DEF TypeOK, vars
<1>2. nextId + 1 # nextId
  BY <1>1
<1>3. ASSUME NEW t \in tasks, NEW s \in {"cancel", "enqueue"}, t.step # s,
             tasks' = (tasks \ {t}) \union {[t EXCEPT !.step = s]}
      PROVE  FALSE
  <2>1. [t EXCEPT !.step = s].step = s
    BY <1>1 DEF Tasks
  <2>2. t \notin tasks'
    BY <1>3, <2>1
  <2> QED
    BY <1>1, <2>2
<1>4. ASSUME NEW t \in tasks, Upsert(t), t.op # "restore" PROVE FALSE
  BY <1>3, <1>4 DEF Upsert
<1>5. ASSUME NEW t \in tasks, CancelDelete(t) PROVE FALSE
  BY <1>3, <1>5 DEF CancelDelete
<1> QED
  BY <1>1, <1>2, <1>4, <1>5 DEF LateStep, EnqueueUpload

\* The inductive step: the commands write a record that is not deleted, or end the
\* deletion first, and the downloads look at the queue.
LEMMA DeletionStep ==
  ASSUME DeletionInv, [Next]_vars, ~LateStep
  PROVE  DeletionInv'
<1> USE DEF DeletionInv
<1>0. TypeOK /\ TypeOK' /\ DeletionNotUndone
  BY TypeStep
<1>1. ASSUME NEW i \in Ids, StartSave(i) \/ StartDelete(i) \/ StartRestore(i)
      PROVE  DeletionNotUndone'
  BY <1>0, <1>1 DEF StartSave, StartDelete, StartRestore, DeletionNotUndone, dbVars
<1>2. ASSUME NEW t \in tasks, Upsert(t) PROVE DeletionNotUndone'
  <2>1. t.id \notin deleted' /\ deleted' \subseteq deleted /\ t.id \in Ids
    BY <1>0, <1>2 DEF Upsert, LateStep, TypeOK, Tasks
  <2> QED
    BY <1>0, <1>2, <2>1 DEF Upsert, DeletionNotUndone, TypeOK
<1>3. ASSUME NEW t \in tasks, UpsertFails(t) \/ TaskFails(t)
      PROVE  DeletionNotUndone'
  BY <1>0, <1>3 DEF UpsertFails, TaskFails, DeletionNotUndone, dbVars
<1>4. ASSUME NEW t \in tasks, CancelDelete(t) PROVE DeletionNotUndone'
  <2>1. UNCHANGED <<local, deleted>> /\ queue' \subseteq queue
    BY <1>4 DEF CancelDelete, CancelGrcDelete
  <2> QED
    BY <1>0, <2>1 DEF DeletionNotUndone, HasTombstone
<1>5. ASSUME NEW t \in tasks, EnqueueUpload(t) PROVE DeletionNotUndone'
  BY <1>0, <1>5, EnqueueTombstones DEF EnqueueUpload, NewRow, DeletionNotUndone
<1>6. ASSUME NEW t \in tasks, DeleteGrc(t) PROVE DeletionNotUndone'
  <2>1. t.id \in Ids
    BY <1>0 DEF TypeOK, Tasks
  <2>2. \A i : i # t.id /\ HasTombstone(queue', i) => HasTombstone(queue, i)
    BY <1>6 DEF DeleteGrc, DeleteGrcRows, NewRow, HasTombstone
  <2> QED
    BY <1>0, <1>6, <2>1, <2>2 DEF DeleteGrc, DeletionNotUndone, TypeOK
<1>7. CASE JobStep \/ EnvironmentStep
  <2>1. /\ \A i \in Ids : HasTombstone(queue', i) => HasTombstone(queue, i)
        /\ UNCHANGED deleted
    BY <1>0, <1>7, OthersAddNoTombstone
  <2>2. CASE Reconcile
    BY <1>0, <2>1, <2>2 DEF Reconcile, Taken, DeletionNotUndone, TypeOK
  <2>3. CASE ~Reconcile
    <3>1. UNCHANGED local
      BY <1>7, <2>3 DEF JobStep, EnvironmentStep, BeginHeartbeat, EnforceLimit,
         ReadDeletions, DeletionsDone, SendDelete, DeleteConfirmed,
         DeleteFailed, DeleteUnacknowledged, ReadUploads, SendUploads,
         UploadsConfirmed, UploadsShort, UploadsFailed, Fetch, FetchFails,
         RequeueRead, RequeueOne, RequeueDone, JobFault, BackoffElapses,
         IncidentTried, QueueIncident, RemoteEdit, RemoteDelete, Crash, dbVars
    <3> QED
      BY <1>0, <2>1, <3>1 DEF DeletionNotUndone, TypeOK
  <2> QED
    BY <2>2, <2>3
<1>8. CASE UNCHANGED vars
  BY <1>0, <1>8 DEF vars, DeletionNotUndone
<1> QED
  BY <1>0, <1>1, <1>2, <1>3, <1>4, <1>5, <1>6, <1>7, <1>8 DEF Next, UserStep

\* For every family of records, every answer of the platform, database error,
\* overflow and restart: a record the user deleted is not brought back into the
\* table while its deletion waits, unless a command that began before it goes on
\* with the record after it.
THEOREM DeletionsHoldUnlessLate ==
  Spec /\ [][~LateStep]_vars => []DeletionNotUndone
<1>1. Init => DeletionInv
  BY TypeInit DEF Init, DeletionInv, DeletionNotUndone
<1>2. DeletionInv /\ [Next]_vars /\ [~LateStep]_vars => DeletionInv'
  <2> SUFFICES ASSUME DeletionInv, [Next]_vars, [~LateStep]_vars PROVE DeletionInv'
    OBVIOUS
  <2> QED
    BY DeletionStep, LateChanges DEF DeletionInv
<1>3. DeletionInv => DeletionNotUndone
  BY DEF DeletionInv
<1> QED
  BY <1>1, <1>2, <1>3, PTL DEF Spec

\* No command does when those on one record do not overlap.
THEOREM DeletionsHold ==
  ASSUME Overlap = FALSE
  PROVE  Spec => []DeletionNotUndone
<1>1. TaskInv => ~LateStep
  BY NoneLate
<1> QED
  BY <1>1, NothingLate, DeletionsHoldUnlessLate, PTL

-----------------------------------------------------------------------------
(* A queued deletion leaves the queue for one of two reasons *)

\* The part of RowIdsUnique about a queue q whose next row number is n.
NumberedRows(q, n) ==
  /\ \A r \in q : r.id < n /\ (r.kind = "delete" => r.entity \in Ids)
  /\ \A r, s \in q : r.id = s.id => r = s

\* r is the row s, with more attempts or another retry date.
SameRow(r, s) ==
  /\ s.id = r.id /\ s.entity = r.entity
  /\ s.kind = r.kind /\ s.version = r.version
  /\ s.attempts <= r.attempts

\* Every row of p is a row of q.
FromRows(p, q) == \A r \in p : \E s \in q : SameRow(r, s)

\* An insertion keeps the numbering (enqueue).
LEMMA EnqueueNumbering ==
  ASSUME NEW q, NEW n \in Nat, NumberedRows(q, n), \A r \in q : r.id \in Nat,
         NEW row, row.id = n, row.kind # "delete"
  PROVE  /\ NumberedRows(Enqueue(q, row), n + 1)
         /\ \A r \in Enqueue(q, row) : r \in q \/ r.id = n
  BY EvictionKeepsTombstones DEF NumberedRows, Enqueue

\* A recorded failure keeps the numbering (record_failure).
LEMMA FailureNumbering ==
  ASSUME NEW q \in SUBSET QueueRow, NEW n \in Nat, NumberedRows(q, n), NEW ids
  PROVE  /\ NumberedRows(RecordFailure(q, ids), n)
         /\ FromRows(RecordFailure(q, ids), q)
<1> DEFINE f(r) == IF r.id \in ids /\ ~BackoffOverflows(r) THEN FailedRow(r) ELSE r
<1>1. RecordFailure(q, ids) = {f(r) : r \in q}
  BY DEF RecordFailure
<1>2. \A r \in q : SameRow(f(r), r)
  <2> SUFFICES ASSUME NEW r \in q PROVE SameRow(f(r), r)
    OBVIOUS
  <2>1. r \in QueueRow /\ r.attempts \in Nat
    BY DEF QueueRow
  <2> QED
    BY <2>1, FailedRowFields DEF SameRow
<1> HIDE DEF f
<1>3. FromRows(RecordFailure(q, ids), q)
  BY <1>1, <1>2 DEF FromRows
<1>4. NumberedRows(RecordFailure(q, ids), n)
  BY <1>1, <1>2 DEF NumberedRows, SameRow
<1> QED
  BY <1>3, <1>4

\* What one step does to the rows: each row of the next state was there, or is
\* new and has a new number.
LEMMA QueueStep ==
  ASSUME TypeOK, RowIdsUnique, [Next]_vars
  PROVE  /\ RowIdsUnique'
         /\ nextId' \in {nextId, nextId + 1}
         /\ \A r \in queue' : \/ r.id = nextId /\ nextId' = nextId + 1
                              \/ \E s \in queue : SameRow(r, s)
<1> DEFINE Old(r) == \E s \in queue : SameRow(r, s)
           Goal == /\ RowIdsUnique'
                   /\ nextId' \in {nextId, nextId + 1}
                   /\ \A r \in queue' : \/ r.id = nextId /\ nextId' = nextId + 1
                                        \/ Old(r)
<1>0. /\ nextId \in Nat /\ queue \in SUBSET QueueRow
      /\ \A r \in queue : r.id \in Nat /\ SameRow(r, r)
      /\ NumberedRows(queue, nextId)
  <2>1. \A r \in queue : r.id \in Nat /\ SameRow(r, r)
    BY DEF TypeOK, QueueRow, SameRow
  <2> QED
    BY <2>1 DEF TypeOK, RowIdsUnique, NumberedRows
<1>1. ASSUME NEW row, row.id = nextId, row.kind # "delete",
             queue' = Enqueue(queue, row), nextId' = nextId + 1
      PROVE  Goal
  <2>1. /\ NumberedRows(queue', nextId')
        /\ \A r \in queue' : r \in queue \/ r.id = nextId
    BY <1>0, <1>1, EnqueueNumbering
  <2> QED
    BY <1>0, <1>1, <2>1 DEF NumberedRows, RowIdsUnique
<1>2. ASSUME NEW ids, queue' = RecordFailure(queue, ids), nextId' = nextId
      PROVE  Goal
  <2>1. NumberedRows(queue', nextId') /\ FromRows(queue', queue)
    BY <1>0, <1>2, FailureNumbering
  <2> QED
    BY <1>2, <2>1 DEF NumberedRows, RowIdsUnique, FromRows
<1>3. ASSUME queue' \subseteq queue, nextId' = nextId PROVE Goal
  BY <1>0, <1>3 DEF RowIdsUnique
<1>4. ASSUME NEW t \in tasks, EnqueueUpload(t) PROVE Goal
  BY <1>1, <1>4 DEF EnqueueUpload, NewRow
<1>5. ASSUME NEW t \in tasks, DeleteGrc(t) PROVE Goal
  <2>1. t.id \in Ids
    BY DEF TypeOK, Tasks
  <2>2. \A r \in queue' : r \in queue \/ r = NewRow(nextId, "delete", t.id, 0)
    BY <1>5 DEF DeleteGrc, DeleteGrcRows
  <2>3. nextId' = nextId + 1
    BY <1>5 DEF DeleteGrc
  <2> QED
    BY <1>0, <2>1, <2>2, <2>3 DEF NewRow, RowIdsUnique
<1>6. ASSUME NEW r \in batch, RequeueOne(r) PROVE Goal
  BY <1>1, <1>6 DEF RequeueOne, NewRow
<1>7. ASSUME NEW n \in Incidents, QueueIncident(n) PROVE Goal
  BY <1>1, <1>7 DEF QueueIncident, NewRow
<1>8. ASSUME NEW r \in batch, DeleteFailed(r) PROVE Goal
  BY <1>2, <1>8 DEF DeleteFailed
<1>9. ASSUME UploadsFailed PROVE Goal
  BY <1>2, <1>9 DEF UploadsFailed
<1>10. ASSUME NEW r \in queue, IncidentTried(r) PROVE Goal
  BY <1>2, <1>3, <1>10 DEF IncidentTried, Remove
<1>11. ASSUME NEW r \in queue, BackoffElapses(r) PROVE Goal
  <2> DEFINE s == [r EXCEPT !.retry = "due"]
  <2>1. SameRow(s, r)
    BY <1>0 DEF QueueRow, SameRow
  <2>2. queue' = (queue \ {r}) \union {s} /\ nextId' = nextId
    BY <1>11 DEF BackoffElapses
  <2> HIDE DEF s
  <2>3. \A x \in queue' : Old(x)
    BY <1>0, <2>1, <2>2
  <2>4. RowIdsUnique'
    BY <2>1, <2>2 DEF RowIdsUnique, SameRow
  <2> QED
    BY <2>2, <2>3, <2>4
<1>12. ASSUME EnforceLimit PROVE Goal
  BY <1>3, <1>12, LimitKeepsTombstones DEF EnforceLimit
<1>13. ASSUME UploadsConfirmed PROVE Goal
  BY <1>3, <1>13 DEF UploadsConfirmed, AcknowledgeRows
<1>14. ASSUME NEW r \in batch, DeleteConfirmed(r) PROVE Goal
  BY <1>3, <1>14 DEF DeleteConfirmed, Remove
<1>15. ASSUME NEW t \in tasks, CancelDelete(t) PROVE Goal
  BY <1>3, <1>15 DEF CancelDelete, CancelGrcDelete
<1>16. ASSUME UNCHANGED <<queue, nextId>> PROVE Goal
  BY <1>3, <1>16
<1>17. ASSUME NEW i \in Ids,
              \/ StartSave(i) \/ StartDelete(i) \/ StartRestore(i)
              \/ RemoteEdit(i) \/ RemoteDelete(i)
       PROVE  Goal
  BY <1>16, <1>17 DEF StartSave, StartDelete, StartRestore, RemoteEdit,
                      RemoteDelete, dbVars
<1>18. ASSUME NEW t \in tasks, Upsert(t) \/ UpsertFails(t) \/ TaskFails(t)
       PROVE  Goal
  BY <1>16, <1>18 DEF Upsert, UpsertFails, TaskFails, dbVars
<1>19. ASSUME NEW r \in batch, SendDelete(r) PROVE Goal
  BY <1>16, <1>19 DEF SendDelete, dbVars
<1>20. ASSUME \/ BeginHeartbeat \/ ReadDeletions \/ DeletionsDone
              \/ DeleteUnacknowledged \/ ReadUploads \/ SendUploads \/ UploadsShort
              \/ Fetch \/ FetchFails \/ Reconcile \/ RequeueRead \/ RequeueDone
              \/ JobFault \/ Crash \/ UNCHANGED vars
       PROVE  Goal
  BY <1>16, <1>20 DEF BeginHeartbeat, ReadDeletions, DeletionsDone,
     DeleteUnacknowledged, ReadUploads, SendUploads, UploadsShort, Fetch,
     FetchFails, Reconcile, RequeueRead, RequeueDone, JobFault, Crash, dbVars,
     vars
<1> HIDE DEF Goal
<1>21. UNCHANGED vars \/ Next
  OBVIOUS
<1>22. Goal
  BY <1>4, <1>5, <1>6, <1>7, <1>8, <1>9, <1>10, <1>11, <1>12, <1>13, <1>14,
     <1>15, <1>17, <1>18, <1>19, <1>20, <1>21
  DEF Next, UserStep, JobStep, EnvironmentStep
<1> QED
  BY <1>22 DEF Goal

\* The batch of deletions the job holds stays a reading of the queue.
LEMMA BatchStep ==
  ASSUME TypeOK, RowIdsUnique, DeletionBatch, [Next]_vars
  PROVE  DeletionBatch'
<1> DEFINE Matches(B, q, n) ==
      /\ \A b \in B : /\ b.id < n /\ b.entity \in Ids
                      /\ \A r \in q : r.id = b.id =>
                           r.kind = "delete" /\ r.entity = b.entity
      /\ \A b, c \in B : b.id = c.id => b.entity = c.entity
<1>0. /\ nextId \in Nat /\ nextId' \in {nextId, nextId + 1}
      /\ \A b \in batch : b.id \in Nat
      /\ \A r \in queue' : \/ r.id = nextId
                           \/ \E s \in queue : /\ s.id = r.id /\ s.kind = r.kind
                                               /\ s.entity = r.entity
  BY QueueStep DEF TypeOK, QueueRow, SameRow
<1>1. ASSUME pc \in {"deletions", "deleteReply"}, batch' \subseteq batch
      PROVE  DeletionBatch'
  <2>1. Matches(batch, queue, nextId)
    BY <1>1 DEF DeletionBatch
  <2>2. Matches(batch', queue', nextId')
    BY <1>0, <1>1, <2>1
  <2> QED
    BY <2>2 DEF DeletionBatch
<1>2. ASSUME pc' \notin {"deletions", "deleteReply"} PROVE DeletionBatch'
  BY <1>2 DEF DeletionBatch
<1>3. CASE ReadDeletions
  <2>1. batch' \subseteq queue /\ \A b \in batch' : b.kind = "delete"
    BY <1>3, PendingFromQueue DEF ReadDeletions, Tombstones
  <2>2. UNCHANGED <<queue, nextId>>
    BY <1>3 DEF ReadDeletions, dbVars
  <2>3. Matches(batch', queue', nextId')
    BY <2>1, <2>2 DEF RowIdsUnique
  <2> QED
    BY <2>3 DEF DeletionBatch
<1>4. ASSUME pc' = pc, batch' = batch PROVE DeletionBatch'
  BY <1>1, <1>2, <1>4
<1>5. CASE UserStep \/ EnvironmentStep \/ UNCHANGED vars
  <2>1. (pc' = pc /\ batch' = batch) \/ pc' \in {"startupFetch", "requeueRead"}
    BY <1>5 DEF UserStep, EnvironmentStep, vars, StartSave, StartDelete,
       StartRestore, Upsert, UpsertFails, CancelDelete, EnqueueUpload, DeleteGrc,
       TaskFails, BackoffElapses, IncidentTried, QueueIncident, RemoteEdit,
       RemoteDelete, Crash, jobVars
  <2> QED
    BY <1>2, <1>4, <2>1
<1>6. ASSUME NEW r \in batch, SendDelete(r) \/ DeleteConfirmed(r)
      PROVE  DeletionBatch'
  BY <1>1, <1>6 DEF SendDelete, DeleteConfirmed
<1>7. ASSUME NEW r \in batch, DeleteFailed(r) PROVE DeletionBatch'
  BY <1>2, <1>7 DEF DeleteFailed, AfterDeletions
<1>8. CASE \/ BeginHeartbeat \/ EnforceLimit \/ DeletionsDone
           \/ DeleteUnacknowledged \/ ReadUploads \/ SendUploads
           \/ UploadsConfirmed \/ UploadsShort \/ UploadsFailed
           \/ Fetch \/ FetchFails \/ Reconcile \/ RequeueRead
           \/ RequeueDone \/ (\E r \in batch : RequeueOne(r)) \/ JobFault
  <2>1. pc' \notin {"deletions", "deleteReply"}
    BY <1>8 DEF BeginHeartbeat, EnforceLimit, DeletionsDone,
       DeleteUnacknowledged, ReadUploads, SendUploads, UploadsConfirmed,
       UploadsShort, UploadsFailed, Fetch, FetchFails, Reconcile, RequeueRead,
       RequeueDone, RequeueOne, JobFault, AfterDeletions, AfterUploads,
       AfterDownload, FetchStages
  <2> QED
    BY <1>2, <2>1
<1> QED
  BY <1>3, <1>5, <1>6, <1>7, <1>8 DEF Next, JobStep

\* A deletion the platform answered for is gone there until the job handles the
\* answer: only an upload could create the record again, and the job does the
\* deletions first.
LEMMA GoneStep ==
  ASSUME TypeOK, DeletionBatch, ConfirmedGone, [Next]_vars
  PROVE  ConfirmedGone'
<1>1. ASSUME pc' # "deleteReply" PROVE ConfirmedGone'
  BY <1>1 DEF ConfirmedGone
<1>2. ASSUME pc' = pc, reply' = reply, batch' = batch,
             \A i \in Ids : platform[i] = 0 => platform'[i] = 0
      PROVE  ConfirmedGone'
  BY <1>2 DEF ConfirmedGone, DeletionBatch, IsHead
<1>3. CASE UserStep \/ EnvironmentStep \/ UNCHANGED vars
  <2>1. \/ /\ pc' = pc /\ reply' = reply /\ batch' = batch
           /\ \A i \in Ids : platform[i] = 0 => platform'[i] = 0
        \/ pc' \in {"startupFetch", "requeueRead"}
    <3>1. ASSUME NEW i \in Ids, RemoteEdit(i) \/ RemoteDelete(i)
          PROVE  /\ pc' = pc /\ reply' = reply /\ batch' = batch
                 /\ \A j \in Ids : platform[j] = 0 => platform'[j] = 0
      BY <3>1 DEF RemoteEdit, RemoteDelete, jobVars, TypeOK
    <3>2. CASE Crash
      BY <3>2 DEF Crash
    <3>3. ASSUME NEW i \in Ids, StartSave(i) \/ StartDelete(i) \/ StartRestore(i)
          PROVE  UNCHANGED <<pc, reply, batch, platform>>
      BY <3>3 DEF StartSave, StartDelete, StartRestore, jobVars
    <3>4. ASSUME NEW t \in tasks,
                 \/ Upsert(t) \/ UpsertFails(t) \/ CancelDelete(t)
                 \/ EnqueueUpload(t) \/ DeleteGrc(t) \/ TaskFails(t)
          PROVE  UNCHANGED <<pc, reply, batch, platform>>
      BY <3>4 DEF Upsert, UpsertFails, CancelDelete, EnqueueUpload, DeleteGrc,
                  TaskFails, jobVars
    <3>5. ASSUME NEW r \in queue, BackoffElapses(r) \/ IncidentTried(r)
          PROVE  UNCHANGED <<pc, reply, batch, platform>>
      BY <3>5 DEF BackoffElapses, IncidentTried, jobVars
    <3>6. ASSUME NEW n \in Incidents, QueueIncident(n)
          PROVE  UNCHANGED <<pc, reply, batch, platform>>
      BY <3>6 DEF QueueIncident, jobVars
    <3> QED
      BY <1>3, <3>1, <3>2, <3>3, <3>4, <3>5, <3>6
      DEF UserStep, EnvironmentStep, vars
  <2> QED
    BY <1>1, <1>2, <2>1
<1>4. ASSUME NEW r \in batch, SendDelete(r) PROVE ConfirmedGone'
  <2>1. UNCHANGED batch /\ IsHead(r)
    BY <1>4 DEF SendDelete
  <2>2. \A b \in batch : IsHead(b) => b.entity = r.entity
    BY <1>4, <2>1 DEF SendDelete, IsHead, DeletionBatch, TypeOK, QueueRow
  <2>3. r.entity \in Ids
    BY <1>4 DEF SendDelete, DeletionBatch
  <2>4. reply' \in {"acked", "notFound"} => platform'[r.entity] = 0
    BY <1>4, <2>3 DEF SendDelete, TypeOK
  <2> QED
    BY <2>1, <2>2, <2>4 DEF ConfirmedGone, IsHead
<1>5. ASSUME NEW r \in batch,
             DeleteConfirmed(r) \/ DeleteFailed(r) \/ RequeueOne(r)
      PROVE  ConfirmedGone'
  BY <1>1, <1>5 DEF DeleteConfirmed, DeleteFailed, RequeueOne, AfterDeletions
<1>6. CASE \/ BeginHeartbeat \/ EnforceLimit \/ DeletionsDone \/ ReadDeletions
           \/ DeleteUnacknowledged \/ ReadUploads \/ SendUploads
           \/ UploadsConfirmed \/ UploadsShort \/ UploadsFailed
           \/ Fetch \/ FetchFails \/ Reconcile \/ RequeueRead
           \/ RequeueDone \/ JobFault
  <2>1. pc' # "deleteReply"
    BY <1>6 DEF BeginHeartbeat, EnforceLimit, DeletionsDone, ReadDeletions,
       DeleteUnacknowledged, ReadUploads, SendUploads, UploadsConfirmed,
       UploadsShort, UploadsFailed, Fetch, FetchFails, Reconcile, RequeueRead,
       RequeueDone, JobFault, AfterDeletions, AfterUploads, AfterDownload,
       FetchStages
  <2> QED
    BY <1>1, <2>1
<1> QED
  BY <1>3, <1>4, <1>5, <1>6 DEF Next, JobStep

\* What a step that takes a deletion out of the queue has done: the only two
\* are a confirmed request and the cancellation of a restoration.
LEMMA TombstoneLeaves ==
  ASSUME TombstoneInv, [Next]_vars, ~LateStep, NEW i \in Ids,
         HasTombstone(queue, i), ~HasTombstone(queue', i)
  PROVE  \/ platform[i] = 0 /\ \E r \in batch : DeleteConfirmed(r)
         \/ i \notin deleted
<1> DEFINE Why == \/ platform[i] = 0 /\ \E r \in batch : DeleteConfirmed(r)
                  \/ i \notin deleted
<1> USE DEF TombstoneInv, DeletionInv
<1>0. PICK x \in queue : x.kind = "delete" /\ x.entity = i
  BY DEF HasTombstone
<1>1. ASSUME NEW t \in tasks, CancelDelete(t) PROVE Why
  BY <1>1 DEF CancelDelete, CancelGrcDelete, HasTombstone, LateStep
<1>2. ASSUME NEW r \in batch, DeleteConfirmed(r) PROVE Why
  <2>1. x \notin queue'
    BY <1>0 DEF HasTombstone
  <2>2. x.id = r.id
    BY <1>2, <2>1, <1>0 DEF DeleteConfirmed, Remove
  <2>3. x.entity = r.entity
    BY <1>2, <2>2, <1>0 DEF DeleteConfirmed, DeletionBatch
  <2>4. platform[r.entity] = 0
    BY <1>2 DEF DeleteConfirmed, ConfirmedGone
  <2> QED
    BY <1>0, <1>2, <2>3, <2>4
<1>3. ASSUME NEW t \in tasks, DeleteGrc(t) PROVE FALSE
  <2>1. x \in queue' \/ NewRow(nextId, "delete", i, 0) \in queue'
    BY <1>0, <1>3 DEF DeleteGrc, DeleteGrcRows
  <2> QED
    BY <1>0, <2>1 DEF HasTombstone, NewRow
<1>4. ASSUME NEW r \in queue, IncidentTried(r) PROVE FALSE
  <2>1. r.kind = "incident"
    BY <1>4 DEF IncidentTried, GetPendingFor, FirstRows
  <2>2. CASE queue' = Remove(queue, {r.id})
    BY <1>0, <2>1, <2>2 DEF Remove, RowIdsUnique, HasTombstone
  <2>3. CASE queue' = RecordFailure(queue, {r.id})
    BY <2>3, FailureTombstones DEF TypeOK
  <2> QED
    BY <1>4, <2>2, <2>3 DEF IncidentTried
<1>5. ASSUME NEW r \in queue, BackoffElapses(r) PROVE FALSE
  <2>1. /\ [r EXCEPT !.retry = "due"].kind = r.kind
        /\ [r EXCEPT !.retry = "due"].entity = r.entity
    BY DEF TypeOK, QueueRow
  <2> QED
    BY <1>0, <1>5, <2>1 DEF BackoffElapses, HasTombstone
<1>6. ASSUME NEW t \in tasks, EnqueueUpload(t) PROVE FALSE
  BY <1>6, EnqueueTombstones DEF EnqueueUpload, NewRow
<1>7. ASSUME NEW r \in batch, RequeueOne(r) PROVE FALSE
  BY <1>7, EnqueueTombstones DEF RequeueOne, NewRow
<1>8. ASSUME NEW n \in Incidents, QueueIncident(n) PROVE FALSE
  BY <1>8, EnqueueTombstones DEF QueueIncident, NewRow
<1>9. ASSUME NEW r \in batch, DeleteFailed(r) PROVE FALSE
  BY <1>9, FailureTombstones DEF DeleteFailed, TypeOK
<1>10. ASSUME UploadsFailed PROVE FALSE
  BY <1>10, FailureTombstones DEF UploadsFailed, TypeOK
<1>11. ASSUME UploadsConfirmed PROVE FALSE
  BY <1>0, <1>11 DEF UploadsConfirmed, AcknowledgeRows, HasTombstone
<1>12. ASSUME EnforceLimit PROVE FALSE
  BY <1>12, LimitTombstones DEF EnforceLimit
<1>13. ASSUME UNCHANGED queue PROVE FALSE
  BY <1>13
<1>14. ASSUME NEW j \in Ids,
              \/ StartSave(j) \/ StartDelete(j) \/ StartRestore(j)
              \/ RemoteEdit(j) \/ RemoteDelete(j)
       PROVE  FALSE
  BY <1>13, <1>14 DEF StartSave, StartDelete, StartRestore, RemoteEdit,
                      RemoteDelete, dbVars
<1>15. ASSUME NEW t \in tasks, Upsert(t) \/ UpsertFails(t) \/ TaskFails(t)
       PROVE  FALSE
  BY <1>13, <1>15 DEF Upsert, UpsertFails, TaskFails, dbVars
<1>16. ASSUME NEW r \in batch, SendDelete(r) PROVE FALSE
  BY <1>13, <1>16 DEF SendDelete, dbVars
<1>17. ASSUME \/ BeginHeartbeat \/ ReadDeletions \/ DeletionsDone
              \/ DeleteUnacknowledged \/ ReadUploads \/ SendUploads
              \/ UploadsShort \/ Fetch \/ FetchFails \/ Reconcile
              \/ RequeueRead \/ RequeueDone \/ JobFault \/ Crash
              \/ UNCHANGED vars
       PROVE  FALSE
  BY <1>13, <1>17 DEF BeginHeartbeat, ReadDeletions, DeletionsDone,
     DeleteUnacknowledged, ReadUploads, SendUploads, UploadsShort, Fetch,
     FetchFails, Reconcile, RequeueRead, RequeueDone, JobFault, Crash, dbVars,
     vars
<1>18. UNCHANGED vars \/ Next
  OBVIOUS
<1> QED
  BY <1>1, <1>2, <1>3, <1>4, <1>5, <1>6, <1>7, <1>8, <1>9, <1>10, <1>11, <1>12,
     <1>14, <1>15, <1>16, <1>17, <1>18
  DEF Next, UserStep, JobStep, EnvironmentStep

\* The initial state satisfies the invariant of the deletions.
LEMMA TombstoneInit == Init => TombstoneInv
<1> SUFFICES ASSUME Init PROVE TombstoneInv
  OBVIOUS
<1>1. DeletionInv
  BY TypeInit DEF Init, DeletionInv, DeletionNotUndone
<1> QED
  BY <1>1 DEF Init, TombstoneInv, RowIdsUnique, DeletionBatch, ConfirmedGone

\* Each step keeps it.
LEMMA TombstoneStep ==
  ASSUME TombstoneInv, [Next]_vars, ~LateStep
  PROVE  TombstoneInv'
  BY DeletionStep, QueueStep, BatchStep, GoneStep DEF TombstoneInv, DeletionInv

\* For every capacity of the queue, number of failures and restart: a queued deletion
\* leaves the queue only after the platform said that the record is gone or because
\* the user restored it, unless a restoration that began before the deletion
\* cancels it after.
THEOREM TombstonesKeptUnlessLate ==
  Spec /\ [][~LateStep]_vars => TombstoneKept
<1>1. Init => TombstoneInv
  BY TombstoneInit
<1>2. TombstoneInv /\ [Next]_vars /\ [~LateStep]_vars
        => /\ TombstoneInv'
           /\ [\A i \in Ids : HasTombstone(queue, i) /\ ~HasTombstone(queue', i)
                 => platform[i] = 0 \/ i \notin deleted]_vars
  <2> SUFFICES ASSUME TombstoneInv, [Next]_vars, [~LateStep]_vars
               PROVE  /\ TombstoneInv'
                      /\ \A i \in Ids :
                           HasTombstone(queue, i) /\ ~HasTombstone(queue', i)
                             => platform[i] = 0 \/ i \notin deleted
    OBVIOUS
  <2>1. ~LateStep
    BY LateChanges DEF TombstoneInv, DeletionInv
  <2> QED
    BY <2>1, TombstoneStep, TombstoneLeaves
<1> QED
  BY <1>1, <1>2, PTL DEF Spec, TombstoneKept

\* No command does when those on one record do not overlap.
THEOREM TombstonesKept ==
  ASSUME Overlap = FALSE
  PROVE  Spec => TombstoneKept
<1>1. TaskInv => ~LateStep
  BY NoneLate
<1> QED
  BY <1>1, NothingLate, TombstonesKeptUnlessLate, PTL

-----------------------------------------------------------------------------
(* A deleted record is gone on both sides *)

\* No step writes a deleted record into the table: the tasks of the user leave it
\* alone, and a download that has it was fetched while its deletion waited.
LEMMA StaysOffTable ==
  ASSUME TombstoneInv, [Next]_vars, ~LateStep, NEW i \in deleted, i \in deleted', Gone(i)
  PROVE  local'[i] = 0
<1> USE DEF TombstoneInv, DeletionInv
<1>0. i \in Ids /\ local[i] = 0 /\ local \in [Ids -> Nat]
  BY DEF TypeOK, Gone
<1>1. ASSUME NEW t \in tasks, Upsert(t) PROVE local'[i] = 0
  <2>1. t.id # i
    BY <1>1 DEF Upsert, LateStep
  <2> QED
    BY <1>0, <1>1, <2>1 DEF Upsert
<1>2. ASSUME NEW t \in tasks, DeleteGrc(t) PROVE local'[i] = 0
  BY <1>0, <1>2 DEF DeleteGrc
<1>3. CASE Reconcile
  <2>1. ~Taken(i)
    BY <1>3 DEF Reconcile, Taken, Gone, NothingInFlight
  <2> QED
    BY <1>0, <1>3, <2>1 DEF Reconcile
<1>4. CASE /\ ~Reconcile
           /\ JobStep \/ EnvironmentStep
  <2>1. UNCHANGED local
    BY <1>4 DEF JobStep, EnvironmentStep, BeginHeartbeat, EnforceLimit,
       ReadDeletions, DeletionsDone, SendDelete, DeleteConfirmed,
       DeleteFailed, DeleteUnacknowledged, ReadUploads, SendUploads,
       UploadsConfirmed, UploadsShort, UploadsFailed, Fetch, FetchFails,
       RequeueRead, RequeueOne, RequeueDone, JobFault, BackoffElapses,
       IncidentTried, QueueIncident, RemoteEdit, RemoteDelete, Crash, dbVars
  <2> QED
    BY <1>0, <2>1
<1>5. ASSUME NEW j \in Ids, StartSave(j) \/ StartDelete(j) \/ StartRestore(j)
      PROVE  local'[i] = 0
  BY <1>0, <1>5 DEF StartSave, StartDelete, StartRestore, dbVars
<1>6. ASSUME NEW t \in tasks, \/ UpsertFails(t) \/ CancelDelete(t)
                              \/ EnqueueUpload(t) \/ TaskFails(t)
      PROVE  local'[i] = 0
  BY <1>0, <1>6 DEF UpsertFails, CancelDelete, EnqueueUpload, TaskFails, dbVars
<1>7. CASE UNCHANGED vars
  BY <1>0, <1>7 DEF vars
<1> QED
  BY <1>1, <1>2, <1>3, <1>4, <1>5, <1>6, <1>7 DEF Next, UserStep

\* An insertion queues an upload of no other record than its own.
LEMMA EnqueueUploads ==
  ASSUME NEW q, NEW row, NEW i, row.kind # "upload" \/ row.entity # i,
         HasUpload(Enqueue(q, row), i)
  PROVE  HasUpload(q, i)
  BY EvictionKeepsTombstones DEF HasUpload, Enqueue

LEMMA FailureUploads ==
  ASSUME NEW q \in SUBSET QueueRow, NEW ids, NEW i,
         HasUpload(RecordFailure(q, ids), i)
  PROVE  HasUpload(q, i)
  BY FailedRowFields DEF HasUpload, RecordFailure

\* No step queues an upload of a deleted record, the requeue of it apart.
LEMMA StaysOffQueue ==
  ASSUME TombstoneInv, [Next]_vars, ~LateStep, NEW i \in deleted,
         HasUpload(queue', i),
         \A r \in batch : RequeueOne(r) => r.entity # i
  PROVE  HasUpload(queue, i)
<1> USE DEF TombstoneInv, DeletionInv
<1> DEFINE Was == HasUpload(queue, i)
<1>1. ASSUME NEW t \in tasks, EnqueueUpload(t) PROVE Was
  <2>1. t.id # i
    BY <1>1 DEF EnqueueUpload, LateStep
  <2>2. NewRow(nextId, "upload", t.id, t.version).entity # i
    BY <2>1 DEF NewRow
  <2> QED
    BY <1>1, <2>2, EnqueueUploads DEF EnqueueUpload
<1>2. ASSUME NEW t \in tasks, DeleteGrc(t) PROVE Was
  BY <1>2 DEF DeleteGrc, DeleteGrcRows, NewRow, HasUpload
<1>3. ASSUME NEW n \in Incidents, QueueIncident(n) PROVE Was
  <2>1. NewRow(nextId, "incident", n, 0).kind # "upload"
    BY DEF NewRow
  <2> QED
    BY <1>3, <2>1, EnqueueUploads DEF QueueIncident
<1>4. ASSUME queue' \subseteq queue PROVE Was
  BY <1>4 DEF HasUpload
<1>5. ASSUME NEW ids, queue' = RecordFailure(queue, ids) PROVE Was
  BY <1>5, FailureUploads DEF TypeOK
<1>6. ASSUME NEW t \in tasks, \/ Upsert(t) \/ UpsertFails(t) \/ CancelDelete(t)
                              \/ TaskFails(t)
      PROVE  Was
  BY <1>4, <1>6 DEF Upsert, UpsertFails, CancelDelete, CancelGrcDelete,
                    TaskFails, dbVars
<1>7. ASSUME NEW j \in Ids, \/ StartSave(j) \/ StartDelete(j) \/ StartRestore(j)
                            \/ RemoteEdit(j) \/ RemoteDelete(j)
      PROVE  Was
  BY <1>4, <1>7 DEF StartSave, StartDelete, StartRestore, RemoteEdit,
                    RemoteDelete, dbVars
<1>8. ASSUME NEW r \in batch, SendDelete(r) \/ DeleteConfirmed(r) PROVE Was
  BY <1>4, <1>8 DEF SendDelete, DeleteConfirmed, Remove, dbVars
<1>9. ASSUME NEW r \in batch, DeleteFailed(r) PROVE Was
  BY <1>5, <1>9 DEF DeleteFailed
<1>10. ASSUME UploadsFailed PROVE Was
  BY <1>5, <1>10 DEF UploadsFailed
<1>11. ASSUME NEW r \in queue, IncidentTried(r) PROVE Was
  BY <1>4, <1>5, <1>11 DEF IncidentTried, Remove
<1>12. ASSUME NEW r \in queue, BackoffElapses(r) PROVE Was
  <2>1. /\ [r EXCEPT !.retry = "due"].kind = r.kind
        /\ [r EXCEPT !.retry = "due"].entity = r.entity
    BY DEF TypeOK, QueueRow
  <2> QED
    BY <1>12, <2>1 DEF BackoffElapses, HasUpload
<1>13. ASSUME EnforceLimit PROVE Was
  BY <1>4, <1>13, LimitKeepsTombstones DEF EnforceLimit
<1>14. ASSUME UploadsConfirmed PROVE Was
  BY <1>4, <1>14 DEF UploadsConfirmed, AcknowledgeRows
<1>15. ASSUME NEW r \in batch, RequeueOne(r) PROVE Was
  <2>1. NewRow(nextId, "upload", r.entity, r.version).entity # i
    BY <1>15 DEF NewRow
  <2> QED
    BY <1>15, <2>1, EnqueueUploads DEF RequeueOne
<1>16. ASSUME \/ BeginHeartbeat \/ ReadDeletions \/ DeletionsDone
              \/ DeleteUnacknowledged \/ ReadUploads \/ SendUploads
              \/ UploadsShort \/ Fetch \/ FetchFails \/ Reconcile
              \/ RequeueRead \/ RequeueDone \/ JobFault \/ Crash
              \/ UNCHANGED vars
       PROVE  Was
  <2>1. UNCHANGED queue
    BY <1>16 DEF BeginHeartbeat, ReadDeletions, DeletionsDone,
       DeleteUnacknowledged, ReadUploads, SendUploads, UploadsShort, Fetch,
       FetchFails, Reconcile, RequeueRead, RequeueDone, JobFault, Crash, dbVars,
       vars
  <2> QED
    BY <1>4, <2>1
<1> HIDE DEF Was
<1>17. Was
  BY <1>1, <1>2, <1>3, <1>6, <1>7, <1>8, <1>9, <1>10, <1>11, <1>12, <1>13,
     <1>14, <1>15, <1>16 DEF Next, UserStep, JobStep, EnvironmentStep
<1> QED
  BY <1>17 DEF Was

\* Where no deletion waits, the platform does not get a deleted record back and
\* the job takes nothing of it in hand.
LEMMA StaysOffPlatform ==
  ASSUME TombstoneInv, [Next]_vars, NEW i \in deleted, ~HasUpload(queue, i),
         platform[i] = 0, NothingInFlight(i)
  PROVE  platform'[i] = 0 /\ NothingInFlight(i)'
<1> USE DEF TombstoneInv, DeletionInv
<1> DEFINE Stays == platform'[i] = 0 /\ NothingInFlight(i)'
<1>0. i \in Ids /\ platform \in [Ids -> Nat]
  BY DEF TypeOK
<1>1. ASSUME UNCHANGED <<platform, pc, batch, download>> PROVE Stays
  BY <1>1 DEF NothingInFlight
<1>2. ASSUME UNCHANGED platform, pc' \notin ReconcileStages, pc' # "uploads"
      PROVE  Stays
  BY <1>2 DEF NothingInFlight
<1>3. CASE SendUploads
  <2>1. \A taken \in SUBSET batch : Stored(taken)[i] = platform[i]
    <3>1. \A taken \in SUBSET batch : Youngest(taken, i) = {}
      BY <1>3 DEF SendUploads, NothingInFlight, Youngest
    <3> QED
      BY <1>0, <3>1 DEF Stored
  <2>2. platform'[i] = 0
    BY <1>3, <2>1 DEF SendUploads
  <2> QED
    BY <1>3, <2>2 DEF SendUploads, NothingInFlight, ReconcileStages
<1>4. CASE ReadUploads
  <2>1. \A b \in GetPendingFor(queue, "upload") : b \in queue /\ b.kind = "upload"
    BY DEF GetPendingFor, FirstRows, Due
  <2>2. \A b \in batch' : b.entity # i
    BY <1>4, <2>1 DEF ReadUploads, HasUpload
  <2>3. UNCHANGED platform /\ pc' \notin ReconcileStages
    BY <1>4 DEF ReadUploads, AfterUploads, ReconcileStages
  <2> QED
    BY <2>2, <2>3 DEF NothingInFlight
<1>5. CASE Fetch
  BY <1>5 DEF Fetch, FetchStages, NothingInFlight
<1>6. ASSUME NEW r \in batch, SendDelete(r) PROVE Stays
  <2>1. platform'[i] = 0
    BY <1>0, <1>6 DEF SendDelete
  <2> QED
    BY <1>6, <2>1 DEF SendDelete, NothingInFlight, ReconcileStages
<1>7. ASSUME NEW j \in Ids, RemoteEdit(j) \/ RemoteDelete(j) PROVE Stays
  <2>1. platform'[i] = 0
    BY <1>0, <1>7 DEF RemoteEdit, RemoteDelete
  <2> QED
    BY <1>7, <2>1 DEF RemoteEdit, RemoteDelete, jobVars, NothingInFlight
<1>8. ASSUME NEW r \in batch, DeleteConfirmed(r) \/ DeleteFailed(r) PROVE Stays
  BY <1>2, <1>8 DEF DeleteConfirmed, DeleteFailed, AfterDeletions, ReconcileStages
<1>9. ASSUME NEW r \in batch, RequeueOne(r) PROVE Stays
  BY <1>2, <1>9 DEF RequeueOne, ReconcileStages
<1>10. ASSUME \/ BeginHeartbeat \/ EnforceLimit \/ ReadDeletions \/ DeletionsDone
              \/ DeleteUnacknowledged \/ UploadsConfirmed \/ UploadsShort
              \/ UploadsFailed \/ FetchFails \/ Reconcile \/ RequeueRead
              \/ RequeueDone \/ JobFault \/ Crash
       PROVE  Stays
  <2>1. UNCHANGED platform /\ pc' \notin ReconcileStages /\ pc' # "uploads"
    BY <1>10 DEF BeginHeartbeat, EnforceLimit, ReadDeletions, DeletionsDone,
       DeleteUnacknowledged, UploadsConfirmed, UploadsShort, UploadsFailed,
       FetchFails, Reconcile, RequeueRead, RequeueDone, JobFault, Crash,
       AfterDeletions, AfterUploads, AfterDownload, ReconcileStages
  <2> QED
    BY <1>2, <2>1
<1>11. ASSUME NEW j \in Ids, StartSave(j) \/ StartDelete(j) \/ StartRestore(j)
       PROVE  Stays
  BY <1>1, <1>11 DEF StartSave, StartDelete, StartRestore, jobVars
<1>12. ASSUME NEW t \in tasks,
              \/ Upsert(t) \/ UpsertFails(t) \/ CancelDelete(t)
              \/ EnqueueUpload(t) \/ DeleteGrc(t) \/ TaskFails(t)
       PROVE  Stays
  BY <1>1, <1>12 DEF Upsert, UpsertFails, CancelDelete, EnqueueUpload,
                     DeleteGrc, TaskFails, jobVars
<1>13. ASSUME NEW r \in queue, BackoffElapses(r) \/ IncidentTried(r) PROVE Stays
  BY <1>1, <1>13 DEF BackoffElapses, IncidentTried, jobVars
<1>14. ASSUME NEW n \in Incidents, QueueIncident(n) PROVE Stays
  BY <1>1, <1>14 DEF QueueIncident, jobVars
<1>15. CASE UNCHANGED vars
  BY <1>1, <1>15 DEF vars
<1> HIDE DEF Stays
<1>16. Stays
  BY <1>3, <1>4, <1>5, <1>6, <1>7, <1>8, <1>9, <1>10, <1>11, <1>12, <1>13,
     <1>14, <1>15 DEF Next, UserStep, JobStep, EnvironmentStep, Stays
<1> QED
  BY <1>16 DEF Stays

\* What the deletion itself leaves behind.
LEMMA DeletionLeavesGone ==
  ASSUME TypeOK, NEW t \in tasks, DeleteGrc(t)
  PROVE  Gone(t.id)'
<1>1. t.id \in Ids
  BY DEF TypeOK, Tasks
<1>2. local'[t.id] = 0
  BY <1>1 DEF DeleteGrc, TypeOK
<1>3. ~HasUpload(queue', t.id)
  BY DEF DeleteGrc, DeleteGrcRows, NewRow, HasUpload
<1>4. HasTombstone(queue', t.id)
  <2>1. NewRow(nextId, "delete", t.id, 0) \in queue'
    BY DEF DeleteGrc, DeleteGrcRows
  <2> QED
    BY <2>1 DEF NewRow, HasTombstone
<1> QED
  BY <1>2, <1>3, <1>4 DEF Gone

\* Only a deletion adds to what was deleted.
LEMMA DeletedBy ==
  ASSUME TypeOK, [Next]_vars, NEW i \in deleted', i \notin deleted
  PROVE  \E t \in tasks : DeleteGrc(t) /\ t.id = i
<1>1. CASE JobStep \/ EnvironmentStep
  BY <1>1, OthersAddNoTombstone
<1>2. CASE UserStep
  BY <1>2 DEF UserStep, StartSave, StartDelete, StartRestore, Upsert,
     UpsertFails, CancelDelete, EnqueueUpload, DeleteGrc, TaskFails
<1> QED
  BY <1>1, <1>2 DEF Next, vars

\* What the job reads to queue again is in the table.
LEMMA RequeuesRecordsStep ==
  ASSUME TypeOK, RequeuesRecords, [Next]_vars
  PROVE  RequeuesRecords'
<1>1. CASE UNCHANGED <<pc, batch>>
  BY <1>1 DEF RequeuesRecords
<1>2. CASE pc' # "requeue"
  BY <1>2 DEF RequeuesRecords
<1>3. ASSUME RequeueRead, pc' = "requeue" PROVE RequeuesRecords'
  <2>1. batch' = {NewRow(0, "upload", i, local[i]) :
                    i \in {j \in Ids : local[j] # 0 /\ j \notin synced}}
    BY <1>3 DEF RequeueRead
  <2> QED
    BY <2>1 DEF NewRow, RequeuesRecords
<1>4. ASSUME pc = "requeue", batch' \subseteq batch PROVE RequeuesRecords'
  BY <1>4 DEF RequeuesRecords
<1>5. CASE JobFault
  BY <1>2, <1>4, <1>5 DEF JobFault, AfterDeletions, AfterUploads, AfterDownload
<1>6. ASSUME NEW r \in batch, RequeueOne(r) PROVE RequeuesRecords'
  BY <1>4, <1>6 DEF RequeueOne
<1>7. CASE UserStep
  BY <1>1, <1>7 DEF UserStep, jobVars, StartSave, StartDelete, StartRestore,
     Upsert, UpsertFails, CancelDelete, EnqueueUpload, DeleteGrc, TaskFails
<1>8. CASE EnvironmentStep
  BY <1>1, <1>2, <1>8 DEF EnvironmentStep, jobVars, BackoffElapses,
     IncidentTried, QueueIncident, RemoteEdit, RemoteDelete, Crash
<1>9. ASSUME \/ BeginHeartbeat \/ EnforceLimit \/ ReadDeletions \/ DeletionsDone
             \/ DeleteUnacknowledged \/ ReadUploads \/ SendUploads
             \/ UploadsConfirmed \/ UploadsShort \/ UploadsFailed \/ Fetch
             \/ FetchFails \/ Reconcile \/ RequeueDone
             \/ \E r \in batch : SendDelete(r) \/ DeleteConfirmed(r)
                                  \/ DeleteFailed(r)
      PROVE  pc' # "requeue"
  BY <1>9 DEF BeginHeartbeat, EnforceLimit, ReadDeletions, DeletionsDone,
     DeleteUnacknowledged, ReadUploads, SendUploads, UploadsConfirmed,
     UploadsShort, UploadsFailed, Fetch, FetchFails, Reconcile, RequeueDone,
     SendDelete, DeleteConfirmed, DeleteFailed, AfterDeletions, AfterUploads,
     AfterDownload, FetchStages
<1> QED
  BY <1>1, <1>2, <1>3, <1>5, <1>6, <1>7, <1>8, <1>9 DEF Next, JobStep, vars

LEMMA GoneInvStep ==
  ASSUME GoneInv, [Next]_vars, ~LateStep, ~StaleRequeue
  PROVE  GoneInv'
<1>0. TombstoneInv /\ TombstoneInv' /\ TypeOK
  BY TombstoneStep DEF GoneInv, TombstoneInv, DeletionInv
<1>1. RequeuesRecords'
  BY <1>0, RequeuesRecordsStep DEF GoneInv
<1>2. ASSUME NEW i \in deleted' PROVE Gone(i)'
  <2>1. CASE i \notin deleted
    <3>1. PICK t \in tasks : DeleteGrc(t) /\ t.id = i
      BY <1>0, <2>1, DeletedBy
    <3> QED
      BY <1>0, <3>1, DeletionLeavesGone
  <2>2. CASE i \in deleted
    <3>1. Gone(i) /\ i \in Ids
      BY <1>0, <2>2 DEF GoneInv, TypeOK
    <3>2. local'[i] = 0
      BY <1>0, <1>2, <2>2, <3>1, StaysOffTable
    <3>3. ~HasUpload(queue', i)
      <4>1. ASSUME NEW r \in batch, RequeueOne(r) PROVE r.entity # i
        <5>1. local[r.entity] = r.version
          BY <4>1 DEF StaleRequeue
        <5>2. r.version # 0
          BY <4>1 DEF RequeueOne, RequeuesRecords, GoneInv
        <5> QED
          BY <3>1, <5>1, <5>2 DEF Gone
      <4> QED
        BY <1>0, <2>2, <3>1, <4>1, StaysOffQueue DEF Gone
    <3>4. CASE HasTombstone(queue', i)
      BY <3>2, <3>3, <3>4 DEF Gone
    <3>5. CASE ~HasTombstone(queue, i)
      <4>1. platform'[i] = 0 /\ NothingInFlight(i)'
        BY <1>0, <2>2, <3>1, <3>5, StaysOffPlatform DEF Gone
      <4> QED
        BY <3>2, <3>3, <4>1 DEF Gone
    <3>6. CASE HasTombstone(queue, i) /\ ~HasTombstone(queue', i)
      <4>1. platform[i] = 0 /\ \E r \in batch : DeleteConfirmed(r)
        BY <1>0, <2>2, <3>1, <3>6, TombstoneLeaves
      <4>2. platform'[i] = 0 /\ NothingInFlight(i)'
        BY <4>1 DEF DeleteConfirmed, NothingInFlight, ReconcileStages
      <4> QED
        BY <3>2, <3>3, <4>2 DEF Gone
    <3> QED
      BY <3>4, <3>5, <3>6
  <2> QED
    BY <2>1, <2>2
<1> QED
  BY <1>0, <1>1, <1>2 DEF GoneInv

\* A step that moves none of the variables requeues nothing.
LEMMA RequeueChanges ==
  ASSUME TypeOK, UNCHANGED vars
  PROVE  ~StaleRequeue
<1>1. nextId' = nextId /\ nextId \in Nat
  BY DEF TypeOK, vars
<1>2. nextId + 1 # nextId
  BY <1>1
<1> QED
  BY <1>1, <1>2 DEF StaleRequeue, RequeueOne

LEMMA GoneInvInit ==
  ASSUME Init
  PROVE  GoneInv
<1>1. TombstoneInv
  BY TombstoneInit
<1> QED
  BY <1>1 DEF Init, GoneInv, RequeuesRecords

\* For every family: a record the user deleted is in no table of the endpoint, and
\* either its deletion still waits or the platform does not have it and nothing
\* queued would create it again, unless a command that began before the deletion
\* goes on with the record after it, or the job queues again a record that changed
\* since it read it.
THEOREM DeletedUnlessStale ==
  Spec /\ [][~LateStep /\ ~StaleRequeue]_vars => []DeletedStaysDeleted
<1>1. Init => GoneInv
  BY GoneInvInit
<1>2. GoneInv /\ [Next]_vars /\ [~LateStep /\ ~StaleRequeue]_vars => GoneInv'
  <2> SUFFICES ASSUME GoneInv, [Next]_vars, [~LateStep /\ ~StaleRequeue]_vars
               PROVE  GoneInv'
    OBVIOUS
  <2>1. TypeOK
    BY DEF GoneInv, TombstoneInv, DeletionInv
  <2>2. ~LateStep /\ ~StaleRequeue
    BY <2>1, LateChanges, RequeueChanges
  <2> QED
    BY <2>2, GoneInvStep
<1>3. GoneInv => DeletedStaysDeleted
  BY DEF GoneInv, Gone, DeletedStaysDeleted
<1> QED
  BY <1>1, <1>2, <1>3, PTL DEF Spec

\* A family that is not queued again never enters the requeue.
LEMMA NoRequeueStep ==
  ASSUME Requeued = FALSE, pc # "requeue", [Next]_vars
  PROVE  pc' # "requeue"
BY DEF Next, UserStep, JobStep, EnvironmentStep, vars, jobVars, StartSave,
   StartDelete, StartRestore, Upsert, UpsertFails, CancelDelete,
   EnqueueUpload, DeleteGrc, TaskFails, BeginHeartbeat, EnforceLimit,
   ReadDeletions, DeletionsDone, SendDelete, DeleteConfirmed, DeleteFailed,
   DeleteUnacknowledged, ReadUploads, SendUploads, UploadsConfirmed,
   UploadsShort, UploadsFailed, Fetch, FetchFails, Reconcile, RequeueRead,
   RequeueOne, RequeueDone, JobFault, BackoffElapses, IncidentTried,
   QueueIncident, RemoteEdit, RemoteDelete, Crash, AfterDeletions,
   AfterUploads, AfterDownload, FetchStages

LEMMA NothingRequeued ==
  ASSUME Requeued = FALSE
  PROVE  Spec => [](pc # "requeue")
<1> DEFINE Off == pc # "requeue"
<1>1. Init => Off
  BY DEF Init
<1>2. Off /\ [Next]_vars => Off'
  BY NoRequeueStep
<1> HIDE DEF Off
<1>3. Spec => []Off
  BY <1>1, <1>2, PTL DEF Spec
<1> QED
  BY <1>3 DEF Off

\* For the families that are not queued again (risks, alert rules, webhooks),
\* when the commands on one record do not overlap: a record the user deleted is
\* in no table of the endpoint, and either its deletion still waits or the
\* platform does not have it and nothing queued would create it again.
THEOREM DeletedForGood ==
  ASSUME Overlap = FALSE, Requeued = FALSE
  PROVE  Spec => []DeletedStaysDeleted
<1>1. pc # "requeue" => ~StaleRequeue
  BY DEF StaleRequeue, RequeueOne
<1>2. TaskInv => ~LateStep
  BY NoneLate
<1> QED
  BY <1>1, <1>2, NothingRequeued, NothingLate, DeletedUnlessStale, PTL
=============================================================================
