--------------------------- MODULE GrcEditsProofs ---------------------------
(***************************************************************************)
(* Theorems about the edits of the records of GrcSync: what becomes of a   *)
(* record that was saved, in the table, in the queue and on the platform.  *)
(***************************************************************************)
EXTENDS GrcSyncProofs, FiniteSetTheorems, WellFoundedInduction

USE QueueAssumption, GrcAssumption

-----------------------------------------------------------------------------
(* The batch of uploads *)

\* A non-empty set of natural numbers has a least element.
LEMMA LeastNatural ==
  ASSUME NEW T \in SUBSET Nat, T # {}
  PROVE  \E x \in T : \A y \in T : x <= y
<1> DEFINE R == OpToRel(<, Nat)
<1>1. IsWellFoundedOn(R, Nat)
  BY NatLessThanWellFounded, Zenon
<1>2. \A y, x \in Nat : y < x => <<y, x>> \in R
  BY DEF OpToRel
<1> HIDE DEF R
<1>3. PICK x \in T : \A y \in T : <<y, x>> \notin R
  BY <1>1, WFMin, Zenon
<1>4. \A y \in T : y \in Nat /\ x \in Nat /\ ~(y < x)
  BY <1>2, <1>3
<1>5. \A y \in T : x <= y
  BY <1>4
<1> QED
  BY <1>5

\* Of the rows of a record one is the youngest: the numbers given are bounded.
LEMMA YoungestExists ==
  ASSUME NEW rows, NEW n \in Nat, \A r \in rows : r.id \in Nat /\ r.id < n,
         NEW i, NEW r0 \in rows, r0.entity = i
  PROVE  \E r \in Youngest(rows, i) : r \in rows /\ r.entity = i
<1> DEFINE T == {n - r.id : r \in {s \in rows : s.entity = i}}
<1>1. T \in SUBSET Nat /\ n - r0.id \in T
  OBVIOUS
<1>2. PICK x \in T : \A y \in T : x <= y
  <2> HIDE DEF T
  <2> QED
    BY <1>1, LeastNatural
<1>3. PICK r \in rows : r.entity = i /\ x = n - r.id
  BY <1>2
<1>4. ASSUME NEW s \in rows, s.entity = i PROVE s.id <= r.id
  <2>1. n - r.id <= n - s.id
    BY <1>2, <1>3, <1>4
  <2> QED
    BY <2>1
<1> QED
  BY <1>3, <1>4 DEF Youngest

\* The job reads uploads (get_pending_for).
LEMMA UploadsRead == \A q : GetPendingFor(q, "upload") \subseteq Uploads(q)
  BY DEF GetPendingFor, FirstRows, Due, Uploads

\* The batch of uploads the job holds stays a reading of the queue: rows leave
\* and wait, none changes its record or its version, and no number is used twice.
LEMMA UploadBatchStep ==
  ASSUME TypeOK, RowIdsUnique, UploadBatch, [Next]_vars
  PROVE  UploadBatch'
<1>0. /\ nextId \in Nat /\ nextId' \in {nextId, nextId + 1}
      /\ \A b \in batch : b.id \in Nat
      /\ \A r \in queue' : \/ r.id = nextId
                           \/ \E s \in queue : SameRow(r, s)
  BY QueueStep DEF TypeOK, QueueRow
<1>1. ASSUME pc \in {"uploads", "uploadReply"}, batch' \subseteq batch
      PROVE  UploadBatch'
  <2>1. \A b \in batch :
          /\ b.kind = "upload" /\ b.id < nextId
          /\ \A r \in queue : r.id = b.id =>
               r.kind = "upload" /\ r.entity = b.entity /\ r.version = b.version
    BY <1>1 DEF UploadBatch
  <2>2. ASSUME NEW b \in batch'
        PROVE  /\ b.kind = "upload" /\ b.id < nextId'
               /\ \A r \in queue' : r.id = b.id =>
                    r.kind = "upload" /\ r.entity = b.entity /\ r.version = b.version
    BY <1>0, <1>1, <2>1, <2>2 DEF SameRow
  <2> QED
    BY <2>2 DEF UploadBatch
<1>2. ASSUME pc' \notin {"uploads", "uploadReply"} PROVE UploadBatch'
  BY <1>2 DEF UploadBatch
<1>3. CASE ReadUploads
  <2>1. /\ batch' \subseteq Uploads(queue)
        /\ UNCHANGED <<queue, nextId>>
    BY <1>3, UploadsRead DEF ReadUploads, dbVars
  <2> QED
    BY <2>1 DEF UploadBatch, RowIdsUnique, Uploads
<1>4. ASSUME pc' = pc, batch' = batch PROVE UploadBatch'
  BY <1>1, <1>2, <1>4
<1>5. CASE SendUploads
  BY <1>1, <1>5 DEF SendUploads
<1>6. CASE UserStep \/ EnvironmentStep \/ UNCHANGED vars
  <2>1. (pc' = pc /\ batch' = batch) \/ pc' \in {"startupFetch", "requeueRead"}
    BY <1>6 DEF UserStep, EnvironmentStep, vars, StartSave, StartDelete,
       StartRestore, Upsert, UpsertFails, CancelDelete, EnqueueUpload, DeleteGrc,
       TaskFails, BackoffElapses, IncidentTried, QueueIncident, RemoteEdit,
       RemoteDelete, Crash, jobVars
  <2> QED
    BY <1>2, <1>4, <2>1
<1>7. CASE \/ BeginHeartbeat \/ EnforceLimit \/ ReadDeletions \/ DeletionsDone
           \/ (\E r \in batch : SendDelete(r) \/ DeleteConfirmed(r) \/ DeleteFailed(r))
           \/ DeleteUnacknowledged \/ UploadsConfirmed \/ UploadsShort
           \/ Fetch \/ FetchFails \/ Reconcile \/ RequeueRead
           \/ RequeueDone \/ (\E r \in batch : RequeueOne(r)) \/ JobFault
  <2>1. pc' \notin {"uploads", "uploadReply"}
    BY <1>7 DEF BeginHeartbeat, EnforceLimit, ReadDeletions, DeletionsDone,
       SendDelete, DeleteConfirmed, DeleteFailed,
       DeleteUnacknowledged, UploadsConfirmed, UploadsShort,
       Fetch, FetchFails, Reconcile, RequeueRead, RequeueDone, RequeueOne,
       JobFault, AfterDeletions, AfterUploads, AfterDownload, FetchStages,
       ReconcileStages
  <2> QED
    BY <1>2, <2>1
<1>8. CASE UploadsFailed
  BY <1>1, <1>8 DEF UploadsFailed
<1> QED
  BY <1>3, <1>5, <1>6, <1>7, <1>8 DEF Next, JobStep

\* Where an upload of the next state comes from: it was queued, or a task or the
\* requeue of an unsynced record queues it now.
LEMMA UploadRows ==
  ASSUME TypeOK, RowIdsUnique, [Next]_vars, NEW r \in Uploads(queue')
  PROVE  \/ \E s \in Uploads(queue) : SameRow(r, s)
         \/ \E t \in tasks : /\ EnqueueUpload(t)
                             /\ r = NewRow(nextId, "upload", t.id, t.version)
         \/ \E b \in batch : /\ RequeueOne(b)
                             /\ r = NewRow(nextId, "upload", b.entity, b.version)
<1> DEFINE Goal ==
         \/ \E s \in Uploads(queue) : SameRow(r, s)
         \/ \E t \in tasks : /\ EnqueueUpload(t)
                             /\ r = NewRow(nextId, "upload", t.id, t.version)
         \/ \E b \in batch : /\ RequeueOne(b)
                             /\ r = NewRow(nextId, "upload", b.entity, b.version)
<1>0. /\ nextId \in Nat /\ r \in queue' /\ r.kind = "upload"
      /\ \A s \in queue : SameRow(s, s)
  BY DEF TypeOK, Uploads, QueueRow, SameRow
<1>1. (r.id = nextId /\ nextId' = nextId + 1) \/ \E s \in queue : SameRow(r, s)
  BY <1>0, QueueStep
<1>2. ASSUME NEW s \in queue, SameRow(r, s) PROVE Goal
  BY <1>0, <1>2 DEF SameRow, Uploads
<1>3. ASSUME NEW row, queue' = Enqueue(queue, row) PROVE r = row \/ r \in queue
  BY <1>0, <1>3, EvictionKeepsTombstones DEF Enqueue
<1>4. ASSUME NEW t \in tasks, EnqueueUpload(t) PROVE Goal
  BY <1>0, <1>2, <1>3, <1>4 DEF EnqueueUpload
<1>5. ASSUME NEW b \in batch, RequeueOne(b) PROVE Goal
  BY <1>0, <1>2, <1>3, <1>5 DEF RequeueOne
<1>6. ASSUME NEW n \in Incidents, QueueIncident(n) PROVE Goal
  BY <1>0, <1>2, <1>3, <1>6 DEF QueueIncident, NewRow
<1>7. ASSUME NEW t \in tasks, DeleteGrc(t) PROVE Goal
  BY <1>0, <1>2, <1>7 DEF DeleteGrc, DeleteGrcRows, NewRow
<1>8. ASSUME nextId' = nextId PROVE Goal
  BY <1>0, <1>1, <1>2, <1>8
<1>9. ASSUME NEW i \in Ids, \/ StartSave(i) \/ StartDelete(i) \/ StartRestore(i)
                            \/ RemoteEdit(i) \/ RemoteDelete(i)
      PROVE  Goal
  BY <1>8, <1>9 DEF StartSave, StartDelete, StartRestore, RemoteEdit,
                    RemoteDelete, dbVars
<1>10. ASSUME NEW t \in tasks, \/ Upsert(t) \/ UpsertFails(t) \/ CancelDelete(t)
                               \/ TaskFails(t)
       PROVE  Goal
  BY <1>8, <1>10 DEF Upsert, UpsertFails, CancelDelete, TaskFails, dbVars
<1>11. ASSUME NEW x, BackoffElapses(x) \/ IncidentTried(x) \/ SendDelete(x)
                      \/ DeleteConfirmed(x) \/ DeleteFailed(x)
       PROVE  Goal
  BY <1>8, <1>11 DEF BackoffElapses, IncidentTried, SendDelete, DeleteConfirmed,
                     DeleteFailed, dbVars
<1>12. ASSUME \/ BeginHeartbeat \/ EnforceLimit \/ ReadDeletions \/ DeletionsDone
              \/ DeleteUnacknowledged \/ ReadUploads \/ SendUploads
              \/ UploadsConfirmed \/ UploadsShort \/ UploadsFailed
              \/ Fetch \/ FetchFails \/ Reconcile \/ RequeueRead
              \/ RequeueDone \/ JobFault \/ Crash \/ UNCHANGED vars
       PROVE  Goal
  BY <1>8, <1>12 DEF BeginHeartbeat, EnforceLimit, ReadDeletions, DeletionsDone,
     DeleteUnacknowledged, ReadUploads, SendUploads, UploadsConfirmed,
     UploadsShort, UploadsFailed, Fetch, FetchFails, Reconcile, RequeueRead,
     RequeueDone, JobFault, Crash, dbVars, vars
<1> HIDE DEF Goal
<1>13. UNCHANGED vars \/ Next
  OBVIOUS
<1>14. Goal
  BY <1>4, <1>5, <1>6, <1>7, <1>9, <1>10, <1>11, <1>12, <1>13
  DEF Next, UserStep, JobStep, EnvironmentStep
<1> QED
  BY <1>14 DEF Goal

-----------------------------------------------------------------------------
(* A record does not vanish *)

\* Without restorations the queued deletions are those of deleted records, and so
\* are the ones the job sends: a task only writes the two together (delete_grc).
LEMMA DeletedOnlyStep ==
  ASSUME Restorable = FALSE, TypeOK, RowIdsUnique, DeletionsOfDeleted, [Next]_vars
  PROVE  DeletionsOfDeleted'
<1>1. (\A t \in tasks' : t.op # "restore") /\ deleted \subseteq deleted'
  <2>1. CASE JobStep \/ EnvironmentStep
    BY <2>1, OthersAddNoTombstone DEF DeletionsOfDeleted
  <2>2. ASSUME NEW i \in Ids, StartSave(i) \/ StartDelete(i) \/ StartRestore(i)
        PROVE  (\A t \in tasks' : t.op # "restore") /\ deleted \subseteq deleted'
    BY <2>2 DEF StartSave, StartDelete, StartRestore, DeletionsOfDeleted
  <2>3. ASSUME NEW t \in tasks, NEW step
        PROVE  [t EXCEPT !.step = step].op # "restore"
    BY <2>3 DEF DeletionsOfDeleted, TypeOK, Tasks
  <2>4. ASSUME NEW t \in tasks, Upsert(t) \/ UpsertFails(t)
        PROVE  (\A u \in tasks' : u.op # "restore") /\ deleted \subseteq deleted'
    BY <2>3, <2>4 DEF Upsert, UpsertFails, DeletionsOfDeleted
  <2>5. ASSUME NEW t \in tasks, CancelDelete(t)
        PROVE  (\A u \in tasks' : u.op # "restore") /\ deleted \subseteq deleted'
    BY <2>3, <2>5 DEF CancelDelete, DeletionsOfDeleted
  <2>6. ASSUME NEW t \in tasks, EnqueueUpload(t) \/ DeleteGrc(t) \/ TaskFails(t)
        PROVE  (\A u \in tasks' : u.op # "restore") /\ deleted \subseteq deleted'
    BY <2>6 DEF EnqueueUpload, DeleteGrc, TaskFails, DeletionsOfDeleted
  <2>7. CASE UNCHANGED vars
    BY <2>7 DEF vars, DeletionsOfDeleted
  <2> QED
    BY <2>1, <2>2, <2>4, <2>5, <2>6, <2>7 DEF Next, UserStep
<1>2. ASSUME NEW i \in Ids, HasTombstone(queue', i) PROVE i \in deleted'
  <2>1. ASSUME HasTombstone(queue, i) PROVE i \in deleted'
    BY <1>1, <2>1 DEF DeletionsOfDeleted
  <2>2. CASE JobStep \/ EnvironmentStep
    BY <1>2, <2>1, <2>2, OthersAddNoTombstone
  <2>3. ASSUME NEW t \in tasks, DeleteGrc(t) PROVE i \in deleted'
    BY <1>2, <2>1, <2>3 DEF DeleteGrc, DeleteGrcRows, NewRow, HasTombstone
  <2>4. ASSUME NEW t \in tasks, EnqueueUpload(t) PROVE i \in deleted'
    BY <1>2, <2>1, <2>4, EnqueueTombstones DEF EnqueueUpload, NewRow
  <2>5. ASSUME queue' \subseteq queue PROVE i \in deleted'
    BY <1>2, <2>1, <2>5 DEF HasTombstone
  <2>6. ASSUME NEW t \in tasks, \/ Upsert(t) \/ UpsertFails(t) \/ CancelDelete(t)
                                \/ TaskFails(t)
        PROVE  i \in deleted'
    BY <2>5, <2>6 DEF Upsert, UpsertFails, CancelDelete, CancelGrcDelete,
                      TaskFails, dbVars
  <2>7. ASSUME NEW j \in Ids, StartSave(j) \/ StartDelete(j) \/ StartRestore(j)
        PROVE  i \in deleted'
    BY <2>5, <2>7 DEF StartSave, StartDelete, StartRestore, dbVars
  <2>8. CASE UNCHANGED vars
    BY <2>5, <2>8 DEF vars
  <2> QED
    BY <2>2, <2>3, <2>4, <2>6, <2>7, <2>8 DEF Next, UserStep
<1> DEFINE OfDeleted == pc' \in {"deletions", "deleteReply"} =>
                          \A b \in batch' : b.entity \in deleted'
<1>3. ASSUME pc \in {"deletions", "deleteReply"}, batch' \subseteq batch
      PROVE  OfDeleted
  BY <1>1, <1>3 DEF DeletionsOfDeleted
<1>4. ASSUME pc' \notin {"deletions", "deleteReply"} PROVE OfDeleted
  BY <1>4
<1>5. ASSUME ReadDeletions PROVE OfDeleted
  <2>1. batch' \subseteq queue /\ \A b \in batch' : b.kind = "delete"
    BY <1>5, PendingFromQueue DEF ReadDeletions, Tombstones
  <2>2. \A b \in batch' : b.entity \in Ids /\ HasTombstone(queue, b.entity)
    BY <2>1 DEF RowIdsUnique, HasTombstone
  <2> QED
    BY <1>1, <2>2 DEF DeletionsOfDeleted
<1>6. ASSUME NEW r \in batch, SendDelete(r) \/ DeleteConfirmed(r) PROVE OfDeleted
  BY <1>3, <1>6 DEF SendDelete, DeleteConfirmed
<1>7. ASSUME \/ BeginHeartbeat \/ EnforceLimit \/ DeletionsDone
           \/ (\E r \in batch : DeleteFailed(r) \/ RequeueOne(r))
           \/ DeleteUnacknowledged \/ ReadUploads \/ SendUploads
           \/ UploadsConfirmed \/ UploadsShort \/ UploadsFailed
           \/ Fetch \/ FetchFails \/ Reconcile \/ RequeueRead
           \/ RequeueDone \/ JobFault
      PROVE  OfDeleted
  <2>1. pc' \notin {"deletions", "deleteReply"}
    BY <1>7 DEF BeginHeartbeat, EnforceLimit, DeletionsDone, DeleteFailed,
       DeleteUnacknowledged, ReadUploads, SendUploads, UploadsConfirmed,
       UploadsShort, UploadsFailed, Fetch, FetchFails, Reconcile, RequeueRead,
       RequeueDone, RequeueOne, JobFault, AfterDeletions, AfterUploads,
       AfterDownload, FetchStages, ReconcileStages
  <2> QED
    BY <1>4, <2>1
<1>8. ASSUME UserStep \/ EnvironmentStep \/ UNCHANGED vars PROVE OfDeleted
  <2>1. (pc' = pc /\ batch' = batch) \/ pc' \in {"startupFetch", "requeueRead"}
    BY <1>8 DEF UserStep, EnvironmentStep, vars, StartSave, StartDelete,
       StartRestore, Upsert, UpsertFails, CancelDelete, EnqueueUpload, DeleteGrc,
       TaskFails, BackoffElapses, IncidentTried, QueueIncident, RemoteEdit,
       RemoteDelete, Crash, jobVars
  <2> QED
    BY <1>3, <1>4, <2>1
<1> HIDE DEF OfDeleted
<1>9. OfDeleted
  BY <1>5, <1>6, <1>7, <1>8 DEF Next, JobStep
<1> QED
  BY <1>1, <1>2, <1>9 DEF DeletionsOfDeleted, OfDeleted

\* An upload carries the version of an edit, whoever queues it.
LEMMA UploadsCarryStep ==
  ASSUME TypeOK, RowIdsUnique, UploadsCarryEdits, [Next]_vars
  PROVE  UploadsCarryEdits'
<1> DEFINE B == pc' \in {"uploads", "uploadReply", "requeue"} =>
                  \A b \in batch' : b.version # 0
           T == \A t \in tasks' : t.step # "delete" => t.version # 0
<1>1. ASSUME NEW r \in Uploads(queue') PROVE r.version # 0
  <2>1. ASSUME NEW s \in Uploads(queue), SameRow(r, s) PROVE r.version # 0
    BY <2>1 DEF UploadsCarryEdits, SameRow
  <2>2. ASSUME NEW t \in tasks, EnqueueUpload(t),
               r = NewRow(nextId, "upload", t.id, t.version)
        PROVE  r.version # 0
    BY <2>2 DEF UploadsCarryEdits, EnqueueUpload, NewRow
  <2>3. ASSUME NEW b \in batch, RequeueOne(b),
               r = NewRow(nextId, "upload", b.entity, b.version)
        PROVE  r.version # 0
    BY <2>3 DEF UploadsCarryEdits, RequeueOne, NewRow
  <2> QED
    BY <2>1, <2>2, <2>3, UploadRows
<1>2. CASE JobStep \/ EnvironmentStep
  <2>1. T
    BY <1>2, OthersAddNoTombstone DEF UploadsCarryEdits
  <2>2. ASSUME pc \in {"uploads", "uploadReply", "requeue"}, batch' \subseteq batch
        PROVE  B
    BY <2>2 DEF UploadsCarryEdits
  <2>3. ASSUME pc' \notin {"uploads", "uploadReply", "requeue"} PROVE B
    BY <2>3
  <2>4. ASSUME ReadUploads PROVE B
    BY <2>4, UploadsRead DEF ReadUploads, UploadsCarryEdits
  <2>5. ASSUME SendUploads PROVE B
    BY <2>2, <2>5 DEF SendUploads
  <2>6. ASSUME RequeueRead PROVE B
    BY <2>6 DEF RequeueRead, NewRow
  <2>7. ASSUME NEW r \in batch, RequeueOne(r) PROVE B
    BY <2>2, <2>7 DEF RequeueOne
  <2>8. ASSUME JobFault PROVE B
    <3>1. \/ pc \in {"uploads", "uploadReply", "requeue"} /\ batch' \subseteq batch
          \/ pc' \notin {"uploads", "uploadReply", "requeue"}
      BY <2>8 DEF JobFault, AfterDeletions, AfterUploads, AfterDownload,
                  ReconcileStages
    <3> QED
      BY <2>2, <2>3, <3>1
  <2>9. ASSUME \/ BeginHeartbeat \/ EnforceLimit \/ ReadDeletions \/ DeletionsDone
             \/ (\E r \in batch : SendDelete(r) \/ DeleteConfirmed(r) \/ DeleteFailed(r))
             \/ DeleteUnacknowledged \/ UploadsConfirmed \/ UploadsShort
             \/ Fetch \/ FetchFails \/ Reconcile
             \/ RequeueDone \/ Crash
        PROVE  B
    <3>1. pc' \notin {"uploads", "uploadReply", "requeue"}
      BY <2>9 DEF BeginHeartbeat, EnforceLimit, ReadDeletions, DeletionsDone,
         SendDelete, DeleteConfirmed, DeleteFailed, DeleteUnacknowledged,
         UploadsConfirmed, UploadsShort, Fetch, FetchFails,
         Reconcile, RequeueDone, Crash, AfterDeletions, AfterUploads,
         AfterDownload, FetchStages, ReconcileStages
    <3> QED
      BY <2>3, <3>1
  <2>10. ASSUME NEW r \in queue, BackoffElapses(r) \/ IncidentTried(r) PROVE B
    BY <2>10 DEF BackoffElapses, IncidentTried, jobVars, UploadsCarryEdits
  <2>11. ASSUME NEW n \in Incidents, QueueIncident(n) PROVE B
    BY <2>11 DEF QueueIncident, jobVars, UploadsCarryEdits
  <2>12. ASSUME NEW i \in Ids, RemoteEdit(i) \/ RemoteDelete(i) PROVE B
    BY <2>12 DEF RemoteEdit, RemoteDelete, jobVars, UploadsCarryEdits
  <2>13. ASSUME UploadsFailed PROVE B
    BY <2>2, <2>13 DEF UploadsFailed
  <2> HIDE DEF B, T
  <2>14. B
    BY <1>2, <2>4, <2>5, <2>6, <2>7, <2>8, <2>9, <2>10, <2>11, <2>12, <2>13
    DEF JobStep, EnvironmentStep
  <2> QED
    BY <1>1, <2>1, <2>14 DEF UploadsCarryEdits, B, T
<1>3. ASSUME UNCHANGED <<pc, batch>>, T PROVE UploadsCarryEdits'
  BY <1>1, <1>3 DEF UploadsCarryEdits
<1>4. ASSUME NEW i \in Ids, StartSave(i) \/ StartDelete(i) \/ StartRestore(i)
      PROVE  UploadsCarryEdits'
  <2>1. T
    BY <1>4 DEF StartSave, StartDelete, StartRestore, UploadsCarryEdits, TypeOK
  <2> QED
    BY <1>3, <1>4, <2>1 DEF StartSave, StartDelete, StartRestore, jobVars
<1>5. ASSUME NEW t \in tasks, NEW step, t.step # "delete"
      PROVE  [t EXCEPT !.step = step].version # 0
  BY <1>5 DEF UploadsCarryEdits, TypeOK, Tasks
<1>6. ASSUME NEW t \in tasks, \/ Upsert(t) \/ UpsertFails(t) \/ CancelDelete(t)
                              \/ EnqueueUpload(t) \/ DeleteGrc(t) \/ TaskFails(t)
      PROVE  UploadsCarryEdits'
  <2>1. T
    BY <1>5, <1>6 DEF Upsert, UpsertFails, CancelDelete, EnqueueUpload, DeleteGrc,
                      TaskFails, UploadsCarryEdits
  <2> QED
    BY <1>3, <1>6, <2>1 DEF Upsert, UpsertFails, CancelDelete, EnqueueUpload,
                            DeleteGrc, TaskFails, jobVars
<1>7. CASE UNCHANGED vars
  BY <1>3, <1>7 DEF vars, UploadsCarryEdits
<1> QED
  BY <1>2, <1>4, <1>6, <1>7 DEF Next, UserStep

\* What a request leaves on the platform: the version of a row it took, and some
\* version of each record it took a row of.
LEMMA StoredVersions ==
  ASSUME NEW taken, NEW i \in Ids,
         NEW n \in Nat, \A r \in taken : r.id \in Nat /\ r.id < n
  PROVE  /\ \/ Stored(taken)[i] = platform[i]
            \/ \E r \in taken : r.entity = i /\ Stored(taken)[i] = r.version
         /\ \A r \in taken : r.entity = i =>
              \E s \in taken : s.entity = i /\ Stored(taken)[i] = s.version
<1> DEFINE S == Stored(taken)[i]
<1>1. S = IF Youngest(taken, i) = {} THEN platform[i]
          ELSE (CHOOSE r \in Youngest(taken, i) : TRUE).version
  BY DEF Stored
<1>2. ASSUME Youngest(taken, i) # {}
      PROVE  \E r \in taken : r.entity = i /\ S = r.version
  <2> DEFINE y == CHOOSE r \in Youngest(taken, i) : TRUE
  <2>1. y \in Youngest(taken, i)
    BY <1>2
  <2>2. S = y.version
    BY <1>1, <1>2
  <2> HIDE DEF y, S
  <2> QED
    BY <2>1, <2>2 DEF Youngest
<1>3. ASSUME NEW r \in taken, r.entity = i PROVE Youngest(taken, i) # {}
  BY <1>3, YoungestExists
<1> QED
  BY <1>1, <1>2, <1>3

\* A record that was not deleted and that the platform was told of, or told us of,
\* stays on the platform when nobody edits it there.
LEMMA OnBothSidesStep ==
  ASSUME StayInv, [Next]_vars, ~StaleDelete, NEW i \in Ids
  PROVE  OnBothSides(i)'
<1> USE DEF StayInv
<1> SUFFICES ASSUME remote' = 0 PROVE OnBothSides(i)'
  BY DEF OnBothSides
<1>0. /\ i \in Ids
      /\ platform \in [Ids -> Nat] /\ local \in [Ids -> Nat]
      /\ remote \in Nat /\ synced \subseteq Ids
  BY DEF TypeOK
<1> DEFINE
     Known   == i \in synced \ deleted => platform[i] # 0
     InHand  == pc \in ReconcileStages => /\ download[i] # 0 => platform[i] # 0
                                          /\ i \in synced \ deleted => download[i] # 0
     Taken1  == pc = "uploadReply" /\ reply = "full" =>
                  \A b \in batch : b.entity = i => platform[i] # 0
     Known1  == i \in synced' \ deleted' => platform'[i] # 0
<1>1. ASSUME remote = 0 PROVE Known /\ InHand /\ Taken1
  BY <1>0, <1>1 DEF OnBothSides
<1>2. ASSUME remote = 0, Known1, pc' \notin ReconcileStages, pc' # "uploadReply"
      PROVE  OnBothSides(i)'
  BY <1>2 DEF OnBothSides
<1>3. ASSUME remote = 0, UNCHANGED <<platform, synced, deleted>>,
             pc' \notin ReconcileStages, pc' # "uploadReply"
      PROVE  OnBothSides(i)'
  BY <1>1, <1>2, <1>3
<1>4. ASSUME remote = 0, UNCHANGED <<platform, download, pc, batch, reply>>,
             synced' \ deleted' \subseteq synced \ deleted
      PROVE  OnBothSides(i)'
  BY <1>1, <1>4 DEF OnBothSides
<1>5. ASSUME NEW j \in Ids, StartSave(j) \/ StartDelete(j) \/ StartRestore(j)
      PROVE  OnBothSides(i)'
  BY <1>4, <1>5 DEF StartSave, StartDelete, StartRestore, dbVars, jobVars
<1>6. ASSUME NEW t \in tasks, \/ Upsert(t) \/ UpsertFails(t) \/ CancelDelete(t)
                              \/ EnqueueUpload(t) \/ DeleteGrc(t) \/ TaskFails(t)
      PROVE  OnBothSides(i)'
  BY <1>4, <1>6 DEF Upsert, UpsertFails, CancelDelete, EnqueueUpload, DeleteGrc,
                    TaskFails, dbVars, jobVars
<1>7. ASSUME NEW r \in queue, BackoffElapses(r) \/ IncidentTried(r)
      PROVE  OnBothSides(i)'
  BY <1>4, <1>7 DEF BackoffElapses, IncidentTried, jobVars
<1>8. ASSUME NEW n \in Incidents, QueueIncident(n) PROVE OnBothSides(i)'
  BY <1>4, <1>8 DEF QueueIncident, jobVars
<1>9. ASSUME NEW j \in Ids, RemoteEdit(j) \/ RemoteDelete(j) PROVE OnBothSides(i)'
  <2>1. remote' = remote + 1
    BY <1>9 DEF RemoteEdit, RemoteDelete
  <2> QED
    BY <1>0, <2>1
<1>10. CASE Crash
  <2>1. Known1 /\ remote = 0
    BY <1>0, <1>1, <1>10 DEF Crash, dbVars
  <2> QED
    BY <1>2, <1>10, <2>1 DEF Crash, ReconcileStages
<1>11. ASSUME NEW r \in batch, SendDelete(r) PROVE OnBothSides(i)'
  <2>1. r.entity \in deleted
    BY <1>11 DEF StaleDelete
  <2>2. i \notin deleted => platform'[i] = platform[i]
    BY <1>0, <1>11, <2>1 DEF SendDelete
  <2>3. Known1 /\ remote = 0
    BY <1>1, <1>11, <2>2 DEF SendDelete, dbVars
  <2> QED
    BY <1>2, <1>11, <2>3 DEF SendDelete, ReconcileStages
<1>12. CASE SendUploads
  <2>1. PICK taken \in SUBSET batch :
          /\ platform' = Stored(taken)
          /\ reply' = "full" => taken = batch
    BY <1>12 DEF SendUploads
  <2>2. /\ \A b \in batch : b.id \in Nat /\ b.id < nextId /\ b.version # 0
        /\ nextId \in Nat
    BY <1>12 DEF SendUploads, UploadBatch, UploadsCarryEdits, TypeOK, QueueRow
  <2>3. /\ \/ platform'[i] = platform[i]
           \/ \E r \in taken : r.entity = i /\ platform'[i] = r.version
        /\ \A r \in taken : r.entity = i =>
             \E s \in taken : s.entity = i /\ platform'[i] = s.version
    <3>1. nextId \in Nat /\ \A r \in taken : r.id \in Nat /\ r.id < nextId
      BY <2>1, <2>2
    <3> QED
      BY <2>1, <3>1, StoredVersions
  <2>4. platform[i] # 0 => platform'[i] # 0
    BY <2>1, <2>2, <2>3
  <2>5. Known1
    BY <1>1, <1>12, <2>4 DEF SendUploads, dbVars
  <2>6. reply' = "full" => \A b \in batch' : b.entity = i => platform'[i] # 0
    BY <1>12, <2>1, <2>2, <2>3 DEF SendUploads
  <2>7. pc' = "uploadReply"
    BY <1>12 DEF SendUploads
  <2> QED
    BY <2>5, <2>6, <2>7 DEF OnBothSides, ReconcileStages
<1>13. CASE UploadsConfirmed
  <2>1. ASSUME i \in synced', i \notin synced PROVE platform[i] # 0
    <3>1. i \in AcknowledgedIds(queue, RowIds(batch))
      BY <1>13, <2>1 DEF UploadsConfirmed
    <3>2. PICK r \in Uploads(queue) : r.id \in RowIds(batch) /\ r.entity = i
      BY <3>1 DEF AcknowledgedIds
    <3>3. PICK b \in batch : b.id = r.id
      BY <3>2 DEF RowIds
    <3>4. b.entity = i
      BY <1>13, <3>2, <3>3 DEF UploadsConfirmed, UploadBatch, Uploads
    <3> QED
      BY <1>1, <1>13, <3>4 DEF UploadsConfirmed
  <2>2. Known1 /\ remote = 0
    BY <1>1, <1>13, <2>1 DEF UploadsConfirmed
  <2> QED
    BY <1>2, <1>13, <2>2 DEF UploadsConfirmed, AfterUploads, ReconcileStages
<1>14. CASE Fetch
  <2>1. /\ Known1 /\ remote = 0 /\ download' = platform /\ platform' = platform
        /\ i \in synced' \ deleted' => download'[i] # 0
    BY <1>1, <1>14 DEF Fetch, dbVars
  <2>2. pc' # "uploadReply"
    BY <1>14 DEF Fetch, FetchStages
  <2> QED
    BY <2>1, <2>2 DEF OnBothSides
<1>15. CASE Reconcile
  <2>1. i \in synced' => i \in synced \/ download[i] # 0
    BY <1>15 DEF Reconcile, Taken
  <2>2. pc \in ReconcileStages /\ remote = 0 /\ UNCHANGED <<platform, deleted>>
    BY <1>15 DEF Reconcile
  <2>3. i \in synced \ deleted \/ download[i] # 0 => platform[i] # 0
    BY <1>1, <2>2
  <2>4. platform' = platform /\ deleted' = deleted
    BY <2>2
  <2>5. Known1
    BY <2>1, <2>3, <2>4
  <2> QED
    BY <1>2, <1>15, <2>2, <2>5 DEF Reconcile, AfterDownload, ReconcileStages
<1>16. ASSUME NEW r \in batch, DeleteConfirmed(r) \/ DeleteFailed(r) \/ RequeueOne(r)
       PROVE  OnBothSides(i)'
  BY <1>3, <1>16 DEF DeleteConfirmed, DeleteFailed, RequeueOne, AfterDeletions,
                     ReconcileStages
<1>17. CASE \/ BeginHeartbeat \/ EnforceLimit \/ ReadDeletions \/ DeletionsDone
            \/ DeleteUnacknowledged \/ ReadUploads \/ UploadsShort
            \/ FetchFails \/ RequeueRead \/ RequeueDone \/ JobFault
  <2>1. /\ remote = 0 /\ UNCHANGED <<platform, synced, deleted>>
        /\ pc' \notin ReconcileStages /\ pc' # "uploadReply"
    BY <1>17 DEF BeginHeartbeat, EnforceLimit, ReadDeletions, DeletionsDone,
       DeleteUnacknowledged, ReadUploads, UploadsShort, FetchFails,
       RequeueRead, RequeueDone, JobFault, AfterDeletions,
       AfterUploads, AfterDownload, ReconcileStages, dbVars
  <2> QED
    BY <1>3, <2>1
<1>18. CASE UploadsFailed
  <2>1. /\ remote = 0 /\ UNCHANGED <<platform, synced, deleted, download>>
        /\ pc' \notin ReconcileStages
        /\ reply' # "full"
    BY <1>18 DEF UploadsFailed, AfterUploads, ReconcileStages
  <2>2. Known1
    BY <1>1, <2>1
  <2> QED
    BY <2>1, <2>2 DEF OnBothSides
<1>19. CASE UNCHANGED vars
  BY <1>4, <1>19 DEF vars
<1> QED
  BY <1>5, <1>6, <1>7, <1>8, <1>9, <1>10, <1>11, <1>12, <1>13, <1>14, <1>15,
     <1>16, <1>17, <1>18, <1>19 DEF Next, UserStep, JobStep, EnvironmentStep

LEMMA StayInvStep ==
  ASSUME StayInv, [Next]_vars, ~StaleDelete
  PROVE  StayInv'
<1> USE DEF StayInv
<1>1. TypeOK' /\ RowIdsUnique' /\ UploadBatch' /\ UploadsCarryEdits'
  BY TypeStep, QueueStep, UploadBatchStep, UploadsCarryStep
<1>2. \A i \in Ids : OnBothSides(i)'
  BY OnBothSidesStep
<1> QED
  BY <1>1, <1>2

LEMMA StayInvInit == Init => StayInv /\ DeletionsOfDeleted
<1> SUFFICES ASSUME Init PROVE StayInv /\ DeletionsOfDeleted
  OBVIOUS
<1>1. TypeOK
  BY TypeInit
<1> QED
  BY <1>1 DEF Init, StayInv, RowIdsUnique, UploadBatch, DeletionsOfDeleted,
     HasTombstone, UploadsCarryEdits, Uploads, OnBothSides, ReconcileStages

\* A step that moves none of the variables sends nothing.
LEMMA SendingChanges ==
  ASSUME UNCHANGED vars
  PROVE  ~StaleDelete
  BY DEF vars, StaleDelete, SendDelete

\* For every family, overlapping commands, overflows, errors, kills and requeues
\* included: with no edit made on the platform, no download takes a record out of
\* the table that the user did not delete, unless the job sent the deletion of a
\* record that was restored meanwhile.
THEOREM RecordsStayUnlessRestored ==
  Spec /\ [][~StaleDelete]_vars => NothingVanishes
<1>1. Init => StayInv
  BY StayInvInit
<1>2. StayInv /\ [Next]_vars /\ [~StaleDelete]_vars => StayInv'
  BY StayInvStep, SendingChanges
<1>3. StayInv /\ [Next]_vars =>
        [\A i \in Ids : local[i] # 0 /\ local'[i] = 0
            => i \in deleted' \/ remote # 0]_vars
  <2> SUFFICES ASSUME StayInv, [Next]_vars, NEW i \in Ids,
                      local[i] # 0, local'[i] = 0
               PROVE  i \in deleted' \/ remote # 0
    OBVIOUS
  <2> USE DEF StayInv
  <2>0. local \in [Ids -> Nat]
    BY DEF TypeOK
  <2>1. ASSUME NEW t \in tasks, DeleteGrc(t) PROVE i \in deleted'
    BY <2>0, <2>1 DEF DeleteGrc
  <2>2. ASSUME NEW t \in tasks, Upsert(t) PROVE FALSE
    BY <2>0, <2>2 DEF Upsert, UploadsCarryEdits
  <2>3. CASE Reconcile
    <3>1. Dropped(i)
      BY <2>0, <2>3 DEF Reconcile, Taken
    <3>2. pc \in ReconcileStages /\ i \in synced /\ download[i] = 0
      BY <2>3, <3>1 DEF Reconcile, Dropped, Overwritable
    <3>3. i \in deleted \/ remote # 0
      BY <3>2 DEF OnBothSides
    <3> QED
      BY <2>3, <3>3 DEF Reconcile
  <2>4. ASSUME UNCHANGED local PROVE FALSE
    BY <2>4
  <2>5. CASE /\ ~Reconcile
             /\ JobStep \/ EnvironmentStep
    <3>1. UNCHANGED local
      BY <2>5 DEF JobStep, EnvironmentStep, BeginHeartbeat, EnforceLimit,
         ReadDeletions, DeletionsDone, SendDelete, DeleteConfirmed,
         DeleteFailed, DeleteUnacknowledged, ReadUploads, SendUploads,
         UploadsConfirmed, UploadsShort, UploadsFailed, Fetch, FetchFails,
         RequeueRead, RequeueOne, RequeueDone, JobFault, BackoffElapses,
         IncidentTried, QueueIncident, RemoteEdit, RemoteDelete, Crash, dbVars
    <3> QED
      BY <2>4, <3>1
  <2>6. ASSUME NEW j \in Ids, StartSave(j) \/ StartDelete(j) \/ StartRestore(j)
        PROVE  FALSE
    BY <2>4, <2>6 DEF StartSave, StartDelete, StartRestore, dbVars
  <2>7. ASSUME NEW t \in tasks, \/ UpsertFails(t) \/ CancelDelete(t)
                                \/ EnqueueUpload(t) \/ TaskFails(t)
        PROVE  FALSE
    BY <2>4, <2>7 DEF UpsertFails, CancelDelete, EnqueueUpload, TaskFails, dbVars
  <2>8. ASSUME UNCHANGED vars PROVE FALSE
    BY <2>4, <2>8 DEF vars
  <2> QED
    BY <2>1, <2>2, <2>3, <2>5, <2>6, <2>7, <2>8 DEF Next, UserStep
<1> QED
  BY <1>1, <1>2, <1>3, PTL DEF Spec, NothingVanishes

\* Without restorations (every family but the detection rules), without that
\* exception.
THEOREM RecordsStay ==
  ASSUME Restorable = FALSE
  PROVE  Spec => NothingVanishes
<1> DEFINE Inv == TypeOK /\ RowIdsUnique /\ DeletionsOfDeleted
<1>1. Init => Inv
  BY StayInvInit DEF StayInv
<1>2. Inv /\ [Next]_vars => Inv'
  BY TypeStep, QueueStep, DeletedOnlyStep
<1>3. Inv /\ [Next]_vars => [~StaleDelete]_vars
  BY DEF DeletionsOfDeleted, StaleDelete, SendDelete
<1> HIDE DEF Inv
<1> QED
  BY <1>1, <1>2, <1>3, RecordsStayUnlessRestored, PTL DEF Spec

-----------------------------------------------------------------------------
(* An overflow takes the oldest rows of the lowest priority *)

LEMMA EvictedTransitive ==
  ASSUME NEW x \in QueueRow, NEW y \in QueueRow, NEW z \in QueueRow,
         EvictedBefore(x, y), EvictedBefore(y, z)
  PROVE  EvictedBefore(x, z)
<1>1. /\ x.id \in Nat /\ y.id \in Nat /\ z.id \in Nat
      /\ PriorityOf(x) \in {0, 10} /\ PriorityOf(y) \in {0, 10}
      /\ PriorityOf(z) \in {0, 10}
  BY DEF QueueRow, PriorityOf
<1> QED
  BY <1>1 DEF EvictedBefore

\* Of two rows, the first in the order of eviction is among the first n if the
\* second is (ORDER BY priority ASC, created_at ASC LIMIT n).
LEMMA FirstRowsClosed ==
  ASSUME NEW rows \in SUBSET QueueRow, IsFiniteSet(rows), NEW n \in Int,
         NEW r \in FirstRows(rows, n, EvictedBefore),
         NEW s \in rows, EvictedBefore(s, r)
  PROVE  s \in FirstRows(rows, n, EvictedBefore)
<1> DEFINE Before(x) == {y \in rows : EvictedBefore(y, x)}
<1>1. r \in rows /\ Cardinality(Before(r)) < n
  BY DEF FirstRows
<1>2. Before(s) \subseteq Before(r)
  BY <1>1, EvictedTransitive
<1>3. IsFiniteSet(Before(r)) /\ IsFiniteSet(Before(s))
  BY FS_Subset
<1> HIDE DEF Before
<1>4. /\ Cardinality(Before(s)) <= Cardinality(Before(r))
      /\ Cardinality(Before(s)) \in Nat /\ Cardinality(Before(r)) \in Nat
  BY <1>2, <1>3, FS_Subset, FS_CardinalityType
<1>5. Cardinality(Before(s)) < n
  BY <1>1, <1>4
<1> QED
  BY <1>5 DEF FirstRows, Before

\* An insertion that evicts a row evicts the rows before it in the order.
LEMMA InsertEvictsInOrder ==
  ASSUME NEW q \in SUBSET QueueRow, IsFiniteSet(q), NEW r \in q, NEW s \in q,
         s.kind # "delete", EvictedBefore(s, r), r \notin EvictForInsert(q)
  PROVE  s \notin EvictForInsert(q)
<1> DEFINE excess == (Cardinality(q) - Capacity) + 1
           low    == EvictLow(q, excess)
           left   == excess - (Cardinality(q) - Cardinality(low))
           zero   == {x \in Evictable(q) : PriorityOf(x) = 0}
<1>1. /\ EvictForInsert(q) \subseteq low
      /\ r \in low => /\ EvictForInsert(q) =
                           low \ FirstRows(Evictable(low), left, EvictedBefore)
                      /\ r \in FirstRows(Evictable(low), left, EvictedBefore)
  BY DEF EvictForInsert, EvictLow
<1>2. low \subseteq q /\ low = q \ FirstRows(zero, excess, EvictedBefore)
  BY DEF EvictLow
<1>3. IsFiniteSet(low) /\ zero \subseteq q /\ IsFiniteSet(zero)
  <2>1. zero \subseteq q
    BY DEF Evictable
  <2> HIDE DEF low, zero
  <2> QED
    BY <1>2, <2>1, FS_Subset
<1>4. excess \in Int /\ left \in Int
  <2>1. Cardinality(q) \in Nat /\ Cardinality(low) \in Nat
    BY <1>3, FS_CardinalityType
  <2> HIDE DEF low
  <2> QED
    BY <2>1
<1> HIDE DEF low, left, excess
<1>5. CASE r \notin low
  <2>1. r \in FirstRows(zero, excess, EvictedBefore)
    BY <1>2, <1>5
  <2>2. PriorityOf(r) = 0
    BY <2>1 DEF FirstRows
  <2>3. s \in zero
    BY <2>2 DEF EvictedBefore, PriorityOf, Evictable
  <2>4. s \in FirstRows(zero, excess, EvictedBefore)
    BY <1>3, <1>4, <2>1, <2>3, FirstRowsClosed
  <2> QED
    BY <1>1, <1>2, <2>4
<1>6. CASE r \in low /\ s \in low
  <2>1. s \in Evictable(low) /\ Evictable(low) \subseteq low
    BY <1>6 DEF Evictable
  <2>2. Evictable(low) \in SUBSET QueueRow /\ IsFiniteSet(Evictable(low))
    BY <1>2, <1>3, <2>1, FS_Subset
  <2>3. s \in FirstRows(Evictable(low), left, EvictedBefore)
    BY <1>1, <1>4, <1>6, <2>1, <2>2, FirstRowsClosed
  <2> QED
    BY <1>1, <1>6, <2>3
<1> QED
  BY <1>1, <1>5, <1>6

\* So does the eviction at the start of a drain.
LEMMA LimitEvictsInOrder ==
  ASSUME NEW q \in SUBSET QueueRow, IsFiniteSet(q), NEW r \in q, NEW s \in q,
         s.kind # "delete", EvictedBefore(s, r), r \notin EnforceQueueLimit(q)
  PROVE  s \notin EnforceQueueLimit(q)
<1> DEFINE n == Cardinality(q) - Capacity
<1>1. /\ EnforceQueueLimit(q) = q \ FirstRows(Evictable(q), n, EvictedBefore)
      /\ r \in FirstRows(Evictable(q), n, EvictedBefore)
  BY DEF EnforceQueueLimit
<1>2. n \in Int
  BY FS_CardinalityType
<1> HIDE DEF n
<1>3. Evictable(q) \subseteq q /\ s \in Evictable(q)
  BY DEF Evictable
<1>4. IsFiniteSet(Evictable(q))
  BY <1>3, FS_Subset
<1>5. s \in FirstRows(Evictable(q), n, EvictedBefore)
  BY <1>1, <1>2, <1>3, <1>4, FirstRowsClosed
<1> QED
  BY <1>1, <1>5

\* A failure recorded on rows of a finite queue leaves it finite.
LEMMA FailureFinite ==
  ASSUME NEW q, IsFiniteSet(q), NEW ids
  PROVE  IsFiniteSet(RecordFailure(q, ids))
<1> DEFINE f == [r \in q |-> IF r.id \in ids /\ ~BackoffOverflows(r)
                              THEN FailedRow(r) ELSE r]
<1>1. f \in Surjection(q, RecordFailure(q, ids))
  BY DEF RecordFailure, Surjection
<1> QED
  BY <1>1, FS_Surjection

LEMMA EnqueueFinite ==
  ASSUME NEW q, IsFiniteSet(q), NEW row
  PROVE  IsFiniteSet(Enqueue(q, row))
<1>1. IsFiniteSet(EvictForInsert(q))
  BY EvictionKeepsTombstones, FS_Subset
<1> QED
  BY <1>1, FS_AddElement DEF Enqueue

\* The queue stays finite.
LEMMA QueueFinite ==
  ASSUME IsFiniteSet(queue), [Next]_vars
  PROVE  IsFiniteSet(queue')
<1> DEFINE Goal == IsFiniteSet(queue')
<1>1. ASSUME queue' \subseteq queue PROVE Goal
  BY <1>1, FS_Subset
<1>2. ASSUME NEW row, queue' = Enqueue(queue, row) PROVE Goal
  BY <1>2, EnqueueFinite
<1>3. ASSUME NEW ids, queue' = RecordFailure(queue, ids) PROVE Goal
  BY <1>3, FailureFinite
<1>4. ASSUME NEW p \in SUBSET queue, NEW row, queue' = p \union {row} PROVE Goal
  <2>1. IsFiniteSet(p)
    BY FS_Subset
  <2> QED
    BY <1>4, <2>1, FS_AddElement
<1>5. ASSUME NEW t \in tasks, EnqueueUpload(t) PROVE Goal
  BY <1>2, <1>5 DEF EnqueueUpload
<1>6. ASSUME NEW b \in batch, RequeueOne(b) PROVE Goal
  BY <1>2, <1>6 DEF RequeueOne
<1>7. ASSUME NEW n \in Incidents, QueueIncident(n) PROVE Goal
  BY <1>2, <1>7 DEF QueueIncident
<1>8. ASSUME NEW t \in tasks, DeleteGrc(t) PROVE Goal
  <2>1. {r \in queue : ~(r.entity = t.id /\ r.kind \in {"upload", "delete"})}
          \subseteq queue
    OBVIOUS
  <2> QED
    BY <1>4, <1>8, <2>1 DEF DeleteGrc, DeleteGrcRows
<1>9. ASSUME NEW r \in queue, BackoffElapses(r) PROVE Goal
  <2>1. queue \ {r} \subseteq queue
    OBVIOUS
  <2> QED
    BY <1>4, <1>9, <2>1 DEF BackoffElapses
<1>10. ASSUME NEW r \in queue, IncidentTried(r) PROVE Goal
  BY <1>1, <1>3, <1>10 DEF IncidentTried, Remove
<1>11. ASSUME NEW r \in batch, SendDelete(r) \/ DeleteConfirmed(r) \/ DeleteFailed(r)
       PROVE  Goal
  BY <1>1, <1>3, <1>11 DEF SendDelete, DeleteConfirmed, DeleteFailed, Remove, dbVars
<1>12. ASSUME EnforceLimit PROVE Goal
  BY <1>1, <1>12, LimitKeepsTombstones DEF EnforceLimit
<1>13. ASSUME UploadsConfirmed \/ UploadsFailed PROVE Goal
  BY <1>1, <1>3, <1>13 DEF UploadsConfirmed, UploadsFailed, AcknowledgeRows
<1>14. ASSUME NEW t \in tasks, \/ Upsert(t) \/ UpsertFails(t) \/ CancelDelete(t)
                               \/ TaskFails(t)
       PROVE  Goal
  BY <1>1, <1>14 DEF Upsert, UpsertFails, CancelDelete, TaskFails,
                     CancelGrcDelete, dbVars
<1>15. ASSUME NEW i \in Ids, \/ StartSave(i) \/ StartDelete(i) \/ StartRestore(i)
                             \/ RemoteEdit(i) \/ RemoteDelete(i)
       PROVE  Goal
  BY <1>1, <1>15 DEF StartSave, StartDelete, StartRestore, RemoteEdit,
                     RemoteDelete, dbVars
<1>16. ASSUME \/ BeginHeartbeat \/ ReadDeletions \/ DeletionsDone
              \/ DeleteUnacknowledged \/ ReadUploads \/ SendUploads
              \/ UploadsShort \/ Fetch \/ FetchFails \/ Reconcile
              \/ RequeueRead \/ RequeueDone \/ JobFault \/ Crash
              \/ UNCHANGED vars
       PROVE  Goal
  <2>1. UNCHANGED queue
    BY <1>16 DEF BeginHeartbeat, ReadDeletions, DeletionsDone,
       DeleteUnacknowledged, ReadUploads, SendUploads, UploadsShort, Fetch,
       FetchFails, Reconcile, RequeueRead, RequeueDone, JobFault, Crash, dbVars,
       vars
  <2> QED
    BY <1>1, <2>1
<1> HIDE DEF Goal
<1>17. Goal
  BY <1>5, <1>6, <1>7, <1>8, <1>9, <1>10, <1>11, <1>12, <1>13, <1>14, <1>15,
     <1>16 DEF Next, UserStep, JobStep, EnvironmentStep
<1> QED
  BY <1>17 DEF Goal

-----------------------------------------------------------------------------
(* The edit a record holds is followed until it is received *)

\* Version v is that of the youngest upload of record i in q, if there is one.
Followed(q, i, v) ==
  \/ ~HasUpload(q, i)
  \/ \E r \in Uploads(q) :
       /\ r.entity = i /\ r.version = v
       /\ \A s \in Uploads(q) : s.entity = i => s.id <= r.id

LEMMA FollowedUploads ==
  ASSUME NEW p, NEW q, NEW i, NEW v, Followed(q, i, v),
         \A r : r.entity = i => (r \in Uploads(p) <=> r \in Uploads(q))
  PROVE  Followed(p, i, v)
  BY DEF Followed, HasUpload, Uploads

\* An eviction in order takes the youngest upload of a record last.
LEMMA FollowedEviction ==
  ASSUME NEW q \in SUBSET QueueRow, NEW p \in SUBSET q, NEW i, NEW v,
         Followed(q, i, v),
         \A r, s \in q : r.id = s.id => r = s,
         \A r, s \in q : s.kind # "delete" /\ EvictedBefore(s, r) /\ r \notin p
                        => s \notin p
  PROVE  Followed(p, i, v)
<1>1. CASE ~HasUpload(q, i)
  BY <1>1 DEF Followed, HasUpload
<1>2. CASE HasUpload(q, i)
  <2>1. PICK r \in Uploads(q) :
          /\ r.entity = i /\ r.version = v
          /\ \A s \in Uploads(q) : s.entity = i => s.id <= r.id
    BY <1>2 DEF Followed
  <2>2. CASE r \in p
    BY <2>1, <2>2 DEF Followed, Uploads
  <2>3. CASE r \notin p
    <3>1. ASSUME NEW s \in p, s.kind = "upload", s.entity = i PROVE FALSE
      <4>1. s \in q /\ r \in q /\ s.id \in Nat /\ r.id \in Nat /\ r.kind = "upload"
        BY <2>1, <3>1 DEF Uploads, QueueRow
      <4>2. s.id <= r.id /\ s # r
        BY <2>1, <2>3, <3>1, <4>1 DEF Uploads
      <4>3. s.id < r.id
        BY <4>1, <4>2
      <4>4. EvictedBefore(s, r)
        BY <3>1, <4>1, <4>3 DEF EvictedBefore, PriorityOf
      <4> QED
        BY <2>3, <3>1, <4>1, <4>4
    <3> QED
      BY <3>1 DEF Followed, HasUpload
  <2> QED
    BY <2>2, <2>3
<1> QED
  BY <1>1, <1>2

\* An insertion of another row than an upload of the record keeps it followed.
LEMMA FollowedEnqueue ==
  ASSUME NEW q \in SUBSET QueueRow, IsFiniteSet(q), NEW i, NEW v, NEW row,
         Followed(q, i, v), \A r, s \in q : r.id = s.id => r = s,
         row.kind # "upload" \/ row.entity # i
  PROVE  Followed(Enqueue(q, row), i, v)
<1>1. /\ EvictForInsert(q) \in SUBSET q
      /\ \A r, s \in q : s.kind # "delete" /\ EvictedBefore(s, r)
                          /\ r \notin EvictForInsert(q)
                        => s \notin EvictForInsert(q)
  BY EvictionKeepsTombstones, InsertEvictsInOrder
<1>2. Followed(EvictForInsert(q), i, v)
  BY <1>1, FollowedEviction
<1> QED
  BY <1>2, FollowedUploads DEF Enqueue, Uploads

LEMMA FollowedLimit ==
  ASSUME NEW q \in SUBSET QueueRow, IsFiniteSet(q), NEW i, NEW v,
         Followed(q, i, v), \A r, s \in q : r.id = s.id => r = s
  PROVE  Followed(EnforceQueueLimit(q), i, v)
<1>1. /\ EnforceQueueLimit(q) \in SUBSET q
      /\ \A r, s \in q : s.kind # "delete" /\ EvictedBefore(s, r)
                          /\ r \notin EnforceQueueLimit(q)
                        => s \notin EnforceQueueLimit(q)
  BY LimitKeepsTombstones, LimitEvictsInOrder
<1> QED
  BY <1>1, FollowedEviction

\* Rows that wait or are due again are the same rows.
LEMMA FollowedSame ==
  ASSUME NEW p, NEW q, NEW i, NEW v, Followed(q, i, v), FromRows(p, q),
         \A s \in q : \E r \in p : SameRow(r, s)
  PROVE  Followed(p, i, v)
<1>1. CASE ~HasUpload(q, i)
  BY <1>1 DEF Followed, HasUpload, FromRows, SameRow
<1>2. CASE HasUpload(q, i)
  <2>1. PICK y \in Uploads(q) :
          /\ y.entity = i /\ y.version = v
          /\ \A s \in Uploads(q) : s.entity = i => s.id <= y.id
    BY <1>2 DEF Followed
  <2>2. PICK x \in p : SameRow(x, y)
    BY <2>1 DEF Uploads
  <2>3. x \in Uploads(p) /\ x.entity = i /\ x.version = v /\ x.id = y.id
    BY <2>1, <2>2 DEF SameRow, Uploads
  <2>4. ASSUME NEW s \in Uploads(p), s.entity = i PROVE s.id <= x.id
    <3>1. PICK z \in q : SameRow(s, z)
      BY <2>4 DEF FromRows, Uploads
    <3> QED
      BY <2>1, <2>3, <2>4, <3>1 DEF SameRow, Uploads
  <2> QED
    BY <2>3, <2>4 DEF Followed
<1> QED
  BY <1>1, <1>2

LEMMA FailureSameRows ==
  ASSUME NEW q \in SUBSET QueueRow, NEW ids
  PROVE  /\ FromRows(RecordFailure(q, ids), q)
         /\ \A s \in q : \E r \in RecordFailure(q, ids) : SameRow(r, s)
<1> DEFINE f(r) == IF r.id \in ids /\ ~BackoffOverflows(r) THEN FailedRow(r) ELSE r
<1>1. RecordFailure(q, ids) = {f(r) : r \in q}
  BY DEF RecordFailure
<1>2. ASSUME NEW r \in q PROVE SameRow(f(r), r)
  <2>1. r \in QueueRow /\ r.attempts \in Nat
    BY DEF QueueRow
  <2> QED
    BY <2>1, FailedRowFields DEF SameRow
<1> HIDE DEF f
<1> QED
  BY <1>1, <1>2 DEF FromRows

\* What the platform holds, took whole or gave has been received.
LEMMA ReceivedStep ==
  ASSUME TypeOK, UploadBatch, ReceivedInv, [Next]_vars
  PROVE  ReceivedInv' /\ received \subseteq received'
<1> DEFINE Goal == ReceivedInv' /\ received \subseteq received'
<1>0. /\ \A i \in Ids : platform[i] \in received \union {0}
                        /\ download[i] \in received \union {0}
      /\ platform \in [Ids -> Nat] /\ download \in [Ids -> Nat]
  BY DEF ReceivedInv, TypeOK
<1>1. ASSUME pc' # "uploadReply", received' = received,
             \A i \in Ids : /\ platform'[i] \in {0, platform[i]}
                            /\ download'[i] \in {0, platform[i], download[i]}
      PROVE  Goal
  BY <1>0, <1>1 DEF ReceivedInv
<1>2. ASSUME pc' # "uploadReply", UNCHANGED <<received, platform, download>> PROVE Goal
  BY <1>1, <1>2
<1>3. ASSUME UNCHANGED <<pc, reply, batch, received, download>>,
             \A i \in Ids : platform'[i] \in {0, platform[i]}
      PROVE  Goal
  BY <1>0, <1>3 DEF ReceivedInv
<1>4. ASSUME UNCHANGED <<pc, reply, batch, received, download, platform>> PROVE Goal
  BY <1>3, <1>4
<1>5. ASSUME NEW j \in Ids, StartSave(j) \/ StartDelete(j) \/ StartRestore(j)
      PROVE  Goal
  BY <1>4, <1>5 DEF StartSave, StartDelete, StartRestore, jobVars
<1>6. ASSUME NEW t \in tasks, \/ Upsert(t) \/ UpsertFails(t) \/ CancelDelete(t)
                              \/ EnqueueUpload(t) \/ DeleteGrc(t) \/ TaskFails(t)
      PROVE  Goal
  BY <1>4, <1>6 DEF Upsert, UpsertFails, CancelDelete, EnqueueUpload, DeleteGrc,
                    TaskFails, jobVars
<1>7. ASSUME NEW r \in queue, BackoffElapses(r) \/ IncidentTried(r) PROVE Goal
  BY <1>4, <1>7 DEF BackoffElapses, IncidentTried, jobVars
<1>8. ASSUME NEW n \in Incidents, QueueIncident(n) PROVE Goal
  BY <1>4, <1>8 DEF QueueIncident, jobVars
<1>9. ASSUME NEW j \in Ids, RemoteEdit(j) PROVE Goal
  <2>1. /\ received' = received \union {version + 1}
        /\ \A i \in Ids : platform'[i] \in {platform[i], version + 1}
        /\ UNCHANGED <<pc, reply, batch, download>>
    BY <1>0, <1>9 DEF RemoteEdit, jobVars
  <2> QED
    BY <1>0, <2>1 DEF ReceivedInv
<1>10. ASSUME NEW j \in Ids, RemoteDelete(j) PROVE Goal
  BY <1>0, <1>3, <1>10 DEF RemoteDelete, jobVars
<1>11. ASSUME Crash PROVE Goal
  BY <1>1, <1>11 DEF Crash
<1>12. ASSUME NEW r \in batch, SendDelete(r) PROVE Goal
  <2>1. \A i \in Ids : platform'[i] \in {0, platform[i]}
    BY <1>0, <1>12 DEF SendDelete
  <2> QED
    BY <1>1, <1>12, <2>1 DEF SendDelete
<1>13. ASSUME SendUploads PROVE Goal
  <2>1. PICK taken \in SUBSET batch :
          /\ platform' = Stored(taken)
          /\ received' = received \union {r.version : r \in taken}
          /\ reply' = "full" => taken = batch
    BY <1>13 DEF SendUploads
  <2>2. nextId \in Nat /\ \A r \in taken : r.id \in Nat /\ r.id < nextId
    BY <1>13 DEF SendUploads, UploadBatch, TypeOK, QueueRow
  <2>3. ASSUME NEW i \in Ids PROVE platform'[i] \in received' \union {0}
    <3>1. \/ platform'[i] = platform[i]
          \/ \E r \in taken : r.entity = i /\ platform'[i] = r.version
      BY <2>1, <2>2, StoredVersions
    <3> QED
      BY <1>0, <2>1, <3>1
  <2>4. UNCHANGED <<batch, download>>
    BY <1>13 DEF SendUploads
  <2> QED
    BY <1>0, <2>1, <2>3, <2>4 DEF ReceivedInv
<1>14. ASSUME Fetch PROVE Goal
  BY <1>1, <1>14 DEF Fetch, FetchStages
<1>15. ASSUME Reconcile PROVE Goal
  BY <1>1, <1>15 DEF Reconcile, AfterDownload
<1>16. ASSUME NEW r \in batch, DeleteConfirmed(r) \/ DeleteFailed(r) PROVE Goal
  BY <1>2, <1>16 DEF DeleteConfirmed, DeleteFailed, AfterDeletions
<1>17. ASSUME NEW r \in batch, RequeueOne(r) PROVE Goal
  BY <1>2, <1>17 DEF RequeueOne
<1>18. ASSUME \/ BeginHeartbeat \/ EnforceLimit \/ ReadDeletions \/ DeletionsDone
              \/ DeleteUnacknowledged \/ ReadUploads \/ UploadsConfirmed
              \/ UploadsShort \/ FetchFails \/ RequeueRead
              \/ RequeueDone \/ JobFault
       PROVE  Goal
  <2>1. pc' # "uploadReply" /\ UNCHANGED <<received, platform, download>>
    BY <1>18 DEF BeginHeartbeat, EnforceLimit, ReadDeletions, DeletionsDone,
       DeleteUnacknowledged, ReadUploads, UploadsConfirmed, UploadsShort,
       FetchFails, RequeueRead, RequeueDone, JobFault,
       AfterDeletions, AfterUploads, AfterDownload
  <2> QED
    BY <1>2, <2>1
<1>19. ASSUME UploadsFailed PROVE Goal
  <2>1. reply' # "full" /\ UNCHANGED <<received, platform, download>>
    BY <1>19 DEF UploadsFailed
  <2> QED
    BY <1>0, <2>1 DEF ReceivedInv
<1>20. ASSUME UNCHANGED vars PROVE Goal
  BY <1>4, <1>20 DEF vars
<1> HIDE DEF Goal
<1>21. Goal
  BY <1>5, <1>6, <1>7, <1>8, <1>9, <1>10, <1>11, <1>12, <1>13, <1>14, <1>15,
     <1>16, <1>17, <1>18, <1>19, <1>20 DEF Next, UserStep, JobStep, EnvironmentStep
<1> QED
  BY <1>21 DEF Goal

\* What the job and the environment do to the tasks and to the table.
LEMMA OthersKeepTable ==
  ASSUME TypeOK, ReceivedInv, JobStep \/ EnvironmentStep
  PROVE  /\ tasks' \subseteq tasks /\ UNCHANGED deleted
         /\ tasks' = tasks \/ Crash
         /\ \A i \in Ids : \/ local'[i] = local[i]
                            \/ local'[i] \in received \union {0}
<1>1. tasks' \subseteq tasks /\ UNCHANGED deleted
  BY OthersAddNoTombstone
<1>2. CASE Reconcile
  BY <1>2 DEF Reconcile, ReceivedInv, TypeOK
<1>3. CASE ~Reconcile
  <2>1. UNCHANGED local
    BY <1>3 DEF JobStep, EnvironmentStep, BeginHeartbeat, EnforceLimit,
       ReadDeletions, DeletionsDone, SendDelete, DeleteConfirmed,
       DeleteFailed, DeleteUnacknowledged, ReadUploads, SendUploads,
       UploadsConfirmed, UploadsShort, UploadsFailed, Fetch, FetchFails,
       RequeueRead, RequeueOne, RequeueDone, JobFault, BackoffElapses,
       IncidentTried, QueueIncident, RemoteEdit, RemoteDelete, Crash, dbVars
  <2>2. tasks' = tasks \/ Crash
    BY <1>3 DEF JobStep, EnvironmentStep, BeginHeartbeat, EnforceLimit,
       ReadDeletions, DeletionsDone, SendDelete, DeleteConfirmed,
       DeleteFailed, DeleteUnacknowledged, ReadUploads, SendUploads,
       UploadsConfirmed, UploadsShort, UploadsFailed, Fetch, FetchFails,
       RequeueRead, RequeueOne, RequeueDone, JobFault, BackoffElapses,
       IncidentTried, QueueIncident, RemoteEdit, RemoteDelete
  <2> QED
    BY <1>1, <2>1, <2>2
<1> QED
  BY <1>1, <1>2, <1>3 DEF Reconcile

\* Between its two calls a save, or a restoration, finds its own edit in the table
\* or what a download put there.
LEMMA GapStep ==
  ASSUME TypeOK, OneTaskPerRecord, ReceivedInv, GapHolds, RestoresDeleted,
         [Next]_vars, ~SaveInterrupted, Overlap = FALSE
  PROVE  GapHolds' /\ RestoresDeleted'
<1> DEFINE Goal == GapHolds' /\ RestoresDeleted'
<1>0. received \subseteq received'
  BY DEF Next, UserStep, JobStep, EnvironmentStep, vars, StartSave, StartDelete,
     StartRestore, Upsert, UpsertFails, CancelDelete, EnqueueUpload, DeleteGrc,
     TaskFails, BeginHeartbeat, EnforceLimit, ReadDeletions, DeletionsDone,
     SendDelete, DeleteConfirmed, DeleteFailed, DeleteUnacknowledged,
     ReadUploads, SendUploads, UploadsConfirmed, UploadsShort, UploadsFailed,
     Fetch, FetchFails, Reconcile, RequeueRead, RequeueOne, RequeueDone,
     JobFault, BackoffElapses, IncidentTried, QueueIncident, RemoteEdit,
     RemoteDelete, Crash
<1>1. CASE JobStep \/ EnvironmentStep
  <2>1. /\ tasks' \subseteq tasks /\ UNCHANGED deleted
        /\ \A i \in Ids : \/ local'[i] = local[i]
                           \/ local'[i] \in received \union {0}
    BY <1>1, OthersKeepTable
  <2>2. \A t \in tasks : t.id \in Ids
    BY DEF TypeOK, Tasks
  <2> QED
    BY <1>0, <2>1, <2>2 DEF GapHolds, RestoresDeleted
<1>2. ASSUME NEW i \in Ids, StartSave(i) \/ StartDelete(i) PROVE Goal
  BY <1>0, <1>2 DEF StartSave, StartDelete, GapHolds, RestoresDeleted, dbVars
<1>3. ASSUME NEW i \in Ids, StartRestore(i) PROVE Goal
  BY <1>0, <1>3 DEF StartRestore, GapHolds, RestoresDeleted, dbVars
<1>4. ASSUME NEW t \in tasks, Upsert(t) PROVE Goal
  <2>1. PICK u : u = [t EXCEPT !.step = IF t.op = "restore" THEN "cancel" ELSE "enqueue"]
    OBVIOUS
  <2>2. /\ u.id = t.id /\ u.version = t.version /\ u.step # "upsert" /\ t.id \in Ids
        /\ t.step = "upsert"
    BY <1>4, <2>1 DEF TypeOK, Tasks, Upsert
  <2>3. tasks' = (tasks \ {t}) \union {u}
    BY <1>4, <2>1 DEF Upsert
  <2>4. \A w \in tasks \ {t} : w.id # t.id
    BY DEF OneTaskPerRecord
  <2>5. /\ local' = [local EXCEPT ![t.id] = t.version]
        /\ \A i \in deleted : i # t.id => i \in deleted'
    BY <1>4 DEF Upsert
  <2>6. local'[t.id] = u.version /\ \A i \in Ids : i # t.id => local'[i] = local[i]
    BY <2>2, <2>5 DEF TypeOK
  <2>7. \A w \in tasks : w.id \in Ids
    BY DEF TypeOK, Tasks
  <2> QED
    BY <1>0, <2>2, <2>3, <2>4, <2>5, <2>6, <2>7 DEF GapHolds, RestoresDeleted
<1>5. ASSUME NEW t \in tasks, UpsertFails(t) PROVE Goal
  <2>1. t.op = "restore"
    BY <1>5 DEF SaveInterrupted, SaveUnwritten
  <2> QED
    BY <1>0, <1>5, <2>1 DEF UpsertFails, GapHolds, RestoresDeleted, dbVars
<1>6. ASSUME NEW t \in tasks, CancelDelete(t) PROVE Goal
  <2>1. PICK u : u = [t EXCEPT !.step = "enqueue"]
    OBVIOUS
  <2>2. /\ u.id = t.id /\ u.version = t.version /\ u.step = "enqueue"
        /\ t.step = "cancel"
    BY <1>6, <2>1 DEF TypeOK, Tasks, CancelDelete
  <2>3. tasks' = (tasks \ {t}) \union {u} /\ UNCHANGED <<local, deleted>>
    BY <1>6, <2>1 DEF CancelDelete
  <2> QED
    BY <1>0, <2>2, <2>3 DEF GapHolds, RestoresDeleted
<1>7. ASSUME NEW t \in tasks, EnqueueUpload(t) \/ TaskFails(t) PROVE Goal
  BY <1>0, <1>7 DEF EnqueueUpload, TaskFails, GapHolds, RestoresDeleted, dbVars
<1>8. ASSUME NEW t \in tasks, DeleteGrc(t) PROVE Goal
  <2>1. /\ tasks' \subseteq tasks /\ deleted \subseteq deleted'
        /\ \A i \in Ids : local'[i] \in {0, local[i]}
    BY <1>8 DEF DeleteGrc, TypeOK
  <2>2. \A w \in tasks : w.id \in Ids
    BY DEF TypeOK, Tasks
  <2> QED
    BY <1>0, <2>1, <2>2 DEF GapHolds, RestoresDeleted
<1>9. CASE UNCHANGED vars
  BY <1>0, <1>9 DEF vars, GapHolds, RestoresDeleted
<1> QED
  BY <1>1, <1>2, <1>3, <1>4, <1>5, <1>6, <1>7, <1>8, <1>9 DEF Next, UserStep

\* An upload just queued is the youngest of its record.
LEMMA FollowedNewest ==
  ASSUME NEW q, NEW n \in Nat, \A r \in q : r.id \in Nat /\ r.id < n, NEW i, NEW v
  PROVE  Followed(Enqueue(q, NewRow(n, "upload", i, v)), i, v)
<1> DEFINE new == NewRow(n, "upload", i, v)
           p   == Enqueue(q, new)
<1>1. /\ new.id = n /\ new.kind = "upload" /\ new.entity = i /\ new.version = v
  BY DEF NewRow
<1>2. new \in p /\ \A r \in p : r = new \/ r \in q
  BY EvictionKeepsTombstones DEF Enqueue
<1> HIDE DEF new, p
<1>3. \A s \in p : s.id <= new.id
  BY <1>1, <1>2
<1>4. new \in Uploads(p)
  BY <1>1, <1>2 DEF Uploads
<1>5. \A s \in Uploads(p) : s.entity = i => s.id <= new.id
  BY <1>3 DEF Uploads
<1> QED
  BY <1>1, <1>4, <1>5 DEF Followed, new, p

\* The acknowledgement of a request the platform took whole: the youngest upload
\* of a record was in it, and its version has been received, or it stays queued.
LEMMA FollowedConfirmed ==
  ASSUME TypeOK, UploadBatch, ReceivedInv, UploadsConfirmed, NEW i, NEW v,
         Followed(queue, i, v)
  PROVE  v \in received \/ Followed(queue', i, v)
<1>1. queue' = AcknowledgeRows(queue, RowIds(batch))
  BY DEF UploadsConfirmed
<1>2. CASE ~HasUpload(queue, i)
  BY <1>1, <1>2 DEF AcknowledgeRows, Followed, HasUpload
<1>3. CASE HasUpload(queue, i)
  <2>1. PICK y \in Uploads(queue) :
          /\ y.entity = i /\ y.version = v
          /\ \A s \in Uploads(queue) : s.entity = i => s.id <= y.id
    BY <1>3 DEF Followed
  <2>2. CASE y.id \in RowIds(batch)
    <3>1. PICK b \in batch : b.id = y.id
      BY <2>2 DEF RowIds
    <3>2. b.version = v
      BY <2>1, <3>1 DEF UploadBatch, UploadsConfirmed, Uploads
    <3>3. b.version \in received
      BY DEF ReceivedInv, UploadsConfirmed
    <3> QED
      BY <3>2, <3>3
  <2>3. CASE y.id \notin RowIds(batch)
    <3>1. y \in Uploads(queue') /\ Uploads(queue') \subseteq Uploads(queue)
      BY <1>1, <2>1, <2>3 DEF AcknowledgeRows, Uploads
    <3> QED
      BY <2>1, <3>1 DEF Followed
  <2> QED
    BY <2>2, <2>3
<1> QED
  BY <1>2, <1>3

\* The edit a record holds stays followed by the steps of the user.
LEMMA EditFollowedUser ==
  ASSUME EditInv, UserStep, ~SaveInterrupted, NEW i \in Ids
  PROVE  EditFollowed(i)'
<1> USE DEF EditInv
<1> DEFINE Goal  == EditFollowed(i)'
           Still == \/ InGap(i)'
                    \/ Followed(queue', i, local'[i])
                    \/ local'[i] \in received' \union {0}
<1>0. /\ TypeOK /\ queue \in SUBSET QueueRow /\ IsFiniteSet(queue)
      /\ \A r, s \in queue : r.id = s.id => r = s
      /\ nextId \in Nat /\ \A r \in queue : r.id \in Nat /\ r.id < nextId
  BY DEF GoneInv, TombstoneInv, DeletionInv, TypeOK, RowIdsUnique, QueueRow
<1>1. Still => Goal
  BY DEF EditFollowed, Followed
<1>2. \/ local[i] \in received \union {0}
      \/ InGap(i)
      \/ Followed(queue, i, local[i])
  BY DEF EditFollowed, Followed
<1>3. received' = received
  BY DEF UserStep, StartSave, StartDelete, StartRestore, Upsert, UpsertFails,
         CancelDelete, EnqueueUpload, DeleteGrc, TaskFails
<1> HIDE DEF Goal
<1>4. ASSUME local'[i] = local[i],
             \A t \in tasks : t.id = i /\ t.step = "enqueue" => t \in tasks',
             Followed(queue, i, local[i]) => Followed(queue', i, local[i])
      PROVE  Goal
  <2>1. InGap(i) => InGap(i)'
    BY <1>4 DEF InGap
  <2> QED
    BY <1>1, <1>2, <1>3, <1>4, <2>1
<1>5. ASSUME NEW j \in Ids, StartSave(j) \/ StartDelete(j) \/ StartRestore(j)
      PROVE  Goal
  BY <1>4, <1>5 DEF StartSave, StartDelete, StartRestore, dbVars
<1>6. ASSUME NEW t \in tasks, Upsert(t) PROVE Goal
  <2>1. t.step = "upsert" /\ UNCHANGED queue
    BY <1>6 DEF Upsert
  <2>2. CASE t.id # i
    <3>1. local'[i] = local[i] /\ \A u \in tasks \ {t} : u \in tasks'
      BY <1>0, <1>6, <2>2 DEF Upsert, TypeOK
    <3> QED
      BY <1>4, <2>1, <3>1
  <2>3. CASE t.id = i /\ t.op = "restore"
    <3>1. i \in deleted
      BY <2>1, <2>3 DEF RestoresDeleted
    <3>2. ~HasUpload(queue, i)
      BY <3>1 DEF GoneInv, Gone
    <3> QED
      BY <1>1, <2>1, <3>2 DEF Followed
  <2>4. CASE t.id = i /\ t.op # "restore"
    <3>1. PICK u : u = [t EXCEPT !.step = "enqueue"]
      OBVIOUS
    <3>2. u \in tasks'
      BY <1>6, <2>4, <3>1 DEF Upsert
    <3>3. u.id = i /\ u.step = "enqueue"
      BY <1>0, <2>4, <3>1 DEF TypeOK, Tasks
    <3> QED
      BY <1>1, <3>2, <3>3 DEF InGap
  <2> QED
    BY <2>2, <2>3, <2>4
<1>7. ASSUME NEW t \in tasks, UpsertFails(t) PROVE Goal
  BY <1>4, <1>7 DEF UpsertFails, dbVars
<1>8. ASSUME NEW t \in tasks, CancelDelete(t) PROVE Goal
  <2>1. \A r : r \in Uploads(queue') <=> r \in Uploads(queue)
    BY <1>8 DEF CancelDelete, CancelGrcDelete, Uploads
  <2>2. Followed(queue, i, local[i]) => Followed(queue', i, local[i])
    BY <2>1, FollowedUploads
  <2> QED
    BY <1>4, <1>8, <2>2 DEF CancelDelete
<1>9. ASSUME NEW t \in tasks, EnqueueUpload(t) PROVE Goal
  <2>1. /\ queue' = Enqueue(queue, NewRow(nextId, "upload", t.id, t.version))
        /\ UNCHANGED local /\ tasks' = tasks \ {t} /\ t.step = "enqueue"
    BY <1>9 DEF EnqueueUpload
  <2>2. CASE t.id # i
    <3>1. NewRow(nextId, "upload", t.id, t.version).entity # i
      BY <2>2 DEF NewRow
    <3>2. Followed(queue, i, local[i]) => Followed(queue', i, local[i])
      BY <1>0, <2>1, <3>1, FollowedEnqueue
    <3> QED
      BY <1>4, <2>1, <2>2, <3>2
  <2>3. CASE t.id = i
    <3>1. local[i] \in received \union {0, t.version}
      BY <2>1, <2>3 DEF GapHolds
    <3>2. Followed(queue', i, t.version)
      BY <1>0, <2>1, <2>3, FollowedNewest
    <3> QED
      BY <1>1, <1>3, <2>1, <3>1, <3>2
  <2> QED
    BY <2>2, <2>3
<1>10. ASSUME NEW t \in tasks, DeleteGrc(t) PROVE Goal
  <2>1. CASE t.id = i
    <3>1. local'[i] = 0
      BY <1>0, <1>10, <2>1 DEF DeleteGrc, TypeOK
    <3> QED
      BY <1>1, <3>1
  <2>2. CASE t.id # i
    <3>1. \A r : r.entity = i => (r \in Uploads(queue') <=> r \in Uploads(queue))
      BY <1>10, <2>2 DEF DeleteGrc, DeleteGrcRows, NewRow, Uploads
    <3>2. Followed(queue, i, local[i]) => Followed(queue', i, local[i])
      BY <3>1, FollowedUploads
    <3>3. local'[i] = local[i]
      BY <1>0, <1>10, <2>2 DEF DeleteGrc, TypeOK
    <3> QED
      BY <1>4, <1>10, <2>2, <3>2, <3>3 DEF DeleteGrc
  <2> QED
    BY <2>1, <2>2
<1>11. ASSUME NEW t \in tasks, TaskFails(t) PROVE Goal
  <2>1. t.step # "enqueue"
    BY <1>11 DEF SaveInterrupted
  <2> QED
    BY <1>4, <1>11, <2>1 DEF TaskFails, dbVars
<1> QED
  BY <1>5, <1>6, <1>7, <1>8, <1>9, <1>10, <1>11 DEF UserStep, Goal

\* So it does by those of the job and of the environment; a record queued again
\* is queued as it is.
LEMMA EditFollowedOthers ==
  ASSUME EditInv, JobStep \/ EnvironmentStep, ~SaveInterrupted, ~StaleRequeue,
         received \subseteq received', NEW i \in Ids
  PROVE  EditFollowed(i)'
<1> USE DEF EditInv
<1> DEFINE Goal == EditFollowed(i)'
<1>0. /\ TypeOK /\ queue \in SUBSET QueueRow /\ IsFiniteSet(queue)
      /\ \A r, s \in queue : r.id = s.id => r = s
      /\ nextId \in Nat /\ \A r \in queue : r.id \in Nat /\ r.id < nextId
      /\ DeletionBatch
  BY DEF GoneInv, TombstoneInv, DeletionInv, TypeOK, RowIdsUnique, QueueRow
<1>1. \/ InGap(i)'
      \/ Followed(queue', i, local'[i])
      \/ local'[i] \in received' \union {0}
      => Goal
  BY DEF EditFollowed, Followed
<1>2. \/ local[i] \in received \union {0}
      \/ InGap(i)
      \/ Followed(queue, i, local[i])
  BY DEF EditFollowed, Followed
<1> HIDE DEF Goal
<1>3. tasks' = tasks \/ Crash
  BY <1>0, OthersKeepTable
<1>4. InGap(i) => InGap(i)'
  BY <1>3 DEF InGap, SaveInterrupted
<1>5. local'[i] = local[i] \/ local'[i] \in received \union {0}
  BY <1>0, OthersKeepTable
<1>6. ASSUME \/ Followed(queue, i, local[i]) => Followed(queue', i, local[i])
             \/ Followed(queue, i, local[i]) =>
                  local[i] \in received \/ Followed(queue', i, local[i])
      PROVE  Goal
  BY <1>1, <1>2, <1>4, <1>5, <1>6
<1>7. ASSUME \A r : r.entity = i => (r \in Uploads(queue') <=> r \in Uploads(queue))
      PROVE  Goal
  BY <1>6, <1>7, FollowedUploads
<1>8. ASSUME FromRows(queue', queue), \A s \in queue : \E r \in queue' : SameRow(r, s)
      PROVE  Goal
  BY <1>6, <1>8, FollowedSame
<1>9. ASSUME UploadsConfirmed PROVE Goal
  BY <1>0, <1>6, <1>9, FollowedConfirmed
<1>10. ASSUME EnforceLimit PROVE Goal
  <2>1. Followed(queue, i, local[i]) => Followed(queue', i, local[i])
    BY <1>0, <1>10, FollowedLimit DEF EnforceLimit
  <2> QED
    BY <1>6, <2>1
<1>11. ASSUME NEW r \in batch, DeleteConfirmed(r) PROVE Goal
  <2>1. queue' = Remove(queue, {r.id}) /\ pc = "deleteReply"
    BY <1>11 DEF DeleteConfirmed
  <2>2. \A s \in queue : s.id = r.id => s.kind = "delete"
    BY <1>0, <2>1 DEF DeletionBatch
  <2> QED
    BY <1>7, <2>1, <2>2 DEF Remove, Uploads
<1>12. ASSUME NEW ids, queue' = RecordFailure(queue, ids) PROVE Goal
  BY <1>0, <1>8, <1>12, FailureSameRows
<1>13. ASSUME (\E r \in batch : DeleteFailed(r)) \/ UploadsFailed PROVE Goal
  BY <1>12, <1>13 DEF DeleteFailed, UploadsFailed
<1>14. ASSUME NEW r \in queue, IncidentTried(r) PROVE Goal
  <2>1. CASE queue' = Remove(queue, {r.id})
    <3>1. r.kind = "incident"
      BY <1>14 DEF IncidentTried, GetPendingFor, FirstRows, Due
    <3>2. \A s \in queue : s.id = r.id => s.kind = "incident"
      BY <1>0, <3>1
    <3> QED
      BY <1>7, <2>1, <3>2 DEF Remove, Uploads
  <2> QED
    BY <1>12, <1>14, <2>1 DEF IncidentTried
<1>15. ASSUME NEW n \in Incidents, QueueIncident(n) PROVE Goal
  <2>1. PICK row : queue' = Enqueue(queue, row) /\ row.kind # "upload"
    BY <1>15 DEF QueueIncident, NewRow
  <2>2. Followed(queue, i, local[i]) => Followed(queue', i, local[i])
    BY <1>0, <2>1, FollowedEnqueue
  <2> QED
    BY <1>6, <2>2
<1>16. ASSUME NEW r \in queue, BackoffElapses(r) PROVE Goal
  <2>1. PICK d : d = [r EXCEPT !.retry = "due"]
    OBVIOUS
  <2>2. SameRow(d, r)
    BY <1>0, <2>1 DEF SameRow, QueueRow
  <2>3. queue' = (queue \ {r}) \union {d}
    BY <1>16, <2>1 DEF BackoffElapses
  <2>4. \A s \in queue : SameRow(s, s)
    BY <1>0 DEF SameRow, QueueRow
  <2> QED
    BY <1>8, <2>2, <2>3, <2>4 DEF FromRows
<1>17. ASSUME UNCHANGED queue PROVE Goal
  BY <1>7, <1>17
<1>18. ASSUME \/ BeginHeartbeat \/ ReadDeletions \/ DeletionsDone
              \/ (\E r \in batch : SendDelete(r))
              \/ DeleteUnacknowledged \/ ReadUploads \/ SendUploads
              \/ UploadsShort \/ Fetch \/ FetchFails \/ Reconcile
              \/ RequeueRead \/ RequeueDone \/ JobFault \/ Crash
              \/ (\E j \in Ids : RemoteEdit(j) \/ RemoteDelete(j))
       PROVE  Goal
  <2>1. UNCHANGED queue
    BY <1>18 DEF BeginHeartbeat, ReadDeletions, DeletionsDone, SendDelete,
       DeleteUnacknowledged, ReadUploads, SendUploads, UploadsShort, Fetch,
       FetchFails, Reconcile, RequeueRead, RequeueDone, JobFault, Crash,
       RemoteEdit, RemoteDelete, dbVars
  <2> QED
    BY <1>17, <2>1
<1>19. ASSUME NEW b \in batch, RequeueOne(b) PROVE Goal
  <2>1. /\ queue' = Enqueue(queue, NewRow(nextId, "upload", b.entity, b.version))
        /\ local[b.entity] = b.version
    BY <1>19 DEF RequeueOne, StaleRequeue
  <2>2. CASE b.entity # i
    <3>1. NewRow(nextId, "upload", b.entity, b.version).entity # i
      BY <2>2 DEF NewRow
    <3>2. Followed(queue, i, local[i]) => Followed(queue', i, local[i])
      BY <1>0, <2>1, <3>1, FollowedEnqueue
    <3> QED
      BY <1>6, <3>2
  <2>3. CASE b.entity = i
    <3>1. Followed(queue', i, local[i])
      BY <1>0, <2>1, <2>3, FollowedNewest
    <3> QED
      BY <1>6, <3>1
  <2> QED
    BY <2>2, <2>3
<1>20. Goal
  BY <1>9, <1>10, <1>11, <1>13, <1>14, <1>15, <1>16, <1>18, <1>19
  DEF JobStep, EnvironmentStep
<1> QED
  BY <1>20 DEF Goal

\* The edits stay followed.
LEMMA EditInvStep ==
  ASSUME Overlap = FALSE, EditInv, [Next]_vars, ~SaveInterrupted, ~StaleRequeue
  PROVE  EditInv' /\ received \subseteq received'
<1> USE DEF EditInv
<1>0. TypeOK /\ RowIdsUnique /\ OneTaskPerRecord
  BY DEF TaskInv, GoneInv, TombstoneInv
<1>1. TaskInv' /\ GoneInv' /\ IsFiniteSet(queue)'
  BY <1>0, TaskStep, NoneLate, GoneInvStep, QueueFinite
<1>2. UploadBatch' /\ ReceivedInv' /\ received \subseteq received'
  BY <1>0, UploadBatchStep, ReceivedStep
<1>3. GapHolds' /\ RestoresDeleted'
  BY <1>0, GapStep
<1>4. ASSUME NEW i \in Ids PROVE EditFollowed(i)'
  <2>1. CASE UNCHANGED vars
    <3>1. EditFollowed(i)
      OBVIOUS
    <3> QED
      BY <2>1, <3>1 DEF vars, EditFollowed, InGap, HasUpload, Uploads
  <2>2. CASE Next
    BY <1>2, <2>2, EditFollowedUser, EditFollowedOthers DEF Next
  <2> QED
    BY <2>1, <2>2
<1> QED
  BY <1>1, <1>2, <1>3, <1>4

LEMMA EditInvInit == Init => EditInv
<1> SUFFICES ASSUME Init PROVE EditInv
  OBVIOUS
<1>2. TaskInv /\ GoneInv /\ UploadBatch /\ GapHolds /\ RestoresDeleted
  BY TaskInit, GoneInvInit DEF Init, UploadBatch, GapHolds, RestoresDeleted
<1>3. IsFiniteSet(queue)
  BY FS_EmptySet DEF Init
<1>4. ReceivedInv
  BY DEF Init, ReceivedInv
<1>5. \A i \in Ids : EditFollowed(i)
  BY DEF Init, EditFollowed
<1> QED
  BY <1>2, <1>3, <1>4, <1>5 DEF EditInv

\* What a step marks synced, or writes over a record that is, has been received,
\* unless it acknowledges the edit before in the middle of a save.
LEMMA MarkStep ==
  ASSUME EditInv, [Next]_vars, NEW i \in synced',
         i \notin synced \/ local'[i] # local[i]
  PROVE  local'[i] \in received \/ (AckInGap /\ InGap(i))
<1> USE DEF EditInv
<1>0. TypeOK /\ i \in Ids /\ local \in [Ids -> Nat]
  <2>1. TypeOK
    BY DEF GoneInv, TombstoneInv, DeletionInv
  <2>2. TypeOK'
    BY <2>1, TypeStep
  <2> QED
    BY <2>1, <2>2 DEF TypeOK
<1>1. CASE UploadsConfirmed
  <2>1. /\ i \in AcknowledgedIds(queue, RowIds(batch)) /\ local[i] # 0
        /\ local' = local
    BY <1>1 DEF UploadsConfirmed
  <2>2. /\ HasUpload(queue, i)
        /\ \A r \in Uploads(queue) : r.entity = i => r.id \in RowIds(batch)
    BY <2>1 DEF AcknowledgedIds, HasUpload, Uploads
  <2>3. CASE InGap(i)
    BY <1>1, <2>1, <2>3 DEF AckInGap
  <2>4. CASE local[i] \in received
    BY <2>1, <2>4
  <2>5. CASE ~InGap(i) /\ local[i] \notin received
    <3>1. PICK r \in Uploads(queue) : r.entity = i /\ r.version = local[i]
      BY <1>0, <2>1, <2>2, <2>5 DEF EditFollowed
    <3>2. PICK b \in batch : b.id = r.id
      BY <2>2, <3>1 DEF RowIds
    <3>3. b.version = r.version
      BY <1>1, <3>1, <3>2 DEF UploadBatch, UploadsConfirmed, Uploads
    <3>4. b.version \in received
      BY <1>1 DEF ReceivedInv, UploadsConfirmed
    <3> QED
      BY <2>1, <3>1, <3>3, <3>4
  <2> QED
    BY <2>3, <2>4, <2>5
<1>2. CASE Reconcile
  <2>1. Taken(i) /\ ~Dropped(i)
    BY <1>0, <1>2 DEF Reconcile
  <2>2. local'[i] = download[i] /\ download[i] # 0
    BY <1>0, <1>2, <2>1 DEF Reconcile, Taken
  <2>3. download[i] \in received \union {0}
    BY <1>0 DEF ReceivedInv
  <2> QED
    BY <2>2, <2>3
<1>3. ASSUME UNCHANGED <<local, synced>> PROVE FALSE
  BY <1>3
<1>4. ASSUME NEW t \in tasks, Upsert(t) \/ DeleteGrc(t) PROVE FALSE
  <2>1. synced' = synced \ {t.id}
    BY <1>4 DEF Upsert, DeleteGrc
  <2>2. t.id # i => local'[i] = local[i]
    BY <1>0, <1>4 DEF Upsert, DeleteGrc
  <2> QED
    BY <2>1, <2>2
<1>5. ASSUME NEW t \in tasks, \/ UpsertFails(t) \/ CancelDelete(t)
                              \/ EnqueueUpload(t) \/ TaskFails(t)
      PROVE  FALSE
  BY <1>3, <1>5 DEF UpsertFails, CancelDelete, EnqueueUpload, TaskFails, dbVars
<1>6. ASSUME NEW j \in Ids, StartSave(j) \/ StartDelete(j) \/ StartRestore(j)
      PROVE  FALSE
  BY <1>3, <1>6 DEF StartSave, StartDelete, StartRestore, dbVars
<1>7. ASSUME ~UploadsConfirmed, ~Reconcile, JobStep \/ EnvironmentStep
      PROVE  FALSE
  <2>1. UNCHANGED <<local, synced>>
    BY <1>0, <1>7 DEF JobStep, EnvironmentStep, BeginHeartbeat, EnforceLimit,
       ReadDeletions, DeletionsDone, SendDelete, DeleteConfirmed,
       DeleteFailed, DeleteUnacknowledged, ReadUploads, SendUploads,
       UploadsShort, UploadsFailed, Fetch, FetchFails, RequeueRead, RequeueOne,
       RequeueDone, JobFault, BackoffElapses, IncidentTried, QueueIncident,
       RemoteEdit, RemoteDelete, Crash, dbVars
  <2> QED
    BY <1>3, <2>1
<1>8. ASSUME UNCHANGED vars PROVE FALSE
  BY <1>3, <1>8 DEF vars
<1> QED
  BY <1>1, <1>2, <1>4, <1>5, <1>6, <1>7, <1>8 DEF Next, UserStep

\* An interrupted save changes the state.
LEMMA InterruptionChanges ==
  ASSUME TypeOK, UNCHANGED vars
  PROVE  ~SaveInterrupted /\ ~AckInGap
<1>1. /\ faults \in Nat /\ UNCHANGED <<faults, tasks, pc>>
  BY DEF TypeOK, vars
<1> QED
  BY <1>1 DEF SaveInterrupted, SaveUnwritten, UpsertFails, TaskFails, Crash, AckInGap,
              UploadsConfirmed, AfterUploads

\* When no save is interrupted between its two calls and no record is queued again
\* that changed since the job read it, for every family, capacity, batch, number of
\* failures, restart and refusal: the edit a record holds when it is marked synced,
\* or overwritten by a download, has reached the platform. Only an acknowledgement
\* that falls between the two calls of a save marks it too early.
THEOREM EditsUnlessRequeued ==
  ASSUME Overlap = FALSE
  PROVE  Spec /\ [][~SaveInterrupted /\ ~StaleRequeue]_vars => SyncedMeansReceived
<1>1. Init => EditInv
  BY EditInvInit
<1>2. EditInv /\ [Next]_vars /\ [~SaveInterrupted /\ ~StaleRequeue]_vars => EditInv'
  <2> SUFFICES ASSUME EditInv, [Next]_vars, [~SaveInterrupted /\ ~StaleRequeue]_vars
               PROVE  EditInv'
    OBVIOUS
  <2>1. TypeOK
    BY DEF EditInv, GoneInv, TombstoneInv, DeletionInv
  <2> QED
    BY <2>1, EditInvStep, InterruptionChanges, RequeueChanges
<1>3. EditInv /\ [Next]_vars =>
        [\A i \in synced' : i \notin synced \/ local'[i] # local[i]
            => local'[i] \in received \/ InGap(i)]_vars
  BY MarkStep
<1> QED
  BY <1>1, <1>2, <1>3, PTL DEF Spec, SyncedMeansReceived

\* For the families that are not queued again nothing is left to suppose of the
\* requeue.
THEOREM EditsReceived ==
  ASSUME Overlap = FALSE, Requeued = FALSE
  PROVE  Spec /\ [][~SaveInterrupted]_vars => SyncedMeansReceived
<1>1. pc # "requeue" => ~StaleRequeue
  BY DEF StaleRequeue, RequeueOne
<1>2. pc # "requeue" /\ [~SaveInterrupted]_vars
        => [~SaveInterrupted /\ ~StaleRequeue]_vars
  BY <1>1
<1> QED
  BY <1>2, NothingRequeued, EditsUnlessRequeued, PTL

\* And when no acknowledgement falls there either, a record marked synced is one
\* whose edit the platform received, at all times: synced = 1 can be relied on.
THEOREM SyncedCanBeTrusted ==
  ASSUME Overlap = FALSE
  PROVE  Spec /\ [][~SaveInterrupted /\ ~AckInGap /\ ~StaleRequeue]_vars
           => []SyncedReceived
<1> DEFINE Inv == EditInv /\ SyncedReceived
           A   == ~SaveInterrupted /\ ~AckInGap /\ ~StaleRequeue
<1>1. Init => Inv
  BY EditInvInit DEF Init, SyncedReceived
<1>2. Inv /\ [Next]_vars /\ [A]_vars => Inv'
  <2> SUFFICES ASSUME Inv, [Next]_vars, [A]_vars
               PROVE  Inv'
    OBVIOUS
  <2>1. TypeOK
    BY DEF EditInv, GoneInv, TombstoneInv, DeletionInv
  <2>2. ~SaveInterrupted /\ ~AckInGap /\ ~StaleRequeue
    BY <2>1, InterruptionChanges, RequeueChanges
  <2>3. EditInv' /\ received \subseteq received'
    BY <2>2, EditInvStep
  <2>4. ASSUME NEW i \in synced' PROVE local'[i] \in received'
    <3>1. CASE i \in synced /\ local'[i] = local[i]
      BY <2>3, <3>1 DEF SyncedReceived
    <3>2. CASE i \notin synced \/ local'[i] # local[i]
      BY <2>2, <2>3, <2>4, <3>2, MarkStep
    <3> QED
      BY <3>1, <3>2
  <2> QED
    BY <2>3, <2>4 DEF SyncedReceived
<1>3. Inv => SyncedReceived
  OBVIOUS
<1> HIDE DEF Inv
<1> QED
  BY <1>1, <1>2, <1>3, PTL DEF Spec

-----------------------------------------------------------------------------
(* An incident is evicted after the uploads *)

\* What the queue and the two batches of the job need of each other.
QueueInv ==
  TypeOK /\ RowIdsUnique /\ DeletionBatch /\ UploadBatch /\ IsFiniteSet(queue)

LEMMA QueueInvStep == QueueInv /\ [Next]_vars => QueueInv'
  BY TypeStep, QueueStep, BatchStep, UploadBatchStep, QueueFinite DEF QueueInv

LEMMA QueueInvInit == Init => QueueInv
<1> SUFFICES ASSUME Init PROVE QueueInv
  OBVIOUS
<1>1. TombstoneInv /\ IsFiniteSet(queue)
  BY TombstoneInit, FS_EmptySet DEF Init
<1> QED
  BY <1>1 DEF Init, QueueInv, TombstoneInv, DeletionInv, UploadBatch

\* An insertion that evicts an incident leaves no upload but its own.
LEMMA InsertTakesUploadsFirst ==
  ASSUME NEW q \in SUBSET QueueRow, IsFiniteSet(q), NEW row,
         NEW r \in q, r.kind = "incident", r \notin Enqueue(q, row),
         NEW s \in Uploads(Enqueue(q, row))
  PROVE  s = row
<1> SUFFICES ASSUME s # row PROVE FALSE
  OBVIOUS
<1>1. r \notin EvictForInsert(q) /\ s \in EvictForInsert(q) /\ s.kind = "upload"
  BY DEF Enqueue, Uploads
<1>2. s \in q
  BY <1>1, EvictionKeepsTombstones
<1>3. EvictedBefore(s, r)
  BY <1>1 DEF EvictedBefore, PriorityOf
<1> QED
  BY <1>1, <1>2, <1>3, InsertEvictsInOrder

\* For every capacity, whatever overlaps or fails: an overflow takes an incident
\* only when the queue holds no upload that could be taken instead.
THEOREM IncidentsLast == Spec => IncidentsEvictedLast
<1>1. Init => QueueInv
  BY QueueInvInit
<1>2. QueueInv /\ [Next]_vars => QueueInv'
  BY QueueInvStep
<1>3. QueueInv /\ [Next]_vars =>
        [\A r \in queue \ queue' :
           r.kind = "incident" /\ (nextId' # nextId \/ pc' # pc)
             => \A s \in Uploads(queue') : s.id = nextId]_vars
  <2> SUFFICES ASSUME QueueInv, [Next]_vars, NEW r \in queue \ queue',
                      r.kind = "incident", nextId' # nextId \/ pc' # pc,
                      NEW s \in Uploads(queue')
               PROVE  s.id = nextId
    OBVIOUS
  <2> USE DEF QueueInv
  <2>1. queue \in SUBSET QueueRow
    BY DEF TypeOK
  <2>2. ASSUME NEW row, queue' = Enqueue(queue, row), row.id = nextId
        PROVE  s.id = nextId
    BY <2>1, <2>2, InsertTakesUploadsFirst
  <2>3. ASSUME NEW t \in tasks, EnqueueUpload(t) PROVE s.id = nextId
    BY <2>2, <2>3 DEF EnqueueUpload, NewRow
  <2>4. ASSUME NEW b \in batch, RequeueOne(b) PROVE s.id = nextId
    BY <2>2, <2>4 DEF RequeueOne, NewRow
  <2>5. ASSUME NEW n \in Incidents, QueueIncident(n) PROVE s.id = nextId
    BY <2>2, <2>5 DEF QueueIncident, NewRow
  <2>6. CASE EnforceLimit
    <3>1. queue' = EnforceQueueLimit(queue) /\ s.kind = "upload" /\ s \in queue'
      BY <2>6 DEF EnforceLimit, Uploads
    <3>2. s \in queue
      BY <3>1, LimitKeepsTombstones
    <3>3. EvictedBefore(s, r)
      BY <3>1 DEF EvictedBefore, PriorityOf
    <3> QED
      BY <2>1, <3>1, <3>2, <3>3, LimitEvictsInOrder
  <2>7. ASSUME NEW ids, queue' = RecordFailure(queue, ids), r.id \notin ids
        PROVE  FALSE
    BY <2>7 DEF RecordFailure
  <2>8. ASSUME NEW b \in batch, DeleteConfirmed(b) \/ DeleteFailed(b) PROVE FALSE
    <3>1. r.id # b.id
      BY <2>8 DEF DeletionBatch, DeleteConfirmed, DeleteFailed
    <3> QED
      BY <2>7, <2>8, <3>1 DEF DeleteConfirmed, DeleteFailed, Remove
  <2>9. CASE UploadsConfirmed
    BY <2>9 DEF UploadsConfirmed, AcknowledgeRows
  <2>10. CASE UploadsFailed
    <3>1. \A b \in batch : r.id # b.id
      BY <2>10 DEF UploadBatch, UploadsFailed
    <3> QED
      BY <2>7, <2>10, <3>1 DEF UploadsFailed
  <2>11. ASSUME NEW t \in tasks, DeleteGrc(t) PROVE FALSE
    BY <2>11 DEF DeleteGrc, DeleteGrcRows
  <2>12. ASSUME UNCHANGED queue \/ UNCHANGED <<nextId, pc>> PROVE FALSE
    BY <2>12
  <2>13. ASSUME NEW t \in tasks, \/ Upsert(t) \/ UpsertFails(t) \/ CancelDelete(t)
                                 \/ TaskFails(t)
         PROVE  FALSE
    BY <2>12, <2>13 DEF Upsert, UpsertFails, CancelDelete, TaskFails, dbVars, jobVars
  <2>14. ASSUME NEW j \in Ids, \/ StartSave(j) \/ StartDelete(j) \/ StartRestore(j)
                               \/ RemoteEdit(j) \/ RemoteDelete(j)
         PROVE  FALSE
    BY <2>12, <2>14 DEF StartSave, StartDelete, StartRestore, RemoteEdit,
                        RemoteDelete, dbVars
  <2>15. ASSUME NEW x, BackoffElapses(x) \/ IncidentTried(x) \/ SendDelete(x)
         PROVE  FALSE
    BY <2>12, <2>15 DEF BackoffElapses, IncidentTried, SendDelete, dbVars, jobVars
  <2>16. ASSUME \/ BeginHeartbeat \/ ReadDeletions \/ DeletionsDone
                \/ DeleteUnacknowledged \/ ReadUploads \/ SendUploads
                \/ UploadsShort \/ Fetch \/ FetchFails \/ Reconcile
                \/ RequeueRead \/ RequeueDone \/ JobFault \/ Crash
                \/ UNCHANGED vars
         PROVE  FALSE
    <3>1. UNCHANGED queue
      BY <2>16 DEF BeginHeartbeat, ReadDeletions, DeletionsDone,
         DeleteUnacknowledged, ReadUploads, SendUploads, UploadsShort, Fetch,
         FetchFails, Reconcile, RequeueRead, RequeueDone, JobFault, Crash, dbVars,
         vars
    <3> QED
      BY <2>12, <3>1
  <2> QED
    BY <2>3, <2>4, <2>5, <2>6, <2>8, <2>9, <2>10, <2>11, <2>13, <2>14, <2>15,
       <2>16 DEF Next, UserStep, JobStep, EnvironmentStep
<1> QED
  BY <1>1, <1>2, <1>3, PTL DEF Spec, IncidentsEvictedLast

-----------------------------------------------------------------------------
(* The edits of a record reach the platform in order *)

LEMMA SentTransitive ==
  ASSUME NEW x \in QueueRow, NEW y \in QueueRow, NEW z \in QueueRow,
         SentBefore(x, y), SentBefore(y, z)
  PROVE  SentBefore(x, z)
<1>1. /\ x.id \in Nat /\ y.id \in Nat /\ z.id \in Nat
      /\ PriorityOf(x) \in {0, 10} /\ PriorityOf(y) \in {0, 10}
      /\ PriorityOf(z) \in {0, 10}
  BY DEF QueueRow, PriorityOf
<1> QED
  BY <1>1 DEF SentBefore

\* A request that holds a row holds the rows that go before it
\* (ORDER BY priority DESC, created_at ASC LIMIT n).
LEMMA FirstSentClosed ==
  ASSUME NEW rows \in SUBSET QueueRow, IsFiniteSet(rows), NEW n \in Int,
         NEW r \in FirstRows(rows, n, SentBefore),
         NEW s \in rows, SentBefore(s, r)
  PROVE  s \in FirstRows(rows, n, SentBefore)
<1> DEFINE Before(x) == {y \in rows : SentBefore(y, x)}
<1>1. r \in rows /\ Cardinality(Before(r)) < n
  BY DEF FirstRows
<1>2. Before(s) \subseteq Before(r)
  BY <1>1, SentTransitive
<1>3. IsFiniteSet(Before(r)) /\ IsFiniteSet(Before(s))
  BY FS_Subset
<1> HIDE DEF Before
<1>4. /\ Cardinality(Before(s)) <= Cardinality(Before(r))
      /\ Cardinality(Before(s)) \in Nat /\ Cardinality(Before(r)) \in Nat
  BY <1>2, <1>3, FS_Subset, FS_CardinalityType
<1>5. Cardinality(Before(s)) < n
  BY <1>1, <1>4
<1> QED
  BY <1>5 DEF FirstRows, Before

\* A batch of uploads that holds a row holds the older ones of the record that
\* never failed.
LEMMA OlderReadToo ==
  ASSUME NEW q \in SUBSET QueueRow, IsFiniteSet(q),
         \A r \in q : r.retry = "waiting" => r.attempts > 0,
         NEW b \in GetPendingFor(q, "upload"), NEW s \in Uploads(q),
         s.id < b.id, s.attempts = 0
  PROVE  s \in GetPendingFor(q, "upload")
<1> DEFINE rows == {r \in Due(q) : r.kind = "upload"}
<1>1. rows \subseteq q /\ rows \in SUBSET QueueRow
  BY DEF Due
<1>2. s \in rows
  <2>1. s \in q /\ s.kind = "upload" /\ s.retry \in {"due", "waiting"}
    BY DEF Uploads, QueueRow
  <2>2. s.retry = "due" /\ ~Exhausted(s)
    BY <2>1 DEF Exhausted
  <2> QED
    BY <2>1, <2>2 DEF Due
<1>3. GetPendingFor(q, "upload") = FirstRows(rows, Batch, SentBefore)
  BY DEF GetPendingFor
<1>4. b.kind = "upload" /\ s.kind = "upload"
  BY <1>2 DEF GetPendingFor, FirstRows
<1>5. SentBefore(s, b)
  BY <1>4 DEF SentBefore, PriorityOf
<1> HIDE DEF rows
<1>6. IsFiniteSet(rows) /\ Batch \in Int
  BY <1>1, FS_Subset
<1>7. b \in FirstRows(rows, Batch, SentBefore)
  BY <1>3, Zenon
<1>8. s \in FirstRows(rows, Batch, SentBefore)
  BY <1>1, <1>2, <1>5, <1>6, <1>7, FirstSentClosed
<1> QED
  BY <1>3, <1>8, Zenon

\* Where the batch being sent comes from.
LEMMA BatchSource ==
  ASSUME [Next]_vars, pc' \in {"uploads", "uploadReply"}
  PROVE  \/ ReadUploads
         \/ pc \in {"uploads", "uploadReply"} /\ (batch' = batch \/ UploadsFailed)
<1> DEFINE Goal == \/ ReadUploads
                   \/ pc \in {"uploads", "uploadReply"} /\ (batch' = batch \/ UploadsFailed)
<1>1. CASE UserStep \/ EnvironmentStep \/ UNCHANGED vars
  <2>1. (pc' = pc /\ batch' = batch) \/ pc' \in {"startupFetch", "requeueRead"}
    BY <1>1 DEF UserStep, EnvironmentStep, vars, StartSave, StartDelete,
       StartRestore, Upsert, UpsertFails, CancelDelete, EnqueueUpload, DeleteGrc,
       TaskFails, BackoffElapses, IncidentTried, QueueIncident, RemoteEdit,
       RemoteDelete, Crash, jobVars
  <2> QED
    BY <2>1
<1>2. CASE SendUploads
  BY <1>2 DEF SendUploads
<1>3. CASE \/ BeginHeartbeat \/ EnforceLimit \/ ReadDeletions \/ DeletionsDone
           \/ (\E r \in batch : SendDelete(r) \/ DeleteConfirmed(r) \/ DeleteFailed(r))
           \/ DeleteUnacknowledged \/ UploadsConfirmed \/ UploadsShort
           \/ Fetch \/ FetchFails \/ Reconcile \/ RequeueRead
           \/ RequeueDone \/ (\E r \in batch : RequeueOne(r)) \/ JobFault
  <2>1. pc' \notin {"uploads", "uploadReply"}
    BY <1>3 DEF BeginHeartbeat, EnforceLimit, ReadDeletions, DeletionsDone,
       SendDelete, DeleteConfirmed, DeleteFailed,
       DeleteUnacknowledged, UploadsConfirmed, UploadsShort,
       Fetch, FetchFails, Reconcile, RequeueRead, RequeueDone, RequeueOne,
       JobFault, AfterDeletions, AfterUploads, AfterDownload, FetchStages,
       ReconcileStages
  <2> QED
    BY <2>1
<1>4. CASE UploadsFailed
  BY <1>4 DEF UploadsFailed
<1> HIDE DEF Goal
<1>5. Goal
  BY <1>1, <1>2, <1>3, <1>4 DEF Next, JobStep, Goal
<1> QED
  BY <1>5 DEF Goal

\* The uploads around after a step were around before it, or one was queued.
LEMMA AroundStep ==
  ASSUME TypeOK, RowIdsUnique, [Next]_vars, NEW r, r \in UploadsAround'
  PROVE  \/ \E s \in UploadsAround : SameRow(r, s)
         \/ \E t \in tasks : /\ EnqueueUpload(t)
                             /\ r = NewRow(nextId, "upload", t.id, t.version)
         \/ \E b \in batch : /\ RequeueOne(b)
                             /\ r = NewRow(nextId, "upload", b.entity, b.version)
<1>1. CASE r \in Uploads(queue')
  BY <1>1, UploadRows DEF UploadsAround
<1>2. CASE pc' \in {"uploads", "uploadReply"} /\ r \in batch'
  <2>1. r \in UploadsAround /\ r \in QueueRow
    <3>1. CASE ReadUploads
      <4>1. r \in Uploads(queue)
        BY <1>2, <3>1, UploadsRead DEF ReadUploads
      <4> QED
        BY <4>1 DEF UploadsAround, Uploads, TypeOK
    <3>2. CASE pc \in {"uploads", "uploadReply"} /\ (batch' = batch \/ UploadsFailed)
      BY <1>2, <3>2 DEF UploadsAround, BeingSent, UploadsFailed, TypeOK
    <3> QED
      BY <1>2, <3>1, <3>2, BatchSource
  <2>2. SameRow(r, r)
    BY <2>1 DEF SameRow, QueueRow
  <2> QED
    BY <2>1, <2>2
<1> QED
  BY <1>1, <1>2 DEF UploadsAround, BeingSent

\* Where the tasks come from: each goes on with its edit, whose upload is queued
\* only once, or begins with a new one.
LEMMA TaskSource ==
  ASSUME TypeOK, OneTaskPerRecord, [Next]_vars, NEW t \in tasks', t.step # "delete"
  PROVE  \/ \E u \in tasks : /\ u.id = t.id /\ u.version = t.version
                             /\ u.step # "delete"
                             /\ \A v \in tasks : EnqueueUpload(v) => v.id # t.id
         \/ /\ t.version = version + 1 /\ version' = version + 1 /\ t.id \in Ids
            /\ UNCHANGED <<queue, pc, batch, platform>>
<1> DEFINE Goal ==
         \/ \E u \in tasks : /\ u.id = t.id /\ u.version = t.version
                             /\ u.step # "delete"
                             /\ \A v \in tasks : EnqueueUpload(v) => v.id # t.id
         \/ /\ t.version = version + 1 /\ version' = version + 1 /\ t.id \in Ids
            /\ UNCHANGED <<queue, pc, batch, platform>>
<1>1. ASSUME t \in tasks PROVE Goal
  <2>1. ASSUME NEW v \in tasks, EnqueueUpload(v), v.id = t.id PROVE FALSE
    BY <1>1, <2>1 DEF OneTaskPerRecord, EnqueueUpload
  <2> QED
    BY <1>1, <2>1
<1>2. ASSUME NEW v \in tasks, EnqueueUpload(v) PROVE nextId' = nextId + 1
  BY <1>2 DEF EnqueueUpload
<1>3. nextId \in Nat
  BY DEF TypeOK
<1>4. ASSUME NEW u \in tasks, NEW step, t = [u EXCEPT !.step = step],
             u.step # "delete", nextId' = nextId
      PROVE  Goal
  <2>1. t.id = u.id /\ t.version = u.version
    BY <1>4 DEF TypeOK, Tasks
  <2>2. \A v \in tasks : ~EnqueueUpload(v)
    BY <1>2, <1>3, <1>4
  <2> QED
    BY <1>4, <2>1, <2>2
<1>5. ASSUME NEW u \in tasks, Upsert(u) \/ UpsertFails(u) \/ CancelDelete(u) PROVE Goal
  <2>1. /\ u.step # "delete" /\ nextId' = nextId
        /\ t \in tasks \/ \E step : t = [u EXCEPT !.step = step]
    BY <1>5 DEF Upsert, UpsertFails, CancelDelete, dbVars
  <2> HIDE DEF Goal
  <2> QED
    BY <1>1, <1>4, <2>1
<1>6. ASSUME NEW u \in tasks, EnqueueUpload(u) \/ DeleteGrc(u) \/ TaskFails(u)
      PROVE  Goal
  <2>1. t \in tasks
    BY <1>6 DEF EnqueueUpload, DeleteGrc, TaskFails
  <2> QED
    BY <1>1, <2>1
<1>7. ASSUME NEW j \in Ids, StartSave(j) \/ StartRestore(j) PROVE Goal
  <2>1. CASE t \in tasks
    BY <1>1, <2>1
  <2>2. CASE t \notin tasks
    BY <1>7, <2>2 DEF StartSave, StartRestore, dbVars, jobVars
  <2> QED
    BY <2>1, <2>2
<1>8. ASSUME NEW j \in Ids, StartDelete(j) PROVE Goal
  <2>1. t \in tasks
    BY <1>8 DEF StartDelete
  <2> QED
    BY <1>1, <2>1
<1>9. ASSUME JobStep \/ EnvironmentStep PROVE Goal
  <2>1. t \in tasks
    BY <1>9, OthersAddNoTombstone
  <2> QED
    BY <1>1, <2>1
<1>10. ASSUME UNCHANGED vars PROVE Goal
  BY <1>1, <1>10 DEF vars
<1> HIDE DEF Goal
<1>11. ASSUME UserStep PROVE Goal
  BY <1>5, <1>6, <1>7, <1>8, <1>11 DEF UserStep
<1>12. Goal
  BY <1>9, <1>10, <1>11 DEF Next
<1> QED
  BY <1>12 DEF Goal

\* An older row of a record does not stay when a younger one leaves: the younger
\* one was acknowledged, or is still there.
LEMMA YoungerStays ==
  ASSUME TypeOK, RowIdsUnique, DeletionBatch, IsFiniteSet(queue), [Next]_vars,
         NEW x \in Uploads(queue), NEW y \in Uploads(queue),
         x.entity = y.entity, x.id < y.id,
         NEW x1 \in Uploads(queue'), SameRow(x1, x)
  PROVE  \/ \E z \in Uploads(queue') : SameRow(z, y)
         \/ UploadsConfirmed /\ y.id \in RowIds(batch)
<1> DEFINE Goal == \/ \E z \in Uploads(queue') : SameRow(z, y)
                   \/ UploadsConfirmed /\ y.id \in RowIds(batch)
<1>0. /\ queue \in SUBSET QueueRow /\ nextId \in Nat
      /\ x \in queue /\ y \in queue /\ x.kind = "upload" /\ y.kind = "upload"
      /\ x.id \in Nat /\ y.id \in Nat /\ y.id < nextId
      /\ x1 \in queue' /\ x1.id = x.id /\ x1.entity = x.entity
      /\ x1.kind = "upload"
      /\ \A s \in queue : SameRow(s, s)
  BY DEF TypeOK, RowIdsUnique, Uploads, QueueRow, SameRow
<1>1. EvictedBefore(x, y)
  BY <1>0 DEF EvictedBefore, PriorityOf
<1>2. ASSUME y \in queue' PROVE Goal
  BY <1>0, <1>2 DEF Uploads
<1>3. ASSUME \A s \in queue : \E r \in queue' : SameRow(r, s) PROVE Goal
  <2>1. PICK z \in queue' : SameRow(z, y)
    BY <1>0, <1>3
  <2>2. z \in Uploads(queue')
    BY <1>0, <2>1 DEF SameRow, Uploads
  <2> QED
    BY <2>1, <2>2
<1>4. ASSUME NEW ids, queue' = RecordFailure(queue, ids) PROVE Goal
  BY <1>0, <1>3, <1>4, FailureSameRows
<1>5. ASSUME NEW row, queue' = Enqueue(queue, row), row.id = nextId PROVE Goal
  <2>1. CASE y \in EvictForInsert(queue)
    BY <1>2, <1>5, <2>1 DEF Enqueue
  <2>2. CASE y \notin EvictForInsert(queue)
    <3>1. x \notin EvictForInsert(queue)
      BY <1>0, <1>1, <2>2, InsertEvictsInOrder
    <3>2. x1 \in EvictForInsert(queue)
      BY <1>0, <1>5 DEF Enqueue
    <3>3. x1 \in queue
      BY <3>2, EvictionKeepsTombstones
    <3> QED
      BY <1>0, <3>1, <3>2, <3>3 DEF RowIdsUnique
  <2> QED
    BY <2>1, <2>2
<1>6. ASSUME NEW t \in tasks, EnqueueUpload(t) PROVE Goal
  BY <1>5, <1>6 DEF EnqueueUpload, NewRow
<1>7. ASSUME NEW n \in Incidents, QueueIncident(n) PROVE Goal
  BY <1>5, <1>7 DEF QueueIncident, NewRow
<1>8. ASSUME EnforceLimit PROVE Goal
  <2>1. queue' = EnforceQueueLimit(queue)
    BY <1>8 DEF EnforceLimit
  <2>2. x1 \in queue
    BY <1>0, <2>1, LimitKeepsTombstones
  <2>3. x1 = x
    BY <1>0, <2>2 DEF RowIdsUnique
  <2>4. y \in EnforceQueueLimit(queue)
    BY <1>0, <1>1, <2>1, <2>3, LimitEvictsInOrder
  <2> QED
    BY <1>2, <2>1, <2>4
<1>9. ASSUME NEW t \in tasks, DeleteGrc(t) PROVE Goal
  <2>1. queue' = DeleteGrcRows(queue, t.id, nextId)
    BY <1>9 DEF DeleteGrc
  <2>2. x1.entity # t.id
    BY <1>0, <2>1 DEF DeleteGrcRows, NewRow
  <2>3. y \in queue'
    BY <1>0, <2>1, <2>2 DEF DeleteGrcRows
  <2> QED
    BY <1>2, <2>3
<1>10. ASSUME NEW t \in tasks, CancelDelete(t) PROVE Goal
  BY <1>0, <1>2, <1>10 DEF CancelDelete, CancelGrcDelete
<1>11. ASSUME NEW b \in batch, DeleteConfirmed(b) \/ DeleteFailed(b) PROVE Goal
  <2>1. y.id # b.id
    BY <1>0, <1>11 DEF DeletionBatch, DeleteConfirmed, DeleteFailed
  <2> QED
    BY <1>0, <1>2, <1>4, <1>11, <2>1 DEF DeleteConfirmed, DeleteFailed, Remove
<1>12. ASSUME UploadsConfirmed PROVE Goal
  BY <1>0, <1>2, <1>12 DEF UploadsConfirmed, AcknowledgeRows
<1>13. ASSUME UploadsFailed PROVE Goal
  BY <1>4, <1>13 DEF UploadsFailed
<1>14. ASSUME NEW r \in queue, IncidentTried(r) PROVE Goal
  <2>1. r.kind = "incident"
    BY <1>14 DEF IncidentTried, GetPendingFor, FirstRows, Due
  <2>2. y.id # r.id
    BY <1>0, <2>1 DEF RowIdsUnique
  <2> QED
    BY <1>0, <1>2, <1>4, <1>14, <2>2 DEF IncidentTried, Remove
<1>15. ASSUME NEW r \in queue, BackoffElapses(r) PROVE Goal
  <2>1. PICK d : d = [r EXCEPT !.retry = "due"]
    OBVIOUS
  <2>2. SameRow(d, r)
    BY <1>0, <2>1 DEF SameRow, QueueRow
  <2>3. queue' = (queue \ {r}) \union {d}
    BY <1>15, <2>1 DEF BackoffElapses
  <2> QED
    BY <1>0, <1>3, <2>2, <2>3
<1>16. ASSUME UNCHANGED queue PROVE Goal
  BY <1>0, <1>2, <1>16
<1>17. ASSUME NEW t \in tasks, Upsert(t) \/ UpsertFails(t) \/ TaskFails(t) PROVE Goal
  BY <1>16, <1>17 DEF Upsert, UpsertFails, TaskFails, dbVars
<1>18. ASSUME NEW j \in Ids, \/ StartSave(j) \/ StartDelete(j) \/ StartRestore(j)
                             \/ RemoteEdit(j) \/ RemoteDelete(j)
       PROVE  Goal
  BY <1>16, <1>18 DEF StartSave, StartDelete, StartRestore, RemoteEdit,
                      RemoteDelete, dbVars
<1>19. ASSUME \/ BeginHeartbeat \/ ReadDeletions \/ DeletionsDone
              \/ (\E b \in batch : SendDelete(b))
              \/ DeleteUnacknowledged \/ ReadUploads \/ SendUploads
              \/ UploadsShort \/ Fetch \/ FetchFails \/ Reconcile
              \/ RequeueRead \/ RequeueDone \/ JobFault \/ Crash
              \/ UNCHANGED vars
       PROVE  Goal
  <2>1. UNCHANGED queue
    BY <1>19 DEF BeginHeartbeat, ReadDeletions, DeletionsDone, SendDelete,
       DeleteUnacknowledged, ReadUploads, SendUploads, UploadsShort, Fetch,
       FetchFails, Reconcile, RequeueRead, RequeueDone, JobFault, Crash, dbVars,
       vars
  <2> QED
    BY <1>16, <2>1
<1>20. ASSUME NEW b \in batch, RequeueOne(b) PROVE Goal
  BY <1>5, <1>20 DEF RequeueOne, NewRow
<1> HIDE DEF Goal
<1>21. ASSUME UserStep PROVE Goal
  BY <1>6, <1>9, <1>10, <1>17, <1>18, <1>21 DEF UserStep
<1>22. ASSUME JobStep PROVE Goal
  BY <1>8, <1>11, <1>12, <1>13, <1>19, <1>20, <1>22 DEF JobStep
<1>23. ASSUME EnvironmentStep PROVE Goal
  BY <1>7, <1>14, <1>15, <1>18, <1>19, <1>23 DEF EnvironmentStep
<1>24. Goal
  BY <1>19, <1>21, <1>22, <1>23 DEF Next
<1> QED
  BY <1>24 DEF Goal

LEMMA VersionGrows ==
  ASSUME TypeOK, [Next]_vars
  PROVE  version \in Nat /\ version' \in {version, version + 1}
<1>1. version \in Nat
  BY DEF TypeOK
<1>2. version' \in {version, version + 1}
  BY DEF Next, UserStep, JobStep, EnvironmentStep, vars, StartSave, StartDelete,
     StartRestore, Upsert, UpsertFails, CancelDelete, EnqueueUpload, DeleteGrc,
     TaskFails, BeginHeartbeat, EnforceLimit, ReadDeletions, DeletionsDone,
     SendDelete, DeleteConfirmed, DeleteFailed, DeleteUnacknowledged,
     ReadUploads, SendUploads, UploadsConfirmed, UploadsShort, UploadsFailed,
     Fetch, FetchFails, Reconcile, RequeueRead, RequeueOne, RequeueDone,
     JobFault, BackoffElapses, IncidentTried, QueueIncident, RemoteEdit,
     RemoteDelete, Crash
<1> QED
  BY <1>1, <1>2

\* The numbers and versions of the uploads around.
LEMMA AroundRows ==
  ASSUME TypeOK, RowIdsUnique, UploadBatch, NEW r \in UploadsAround
  PROVE  r.id \in Nat /\ r.id < nextId /\ r.version \in Nat /\ nextId \in Nat
<1>1. CASE r \in Uploads(queue)
  BY <1>1 DEF TypeOK, RowIdsUnique, Uploads, QueueRow
<1>2. CASE r \in BeingSent
  BY <1>2 DEF TypeOK, UploadBatch, BeingSent, QueueRow
<1> QED
  BY <1>1, <1>2 DEF UploadsAround

\* Edits are queued in the order they were made.
LEMMA EditsOrderStep ==
  ASSUME OrderInv, [Next]_vars, RequeuesRecords, ~StaleRequeue
  PROVE  EditsInOrder'
<1> USE DEF OrderInv, TaskInv
<1> DEFINE Old(r) == \E s \in UploadsAround : SameRow(r, s)
           New(r) == \/ \E t \in tasks :
                          /\ EnqueueUpload(t)
                          /\ r = NewRow(nextId, "upload", t.id, t.version)
                     \/ \E b \in batch :
                          /\ RequeueOne(b)
                          /\ r = NewRow(nextId, "upload", b.entity, b.version)
<1>1. \A r \in UploadsAround' : Old(r) \/ New(r)
  BY AroundStep
<1>2. \A r \in UploadsAround : r.id \in Nat /\ r.id < nextId /\ r.version \in Nat
  BY AroundRows
<1>3. /\ version \in Nat /\ version' \in {version, version + 1} /\ nextId \in Nat
      /\ \A t \in tasks : t.version \in Nat
  BY VersionGrows DEF TypeOK, Tasks
<1>4. ASSUME NEW r, New(r)
      PROVE  /\ r.id = nextId /\ r.version <= version /\ r.version \in Nat
             /\ \A s \in UploadsAround : s.entity = r.entity => s.version <= r.version
             /\ \A t \in tasks : t.id = r.entity /\ t.step # "delete" =>
                  \/ r.version <= t.version
                  \/ EnqueueUpload(t)
  <2>1. ASSUME NEW t \in tasks, EnqueueUpload(t),
               r = NewRow(nextId, "upload", t.id, t.version)
        PROVE  /\ r.id = nextId /\ t.step = "enqueue"
               /\ r.entity = t.id /\ r.version = t.version
    BY <2>1 DEF NewRow, EnqueueUpload
  <2>2. ASSUME NEW b \in batch, RequeueOne(b),
               r = NewRow(nextId, "upload", b.entity, b.version)
        PROVE  /\ r.id = nextId /\ r.entity = b.entity /\ r.version = b.version
               /\ b.entity \in Ids /\ b.version = local[b.entity]
               /\ b.version \in Nat /\ b.entity \notin synced
               /\ local[b.entity] # 0 /\ HoldsNewest(b.entity)
    <3>1. r.id = nextId /\ r.entity = b.entity /\ r.version = b.version
      BY <2>2 DEF NewRow
    <3>2. pc = "requeue" /\ local[b.entity] = b.version /\ b.version # 0
      BY <2>2 DEF RequeueOne, StaleRequeue, RequeuesRecords
    <3>3. b.entity \in Ids /\ b.entity \notin synced /\ HoldsNewest(b.entity)
      BY <3>2 DEF RequeuesNewest
    <3> QED
      BY <3>1, <3>2, <3>3 DEF TypeOK
  <2>3. CASE \E t \in tasks : /\ EnqueueUpload(t)
                             /\ r = NewRow(nextId, "upload", t.id, t.version)
    BY <1>3, <2>1, <2>3 DEF EditsInOrder, OneTaskPerRecord
  <2>4. CASE \E b \in batch : /\ RequeueOne(b)
                             /\ r = NewRow(nextId, "upload", b.entity, b.version)
    BY <2>2, <2>4 DEF HoldsNewest
  <2> QED
    BY <1>4, <2>3, <2>4
<1>5. ASSUME NEW r, Old(r) PROVE r.id \in Nat /\ r.id < nextId
  BY <1>2, <1>5 DEF SameRow
<1> HIDE DEF New
<1>6. ASSUME NEW r \in UploadsAround', NEW s \in UploadsAround',
             r.entity = s.entity, r.id < s.id
      PROVE  r.version <= s.version
  <2>1. CASE Old(r) /\ Old(s)
    <3>1. PICK r0 \in UploadsAround : SameRow(r, r0)
      BY <2>1
    <3>2. PICK s0 \in UploadsAround : SameRow(s, s0)
      BY <2>1
    <3> QED
      BY <1>6, <3>1, <3>2 DEF EditsInOrder, SameRow
  <2>2. CASE Old(r) /\ New(s)
    <3>1. PICK r0 \in UploadsAround : SameRow(r, r0)
      BY <2>2
    <3>2. r0.version <= s.version
      BY <1>4, <1>6, <2>2, <3>1 DEF SameRow
    <3> QED
      BY <3>1, <3>2 DEF SameRow
  <2>3. CASE New(r)
    BY <1>1, <1>3, <1>4, <1>5, <1>6, <2>3
  <2> QED
    BY <1>1, <2>1, <2>2, <2>3
<1>7. ASSUME NEW r \in UploadsAround' PROVE r.version <= version'
  <2>1. CASE Old(r)
    <3>1. PICK r0 \in UploadsAround : SameRow(r, r0)
      BY <2>1
    <3>2. r.version <= version /\ r.version \in Nat
      BY <1>2, <3>1 DEF EditsInOrder, SameRow
    <3> QED
      BY <1>3, <3>2
  <2>2. CASE New(r)
    <3>1. r.version <= version /\ r.version \in Nat
      BY <1>4, <2>2
    <3> QED
      BY <1>3, <3>1
  <2> QED
    BY <1>1, <2>1, <2>2
<1>8. ASSUME NEW t \in tasks', t.step # "delete"
      PROVE  /\ t.version <= version'
             /\ \A r \in UploadsAround' : r.entity = t.id => r.version <= t.version
  <2>1. CASE \E u \in tasks : /\ u.id = t.id /\ u.version = t.version
                               /\ u.step # "delete"
                               /\ \A v \in tasks : EnqueueUpload(v) => v.id # t.id
    <3>1. PICK u \in tasks : /\ u.id = t.id /\ u.version = t.version
                             /\ u.step # "delete"
                             /\ \A v \in tasks : EnqueueUpload(v) => v.id # t.id
      BY <2>1
    <3>2. t.version <= version'
      BY <1>3, <3>1 DEF EditsInOrder
    <3>3. ASSUME NEW r \in UploadsAround', r.entity = t.id PROVE r.version <= t.version
      <4>1. CASE New(r)
        BY <1>4, <3>1, <3>3, <4>1
      <4>2. ASSUME NEW r0 \in UploadsAround, SameRow(r, r0) PROVE r.version <= t.version
        BY <3>1, <3>3, <4>2 DEF EditsInOrder, SameRow
      <4> QED
        BY <1>1, <3>3, <4>1, <4>2
    <3> QED
      BY <3>2, <3>3
  <2>2. CASE /\ t.version = version + 1 /\ version' = version + 1
             /\ UNCHANGED <<queue, pc, batch, platform>>
    <3>1. UploadsAround' = UploadsAround
      BY <2>2 DEF UploadsAround, BeingSent, Uploads
    <3>2. \A r \in UploadsAround : r.version <= version
      BY DEF EditsInOrder
    <3> QED
      BY <1>2, <1>3, <2>2, <3>1, <3>2
  <2> QED
    BY <1>8, <2>1, <2>2, TaskSource
<1> QED
  BY <1>6, <1>7, <1>8 DEF EditsInOrder

\* record_failure: the row counts one more attempt.
LEMMA FailedIsTried ==
  ASSUME NEW q \in SUBSET QueueRow, NEW id, NEW s \in RecordFailure(q, {id}), s.id = id
  PROVE  s.attempts # 0
<1>1. PICK r \in q : s = IF r.id \in {id} /\ ~BackoffOverflows(r) THEN FailedRow(r) ELSE r
  BY DEF RecordFailure
<1>2. r.attempts \in Nat /\ PowWidth \in Nat /\ PowWidth > 1
  BY QueueAssumption DEF QueueRow
<1>3. CASE BackoffOverflows(r)
  BY <1>1, <1>2, <1>3 DEF BackoffOverflows
<1>4. CASE ~BackoffOverflows(r)
  <2>1. r.id = id
    BY <1>1, <1>4, FailedRowFields
  <2>2. s.attempts = r.attempts + 1
    BY <1>1, <1>4, <2>1, FailedRowFields
  <2> QED
    BY <1>2, <2>2
<1> QED
  BY <1>3, <1>4

\* The older uploads of a record are sent with the younger, and leave with them.
LEMMA OldestFirstStep ==
  ASSUME OrderInv, [Next]_vars
  PROVE  OldestFirst'
<1> USE DEF OrderInv, TaskInv
<1>0. /\ queue \in SUBSET QueueRow /\ nextId \in Nat
      /\ \A r, s \in queue : r.id = s.id => r = s
  BY DEF TypeOK, RowIdsUnique
<1> SUFFICES ASSUME NEW b \in BeingSent', NEW s \in Uploads(queue'),
                    s.entity = b.entity, s.id < b.id
             PROVE  /\ s.attempts = 0 => s.id \in RowIds(batch')
                    /\ \E z \in Uploads(queue') : z.id = b.id
  BY DEF OldestFirst
<1>1. pc' \in {"uploads", "uploadReply"} /\ b \in batch'
  BY DEF BeingSent
<1>2. CASE ReadUploads
  <2>1. /\ queue' = queue /\ batch' = GetPendingFor(queue, "upload")
        /\ b \in Uploads(queue)
    BY <1>1, <1>2, UploadsRead DEF ReadUploads, dbVars
  <2>2. ASSUME s.attempts = 0 PROVE s \in batch'
    BY <1>0, <1>1, <2>1, <2>2, OlderReadToo
  <2> QED
    BY <2>1, <2>2 DEF RowIds
<1>3. CASE pc \in {"uploads", "uploadReply"} /\ (batch' = batch \/ UploadsFailed)
  <2>0. b \in batch
    BY <1>1, <1>3 DEF UploadsFailed
  <2>1. b \in BeingSent /\ b.id < nextId /\ b.id \in Nat
    BY <1>3, <2>0 DEF BeingSent, UploadBatch, TypeOK, QueueRow
  <2>2. ~ \E c \in batch : RequeueOne(c)
    BY <1>3 DEF RequeueOne
  <2>3. PICK x \in Uploads(queue) : SameRow(s, x)
    <3>1. ASSUME NEW t \in tasks, s = NewRow(nextId, "upload", t.id, t.version)
          PROVE  FALSE
      BY <1>0, <2>1, <3>1 DEF NewRow
    <3> QED
      BY <2>2, <3>1, UploadRows
  <2>4. x.entity = b.entity /\ x.id < b.id /\ x.attempts <= s.attempts
        /\ x.attempts \in Nat /\ x.id = s.id
    BY <1>0, <2>3 DEF SameRow, Uploads, QueueRow
  <2>5. /\ x.attempts = 0 => x.id \in RowIds(batch)
        /\ \E z \in Uploads(queue) : z.id = b.id
    BY <2>1, <2>4 DEF OldestFirst
  <2>6. PICK y \in Uploads(queue) : y.id = b.id
    BY <2>5
  <2>7. y.entity = b.entity
    BY <1>3, <2>0, <2>6 DEF UploadBatch, Uploads
  <2>8. ~UploadsConfirmed
    BY <1>1 DEF UploadsConfirmed, AfterUploads
  <2>9. \E z \in Uploads(queue') : SameRow(z, y)
    BY <2>3, <2>4, <2>6, <2>7, <2>8, YoungerStays
  <2>10. \E z \in Uploads(queue') : z.id = b.id
    BY <2>6, <2>9 DEF SameRow
  <2>11. s.attempts = 0 => s.id \in RowIds(batch')
    <3>1. ASSUME s.attempts = 0 PROVE s.id \in RowIds(batch)
      BY <2>4, <2>5, <3>1
    <3>2. ASSUME UploadsFailed, s.attempts = 0 PROVE s.id \in RowIds(batch')
      <4>1. PICK r \in batch : queue' = RecordFailure(queue, {r.id}) /\ batch' = batch \ {r}
        BY <3>2 DEF UploadsFailed
      <4>2. s.id # r.id
        BY <1>0, <3>2, <4>1, FailedIsTried DEF Uploads
      <4> QED
        BY <3>1, <3>2, <4>1, <4>2 DEF RowIds
    <3> QED
      BY <1>3, <3>1, <3>2
  <2> QED
    BY <2>10, <2>11
<1> QED
  BY <1>1, <1>2, <1>3, BatchSource

\* What the platform holds of a record nobody edited there: what it held, nothing,
\* or the version of a row of the request.
LEMMA PlatformSource ==
  ASSUME TypeOK, UploadBatch, [Next]_vars, remote' = 0, NEW i \in Ids
  PROVE  /\ remote = 0
         /\ \/ platform'[i] \in {0, platform[i]}
            \/ SendUploads /\ \E b \in batch : b.entity = i /\ platform'[i] = b.version
<1> DEFINE Goal == /\ remote = 0
                   /\ \/ platform'[i] \in {0, platform[i]}
                      \/ /\ SendUploads
                         /\ \E b \in batch : b.entity = i /\ platform'[i] = b.version
<1>0. remote \in Nat /\ platform \in [Ids -> Nat]
  BY DEF TypeOK
<1>1. ASSUME UNCHANGED <<remote, platform>> PROVE Goal
  BY <1>1
<1>2. ASSUME NEW j \in Ids, RemoteEdit(j) \/ RemoteDelete(j) PROVE FALSE
  BY <1>0, <1>2 DEF RemoteEdit, RemoteDelete
<1>3. ASSUME NEW r \in batch, SendDelete(r) PROVE Goal
  <2>1. platform'[i] \in {0, platform[i]}
    BY <1>0, <1>3 DEF SendDelete
  <2> QED
    BY <1>3, <2>1 DEF SendDelete
<1>4. ASSUME SendUploads PROVE Goal
  <2>1. PICK taken \in SUBSET batch : platform' = Stored(taken)
    BY <1>4 DEF SendUploads
  <2>2. nextId \in Nat /\ \A r \in taken : r.id \in Nat /\ r.id < nextId
    BY <1>4 DEF SendUploads, UploadBatch, TypeOK, QueueRow
  <2>3. \/ platform'[i] = platform[i]
        \/ \E r \in taken : r.entity = i /\ platform'[i] = r.version
    BY <2>1, <2>2, StoredVersions
  <2>4. remote' = remote
    BY <1>4 DEF SendUploads
  <2> QED
    BY <1>4, <2>3, <2>4
<1>5. ASSUME UserStep \/ UNCHANGED vars PROVE Goal
  <2>1. UNCHANGED <<remote, platform>>
    BY <1>5 DEF UserStep, vars, StartSave, StartDelete, StartRestore, Upsert,
       UpsertFails, CancelDelete, EnqueueUpload, DeleteGrc, TaskFails
  <2> QED
    BY <1>1, <2>1
<1>6. ASSUME \/ BeginHeartbeat \/ EnforceLimit \/ ReadDeletions \/ DeletionsDone
             \/ (\E r \in batch : DeleteConfirmed(r) \/ DeleteFailed(r))
             \/ DeleteUnacknowledged \/ ReadUploads
             \/ UploadsConfirmed \/ UploadsShort \/ UploadsFailed
             \/ Fetch \/ FetchFails \/ Reconcile \/ RequeueRead
             \/ (\E r \in batch : RequeueOne(r)) \/ RequeueDone \/ JobFault
             \/ (\E r \in queue : BackoffElapses(r) \/ IncidentTried(r))
             \/ (\E n \in Incidents : QueueIncident(n)) \/ Crash
      PROVE  Goal
  <2>1. UNCHANGED <<remote, platform>>
    BY <1>6 DEF BeginHeartbeat, EnforceLimit, ReadDeletions, DeletionsDone,
       DeleteConfirmed, DeleteFailed, DeleteUnacknowledged, ReadUploads,
       UploadsConfirmed, UploadsShort, UploadsFailed, Fetch, FetchFails,
       Reconcile, RequeueRead, RequeueOne, RequeueDone, JobFault,
       BackoffElapses, IncidentTried, QueueIncident, Crash
  <2> QED
    BY <1>1, <2>1
<1> HIDE DEF Goal
<1>7. Goal
  BY <1>2, <1>3, <1>4, <1>5, <1>6 DEF Next, JobStep, EnvironmentStep
<1> QED
  BY <1>7 DEF Goal

\* The platform is ahead of a queued edit only with one that is queued too.
LEMMA PlatformFollowsStep ==
  ASSUME OrderInv, [Next]_vars, RequeuesRecords, ~StaleRequeue
  PROVE  PlatformFollows'
<1> USE DEF OrderInv, TaskInv
<1> SUFFICES ASSUME remote' = 0
             PROVE  /\ \A i \in Ids : platform'[i] <= version'
                    /\ \A t \in tasks' : t.step # "delete" =>
                         platform'[t.id] <= t.version
                    /\ \A i \in Ids, r \in Uploads(queue') :
                         r.entity = i /\ r.attempts = 0 /\ r.version < platform'[i] =>
                           \E z \in Uploads(queue') :
                             z.entity = i /\ z.version = platform'[i]
  BY DEF PlatformFollows
<1> DEFINE Sent(i) == /\ SendUploads
                      /\ \E b \in batch : b.entity = i /\ platform'[i] = b.version
<1>0. /\ queue \in SUBSET QueueRow /\ nextId \in Nat
      /\ \A r, s \in queue : r.id = s.id => r = s
      /\ version \in Nat /\ version' \in {version, version + 1}
      /\ \A i \in Ids : platform[i] \in Nat
      /\ \A t \in tasks : t.version \in Nat /\ t.id \in Ids
  BY VersionGrows DEF TypeOK, RowIdsUnique, Tasks
<1>1. /\ \A i \in Ids : platform'[i] \in {0, platform[i]} \/ Sent(i)
      /\ remote = 0
  <2>1. CASE Ids = {}
    <3>1. remote = 0
      BY <2>1 DEF Next, UserStep, JobStep, EnvironmentStep, vars, StartSave,
         StartDelete,
         StartRestore, Upsert, UpsertFails, CancelDelete, EnqueueUpload, DeleteGrc,
         TaskFails, BeginHeartbeat, EnforceLimit, ReadDeletions, DeletionsDone,
         SendDelete, DeleteConfirmed, DeleteFailed, DeleteUnacknowledged,
         ReadUploads, SendUploads, UploadsConfirmed, UploadsShort, UploadsFailed,
         Fetch, FetchFails, Reconcile, RequeueRead, RequeueOne, RequeueDone,
         JobFault, BackoffElapses, IncidentTried, QueueIncident, Crash
    <3> QED
      BY <2>1, <3>1
  <2>2. CASE Ids # {}
    BY <2>2, PlatformSource
  <2> QED
    BY <2>1, <2>2
<1>2. /\ \A i \in Ids : platform[i] <= version
      /\ \A t \in tasks : t.step # "delete" => platform[t.id] <= t.version
  BY <1>1 DEF PlatformFollows
<1>3. ASSUME NEW i \in Ids, Sent(i)
      PROVE  \E b \in UploadsAround : /\ b \in BeingSent /\ b.entity = i
                                      /\ platform'[i] = b.version
  BY <1>3 DEF SendUploads, UploadsAround, BeingSent
<1>4. ASSUME NEW i \in Ids PROVE platform'[i] <= version
  <2>1. CASE Sent(i)
    BY <1>3, <2>1 DEF EditsInOrder
  <2>2. CASE platform'[i] \in {0, platform[i]}
    BY <1>0, <1>2, <2>2
  <2> QED
    BY <1>1, <2>1, <2>2
<1>5. ASSUME NEW i \in Ids PROVE platform'[i] \in Nat
  <2>1. CASE Sent(i)
    BY <1>3, <2>1, AroundRows
  <2>2. CASE platform'[i] \in {0, platform[i]}
    BY <1>0, <2>2
  <2> QED
    BY <1>1, <2>1, <2>2
<1>6. ASSUME NEW t \in tasks', t.step # "delete" PROVE platform'[t.id] <= t.version
  <2>1. CASE \E u \in tasks : /\ u.id = t.id /\ u.version = t.version
                               /\ u.step # "delete"
    <3>1. PICK u \in tasks : /\ u.id = t.id /\ u.version = t.version
                             /\ u.step # "delete"
      BY <2>1
    <3>2. CASE Sent(u.id)
      <4>1. PICK b \in UploadsAround : b.entity = u.id /\ platform'[u.id] = b.version
        BY <1>0, <1>3, <3>2
      <4> QED
        BY <3>1, <4>1 DEF EditsInOrder
    <3>3. CASE platform'[u.id] \in {0, platform[u.id]}
      BY <1>0, <1>2, <3>1, <3>3
    <3> QED
      BY <1>0, <1>1, <3>1, <3>2, <3>3
  <2>2. CASE t.version = version + 1 /\ t.id \in Ids
    BY <1>0, <1>4, <1>5, <2>2
  <2> QED
    BY <1>6, <2>1, <2>2, TaskSource
<1>7. ASSUME NEW i \in Ids, NEW r \in Uploads(queue'),
             r.entity = i, r.attempts = 0, r.version < platform'[i]
      PROVE  \E z \in Uploads(queue') : z.entity = i /\ z.version = platform'[i]
  <2>1. ASSUME NEW c \in batch, RequeueOne(c),
               r = NewRow(nextId, "upload", c.entity, c.version)
        PROVE  FALSE
    <3>1. /\ pc = "requeue" /\ platform' = platform /\ c.entity = i
          /\ r.version = c.version
      BY <1>7, <2>1 DEF RequeueOne, NewRow
    <3>2. c.version # 0 /\ local[i] = c.version
      BY <2>1, <3>1 DEF StaleRequeue, RequeuesRecords
    <3>3. i \notin synced /\ HoldsNewest(i)
      BY <3>1 DEF RequeuesNewest
    <3>4. platform[i] <= c.version /\ c.version \in Nat
      BY <1>1, <3>2, <3>3 DEF HoldsNewest, TypeOK
    <3> QED
      BY <1>0, <1>7, <3>1, <3>4
  <2>2. ASSUME NEW t \in tasks, EnqueueUpload(t),
               r = NewRow(nextId, "upload", t.id, t.version)
        PROVE  FALSE
    <3>1. t.step = "enqueue" /\ platform' = platform /\ t.id = i /\ r.version = t.version
      BY <1>7, <2>2 DEF EnqueueUpload, NewRow
    <3>2. platform[i] <= t.version
      BY <1>2, <3>1
    <3> QED
      BY <1>0, <1>7, <3>1, <3>2
  <2>3. PICK x \in Uploads(queue) : SameRow(r, x)
    BY <2>1, <2>2, UploadRows
  <2>4. /\ x.entity = i /\ x.version = r.version /\ x.id = r.id /\ x.attempts = 0
        /\ x \in queue /\ x.id \in Nat /\ x.version \in Nat /\ x \in UploadsAround
    BY <1>0, <1>7, <2>3 DEF SameRow, Uploads, QueueRow, UploadsAround
  <2>5. CASE platform'[i] = platform[i]
    <3>1. PICK y \in Uploads(queue) : y.entity = i /\ y.version = platform[i]
      BY <1>1, <1>7, <2>4, <2>5 DEF PlatformFollows
    <3>2. /\ y \in queue /\ y.id \in Nat /\ y.version \in Nat /\ y \in UploadsAround
          /\ x.version < y.version
      BY <1>0, <1>7, <2>4, <2>5, <3>1 DEF Uploads, QueueRow, UploadsAround
    <3>3. x.id < y.id
      <4>1. ~(y.id < x.id)
        BY <2>4, <3>1, <3>2 DEF EditsInOrder
      <4>2. y.id # x.id
        BY <1>0, <2>4, <3>2
      <4> QED
        BY <2>4, <3>2, <4>1, <4>2
    <3>4. ASSUME UploadsConfirmed, y.id \in RowIds(batch) PROVE FALSE
      <4>1. PICK b \in batch : b.id = y.id
        BY <3>4 DEF RowIds
      <4>2. b \in BeingSent /\ b.entity = i
        BY <3>1, <3>4, <4>1 DEF BeingSent, UploadsConfirmed, UploadBatch, Uploads
      <4>3. x.id \in RowIds(batch)
        BY <2>4, <3>3, <4>1, <4>2 DEF OldestFirst
      <4> QED
        BY <2>4, <3>4, <4>3 DEF UploadsConfirmed, AcknowledgeRows, Uploads
    <3>5. PICK z \in Uploads(queue') : SameRow(z, y)
      BY <2>3, <2>4, <3>1, <3>3, <3>4, YoungerStays
    <3> QED
      BY <2>5, <3>1, <3>5 DEF SameRow
  <2>6. CASE Sent(i)
    <3>1. PICK b \in UploadsAround : /\ b \in BeingSent /\ b.entity = i
                                     /\ platform'[i] = b.version
      BY <1>3, <2>6
    <3>2. b.id \in Nat /\ b.version \in Nat /\ b \in batch /\ queue' = queue
      BY <2>6, <3>1, AroundRows DEF BeingSent, SendUploads, dbVars
    <3>3. x.id < b.id
      <4>1. ~(b.id < x.id)
        BY <1>7, <2>4, <3>1, <3>2 DEF EditsInOrder
      <4>2. b.id # x.id
        BY <1>7, <2>4, <2>6, <3>1, <3>2 DEF UploadBatch, SendUploads
      <4> QED
        BY <2>4, <3>2, <4>1, <4>2
    <3>4. PICK z \in Uploads(queue) : z.id = b.id
      BY <2>4, <3>1, <3>3 DEF OldestFirst
    <3>5. z.entity = i /\ z.version = b.version
      BY <2>6, <3>1, <3>2, <3>4 DEF UploadBatch, SendUploads, Uploads
    <3> QED
      BY <3>1, <3>2, <3>4, <3>5
  <2>7. CASE platform'[i] = 0
    BY <1>7, <2>4, <2>7
  <2> QED
    BY <1>1, <2>5, <2>6, <2>7
<1> HIDE DEF OrderInv, TaskInv
<1> QED
  <2>1. \A i \in Ids : platform'[i] <= version'
    BY <1>0, <1>4, <1>5
  <2> QED
    BY <1>6, <1>7, <2>1

\* A row waits only after a failure (next_retry_at is written with attempts).
LEMMA WaitingFailed ==
  ASSUME TypeOK, \A r \in queue : r.retry = "waiting" => r.attempts > 0, [Next]_vars
  PROVE  \A r \in queue' : r.retry = "waiting" => r.attempts > 0
<1> DEFINE Goal == \A r \in queue' : r.retry = "waiting" => r.attempts > 0
<1>0. queue \in SUBSET QueueRow
  BY DEF TypeOK
<1>1. ASSUME NEW row, row.retry = "due", \A r \in queue' : r = row \/ r \in queue
      PROVE  Goal
  BY <1>1
<1>2. ASSUME queue' \subseteq queue PROVE Goal
  BY <1>2
<1>3. ASSUME NEW ids, queue' = RecordFailure(queue, ids) PROVE Goal
  <2>1. ASSUME NEW r \in queue PROVE FailedRow(r).attempts > 0
    <3>1. r \in QueueRow /\ r.attempts \in Nat
      BY <1>0 DEF QueueRow
    <3> QED
      BY <3>1, FailedRowFields
  <2> QED
    BY <1>3, <2>1 DEF RecordFailure
<1>4. ASSUME NEW row, row.retry = "due", queue' = Enqueue(queue, row) PROVE Goal
  BY <1>1, <1>4, EvictionKeepsTombstones DEF Enqueue
<1>5. ASSUME NEW t \in tasks, EnqueueUpload(t) PROVE Goal
  BY <1>4, <1>5 DEF EnqueueUpload, NewRow
<1>6. ASSUME NEW b \in batch, RequeueOne(b) PROVE Goal
  BY <1>4, <1>6 DEF RequeueOne, NewRow
<1>7. ASSUME NEW n \in Incidents, QueueIncident(n) PROVE Goal
  BY <1>4, <1>7 DEF QueueIncident, NewRow
<1>8. ASSUME NEW t \in tasks, DeleteGrc(t) PROVE Goal
  BY <1>1, <1>8 DEF DeleteGrc, DeleteGrcRows, NewRow
<1>9. ASSUME NEW r \in queue, BackoffElapses(r) PROVE Goal
  <2>1. [r EXCEPT !.retry = "due"].retry = "due"
    BY <1>0 DEF QueueRow
  <2>2. \A x \in queue' : x = [r EXCEPT !.retry = "due"] \/ x \in queue
    BY <1>9 DEF BackoffElapses
  <2> QED
    BY <1>1, <2>1, <2>2
<1>10. ASSUME NEW r \in queue, IncidentTried(r) PROVE Goal
  BY <1>2, <1>3, <1>10 DEF IncidentTried, Remove
<1>11. ASSUME NEW r \in batch, SendDelete(r) \/ DeleteConfirmed(r) \/ DeleteFailed(r)
       PROVE  Goal
  BY <1>2, <1>3, <1>11 DEF SendDelete, DeleteConfirmed, DeleteFailed, Remove, dbVars
<1>12. ASSUME EnforceLimit PROVE Goal
  BY <1>2, <1>12, LimitKeepsTombstones DEF EnforceLimit
<1>13. ASSUME UploadsConfirmed \/ UploadsFailed PROVE Goal
  BY <1>2, <1>3, <1>13 DEF UploadsConfirmed, UploadsFailed, AcknowledgeRows
<1>14. ASSUME NEW t \in tasks, \/ Upsert(t) \/ UpsertFails(t) \/ CancelDelete(t)
                               \/ TaskFails(t)
       PROVE  Goal
  BY <1>2, <1>14 DEF Upsert, UpsertFails, CancelDelete, TaskFails,
                     CancelGrcDelete, dbVars
<1>15. ASSUME NEW i \in Ids, \/ StartSave(i) \/ StartDelete(i) \/ StartRestore(i)
                             \/ RemoteEdit(i) \/ RemoteDelete(i)
       PROVE  Goal
  BY <1>2, <1>15 DEF StartSave, StartDelete, StartRestore, RemoteEdit,
                     RemoteDelete, dbVars
<1>16. ASSUME \/ BeginHeartbeat \/ ReadDeletions \/ DeletionsDone
              \/ DeleteUnacknowledged \/ ReadUploads \/ SendUploads
              \/ UploadsShort \/ Fetch \/ FetchFails \/ Reconcile
              \/ RequeueRead \/ RequeueDone \/ JobFault \/ Crash
              \/ UNCHANGED vars
       PROVE  Goal
  <2>1. UNCHANGED queue
    BY <1>16 DEF BeginHeartbeat, ReadDeletions, DeletionsDone,
       DeleteUnacknowledged, ReadUploads, SendUploads, UploadsShort, Fetch,
       FetchFails, Reconcile, RequeueRead, RequeueDone, JobFault, Crash, dbVars,
       vars
  <2> QED
    BY <1>2, <2>1
<1> HIDE DEF Goal
<1>17. Goal
  BY <1>5, <1>6, <1>7, <1>8, <1>9, <1>10, <1>11, <1>12, <1>13, <1>14, <1>15,
     <1>16 DEF Next, UserStep, JobStep, EnvironmentStep
<1> QED
  BY <1>17 DEF Goal

\* A full answer is there only once a request was sent, until it is handled.
LEMMA FullReplyStep ==
  ASSUME [Next]_vars, reply' = "full"
  PROVE  SendUploads \/ (reply = "full" /\ (pc # "uploadReply" \/ pc' = pc))
<1> DEFINE Goal == SendUploads \/ (reply = "full" /\ (pc # "uploadReply" \/ pc' = pc))
<1>1. CASE UserStep \/ EnvironmentStep \/ UNCHANGED vars
  BY <1>1 DEF UserStep, EnvironmentStep, vars, StartSave, StartDelete,
     StartRestore, Upsert, UpsertFails, CancelDelete, EnqueueUpload, DeleteGrc,
     TaskFails, BackoffElapses, IncidentTried, QueueIncident, RemoteEdit,
     RemoteDelete, Crash, jobVars
<1>2. CASE JobStep
  BY <1>2 DEF JobStep, BeginHeartbeat, EnforceLimit, ReadDeletions, DeletionsDone,
     SendDelete, DeleteConfirmed, DeleteFailed, DeleteUnacknowledged, ReadUploads,
     UploadsConfirmed, UploadsShort, UploadsFailed, Fetch, FetchFails, Reconcile,
     RequeueRead, RequeueOne, RequeueDone, JobFault, FetchStages, ReconcileStages
<1> QED
  BY <1>1, <1>2 DEF Next

\* A record is taken out of the synced ones by a write of the user only.
LEMMA UnsyncedSource ==
  ASSUME TypeOK, [Next]_vars, NEW i \in Ids, i \notin synced', local'[i] # 0
  PROVE  \/ \E t \in tasks : Upsert(t) /\ t.id = i
         \/ i \notin synced /\ local'[i] = local[i]
<1> DEFINE Goal == \/ \E t \in tasks : Upsert(t) /\ t.id = i
                   \/ i \notin synced /\ local'[i] = local[i]
<1>0. local \in [Ids -> Nat] /\ synced \subseteq Ids
  BY DEF TypeOK
<1>1. ASSUME UNCHANGED <<local, synced>> PROVE Goal
  BY <1>1
<1>2. ASSUME NEW t \in tasks, Upsert(t) \/ DeleteGrc(t) PROVE Goal
  BY <1>0, <1>2 DEF Upsert, DeleteGrc
<1>3. ASSUME UploadsConfirmed PROVE Goal
  BY <1>3 DEF UploadsConfirmed
<1>4. ASSUME Reconcile PROVE Goal
  BY <1>0, <1>4 DEF Reconcile, Taken, Dropped
<1>5. ASSUME NEW t \in tasks, \/ UpsertFails(t) \/ CancelDelete(t)
                              \/ EnqueueUpload(t) \/ TaskFails(t)
      PROVE  Goal
  BY <1>1, <1>5 DEF UpsertFails, CancelDelete, EnqueueUpload, TaskFails, dbVars
<1>6. ASSUME NEW j \in Ids, StartSave(j) \/ StartDelete(j) \/ StartRestore(j)
      PROVE  Goal
  BY <1>1, <1>6 DEF StartSave, StartDelete, StartRestore, dbVars
<1>7. ASSUME ~UploadsConfirmed, ~Reconcile, JobStep \/ EnvironmentStep
      PROVE  Goal
  <2>1. UNCHANGED <<local, synced>>
    BY <1>0, <1>7 DEF JobStep, EnvironmentStep, BeginHeartbeat, EnforceLimit,
       ReadDeletions, DeletionsDone, SendDelete, DeleteConfirmed,
       DeleteFailed, DeleteUnacknowledged, ReadUploads, SendUploads,
       UploadsShort, UploadsFailed, Fetch, FetchFails, RequeueRead, RequeueOne,
       RequeueDone, JobFault, BackoffElapses, IncidentTried, QueueIncident,
       RemoteEdit, RemoteDelete, Crash, dbVars
  <2> QED
    BY <1>1, <2>1
<1>8. ASSUME UNCHANGED vars PROVE Goal
  BY <1>1, <1>8 DEF vars
<1> HIDE DEF Goal
<1>9. ASSUME UserStep PROVE Goal
  BY <1>2, <1>5, <1>6, <1>9 DEF UserStep
<1>10. ASSUME JobStep \/ EnvironmentStep PROVE Goal
  BY <1>3, <1>4, <1>7, <1>10
<1>11. Goal
  BY <1>8, <1>9, <1>10 DEF Next
<1> QED
  BY <1>11 DEF Goal

\* A task past the write of its record has written it, when no save failed to.
LEMMA WrittenSource ==
  ASSUME TypeOK, [Next]_vars, ~SaveUnwritten, NEW t \in tasks', t.step # "delete",
         \A u \in tasks : Upsert(u) => u.id # t.id
  PROVE  \/ \E u \in tasks : /\ u.id = t.id /\ u.version = t.version
                             /\ u.step # "delete"
                             /\ t.step # "upsert" => u.step # "upsert"
         \/ t.version = version + 1 /\ t.step = "upsert"
<1> DEFINE Goal ==
         \/ \E u \in tasks : /\ u.id = t.id /\ u.version = t.version
                             /\ u.step # "delete"
                             /\ t.step # "upsert" => u.step # "upsert"
         \/ t.version = version + 1 /\ t.step = "upsert"
<1>1. ASSUME t \in tasks PROVE Goal
  BY <1>1
<1>2. ASSUME NEW u \in tasks, Upsert(u) PROVE Goal
  <2>1. ASSUME NEW step, t = [u EXCEPT !.step = step] PROVE FALSE
    BY <1>2, <2>1 DEF TypeOK, Tasks
  <2>2. t \in tasks
    BY <1>2, <2>1 DEF Upsert
  <2> QED
    BY <1>1, <2>2
<1>3. ASSUME NEW u \in tasks, UpsertFails(u) PROVE Goal
  BY <1>1, <1>3 DEF UpsertFails, SaveUnwritten
<1>4. ASSUME NEW u \in tasks, CancelDelete(u) PROVE Goal
  <2>1. CASE t = [u EXCEPT !.step = "enqueue"]
    BY <1>4, <2>1 DEF CancelDelete, TypeOK, Tasks
  <2> QED
    BY <1>1, <1>4, <2>1 DEF CancelDelete
<1>5. ASSUME NEW u \in tasks, EnqueueUpload(u) \/ DeleteGrc(u) \/ TaskFails(u)
      PROVE  Goal
  BY <1>1, <1>5 DEF EnqueueUpload, DeleteGrc, TaskFails
<1>6. ASSUME NEW j \in Ids, StartSave(j) \/ StartRestore(j) PROVE Goal
  BY <1>1, <1>6 DEF StartSave, StartRestore
<1>7. ASSUME NEW j \in Ids, StartDelete(j) PROVE Goal
  BY <1>1, <1>7 DEF StartDelete
<1>8. ASSUME JobStep \/ EnvironmentStep PROVE Goal
  BY <1>1, <1>8, OthersAddNoTombstone
<1>9. ASSUME UNCHANGED vars PROVE Goal
  BY <1>1, <1>9 DEF vars
<1> HIDE DEF Goal
<1>10. Goal
  BY <1>2, <1>3, <1>4, <1>5, <1>6, <1>7, <1>8, <1>9 DEF Next, UserStep
<1> QED
  BY <1>10 DEF Goal

\* An unsynced record goes on holding its newest edit.
LEMMA HoldsNewestStep ==
  ASSUME OrderInv, Requeued, [Next]_vars, ~SaveUnwritten, ~StaleRequeue, NEW i \in Ids
  PROVE  HoldsNewest(i)'
<1> USE DEF OrderInv, TaskInv
<1> SUFFICES ASSUME i \notin synced', local'[i] # 0
             PROVE  /\ local'[i] <= version'
                    /\ remote' = 0 => platform'[i] <= local'[i]
                    /\ \A r \in UploadsAround' : r.entity = i => r.version <= local'[i]
                    /\ \A t \in tasks' : t.id = i /\ t.step # "delete" =>
                         /\ local'[i] <= t.version
                         /\ t.step # "upsert" => local'[i] = t.version
  BY DEF HoldsNewest
<1>0. /\ local \in [Ids -> Nat] /\ platform \in [Ids -> Nat]
      /\ version \in Nat /\ version' \in {version, version + 1}
      /\ \A t \in tasks : t.version \in Nat
  BY VersionGrows DEF TypeOK, Tasks
<1>1. ASSUME NEW t \in tasks, Upsert(t), t.id = i
      PROVE  /\ local'[i] <= version'
             /\ remote' = 0 => platform'[i] <= local'[i]
             /\ \A r \in UploadsAround' : r.entity = i => r.version <= local'[i]
             /\ \A u \in tasks' : u.id = i /\ u.step # "delete" =>
                  /\ local'[i] <= u.version
                  /\ u.step # "upsert" => local'[i] = u.version
  <2>1. /\ local'[i] = t.version /\ version' = version /\ t.step # "delete"
        /\ remote' = remote /\ platform' = platform
        /\ UNCHANGED <<queue, pc, batch>>
    BY <1>0, <1>1 DEF Upsert, jobVars
  <2>2. UploadsAround' = UploadsAround
    BY <2>1 DEF UploadsAround, BeingSent
  <2>3. ASSUME NEW u \in tasks', u.id = i PROVE u.version = t.version
    <3>1. u \notin tasks \ {t}
      BY <1>1, <2>3 DEF OneTaskPerRecord
    <3>2. PICK step : u = [t EXCEPT !.step = step]
      BY <1>1, <3>1 DEF Upsert
    <3> QED
      BY <3>2 DEF TypeOK, Tasks
  <2> QED
    BY <1>0, <1>1, <2>1, <2>2, <2>3 DEF EditsInOrder, PlatformFollows
<1>2. ASSUME \A t \in tasks : Upsert(t) => t.id # i
      PROVE  /\ local'[i] <= version'
             /\ remote' = 0 => platform'[i] <= local'[i]
             /\ \A r \in UploadsAround' : r.entity = i => r.version <= local'[i]
             /\ \A u \in tasks' : u.id = i /\ u.step # "delete" =>
                  /\ local'[i] <= u.version
                  /\ u.step # "upsert" => local'[i] = u.version
  <2>1. i \notin synced /\ local'[i] = local[i] /\ local[i] # 0 /\ local[i] \in Nat
    BY <1>0, <1>2, UnsyncedSource
  <2>2. /\ local[i] <= version
        /\ remote = 0 => platform[i] <= local[i]
        /\ \A r \in UploadsAround : r.entity = i => r.version <= local[i]
        /\ \A t \in tasks : t.id = i /\ t.step # "delete" =>
             /\ local[i] <= t.version
             /\ t.step # "upsert" => local[i] = t.version
    BY <2>1 DEF RequeuesNewest, HoldsNewest
  <2>3. local'[i] <= version'
    BY <1>0, <2>1, <2>2
  <2>4. ASSUME remote' = 0 PROVE platform'[i] <= local'[i]
    <3>1. /\ remote = 0
          /\ \/ platform'[i] \in {0, platform[i]}
             \/ SendUploads /\ \E b \in batch : b.entity = i /\ platform'[i] = b.version
      BY <2>4, PlatformSource
    <3>2. CASE platform'[i] \in {0, platform[i]}
      BY <2>1, <2>2, <3>1, <3>2
    <3>3. CASE SendUploads /\ \E b \in batch : b.entity = i /\ platform'[i] = b.version
      BY <2>1, <2>2, <3>3 DEF SendUploads, UploadsAround, BeingSent
    <3> QED
      BY <3>1, <3>2, <3>3
  <2>5. ASSUME NEW r \in UploadsAround', r.entity = i PROVE r.version <= local'[i]
    <3>1. ASSUME NEW x \in UploadsAround, SameRow(r, x) PROVE r.version <= local'[i]
      BY <2>1, <2>2, <2>5, <3>1 DEF SameRow
    <3>2. ASSUME NEW t \in tasks, EnqueueUpload(t),
                 r = NewRow(nextId, "upload", t.id, t.version)
          PROVE  r.version <= local'[i]
      <4>1. t.step = "enqueue" /\ t.id = i /\ r.version = t.version
        BY <2>5, <3>2 DEF EnqueueUpload, NewRow
      <4> QED
        BY <2>1, <2>2, <4>1
    <3>3. ASSUME NEW b \in batch, RequeueOne(b),
                 r = NewRow(nextId, "upload", b.entity, b.version)
          PROVE  r.version <= local'[i]
      <4>1. b.entity = i /\ r.version = b.version /\ local[b.entity] = b.version
        BY <2>5, <3>3 DEF StaleRequeue, NewRow
      <4> QED
        BY <2>1, <4>1
    <3> QED
      BY <2>5, <3>1, <3>2, <3>3, AroundStep
  <2>6. ASSUME NEW u \in tasks', u.id = i, u.step # "delete"
        PROVE  /\ local'[i] <= u.version
               /\ u.step # "upsert" => local'[i] = u.version
    <3>1. \/ \E t \in tasks : /\ t.id = u.id /\ t.version = u.version
                              /\ t.step # "delete"
                              /\ u.step # "upsert" => t.step # "upsert"
          \/ u.version = version + 1 /\ u.step = "upsert"
      BY <1>2, <2>6, WrittenSource
    <3> QED
      BY <1>0, <2>1, <2>2, <2>6, <3>1
  <2> QED
    BY <2>3, <2>4, <2>5, <2>6
<1> QED
  BY <1>1, <1>2

\* What is being queued again stays unsynced meanwhile: there is one job.
LEMMA RequeuesNewestStep ==
  ASSUME OrderInv, Requeued, [Next]_vars, ~SaveUnwritten, ~StaleRequeue
  PROVE  RequeuesNewest'
<1> DEFINE Still == pc' = "requeue" => \A b \in batch' : b.entity \in Ids \ synced'
<1>0. pc = "requeue" => \A b \in batch : b.entity \in Ids \ synced
  BY DEF OrderInv, RequeuesNewest
<1>1. ASSUME pc = "requeue", batch' \subseteq batch, synced' \subseteq synced PROVE Still
  BY <1>0, <1>1
<1>2. ASSUME UNCHANGED <<pc, batch>>, synced' \subseteq synced PROVE Still
  BY <1>0, <1>2
<1>3. ASSUME pc' # "requeue" PROVE Still
  BY <1>3
<1>4. ASSUME RequeueRead, pc' = "requeue" PROVE Still
  BY <1>4 DEF RequeueRead, NewRow, dbVars
<1> HIDE DEF Still
<1>5. ASSUME JobFault PROVE Still
  BY <1>1, <1>3, <1>5 DEF JobFault, AfterDeletions, AfterUploads, AfterDownload, dbVars
<1>6. ASSUME NEW r \in batch, RequeueOne(r) PROVE Still
  BY <1>1, <1>6 DEF RequeueOne
<1>7. ASSUME UserStep PROVE Still
  BY <1>2, <1>7 DEF UserStep, dbVars, jobVars, StartSave, StartDelete,
     StartRestore, Upsert, UpsertFails, CancelDelete, EnqueueUpload, DeleteGrc,
     TaskFails
<1>8. ASSUME EnvironmentStep PROVE Still
  BY <1>2, <1>3, <1>8 DEF EnvironmentStep, dbVars, jobVars, BackoffElapses,
     IncidentTried, QueueIncident, RemoteEdit, RemoteDelete, Crash
<1>9. ASSUME \/ BeginHeartbeat \/ EnforceLimit \/ ReadDeletions \/ DeletionsDone
             \/ DeleteUnacknowledged \/ ReadUploads \/ SendUploads
             \/ UploadsConfirmed \/ UploadsShort \/ UploadsFailed \/ Fetch
             \/ FetchFails \/ Reconcile \/ RequeueDone
             \/ \E r \in batch : SendDelete(r) \/ DeleteConfirmed(r)
                                  \/ DeleteFailed(r)
      PROVE  pc' # "requeue"
  BY <1>9 DEF BeginHeartbeat, EnforceLimit, ReadDeletions, DeletionsDone,
     DeleteUnacknowledged, ReadUploads, SendUploads, UploadsConfirmed,
     UploadsShort, UploadsFailed, Fetch, FetchFails, Reconcile, RequeueDone,
     SendDelete, DeleteConfirmed, DeleteFailed, AfterDeletions, AfterUploads,
     AfterDownload, FetchStages
<1>10. ASSUME UNCHANGED vars PROVE Still
  BY <1>2, <1>10 DEF vars
<1>11. Still
  BY <1>3, <1>4, <1>5, <1>6, <1>7, <1>8, <1>9, <1>10 DEF Next, JobStep
<1> QED
  BY <1>11, HoldsNewestStep DEF Still, RequeuesNewest

LEMMA OrderInvStep ==
  ASSUME Overlap = FALSE, Requeued => ~SaveUnwritten /\ ~StaleRequeue,
         GoneInv, OrderInv, [Next]_vars
  PROVE  GoneInv' /\ OrderInv'
<1>0. ~StaleRequeue /\ RequeuesRecords
  BY GrcAssumption DEF OrderInv, StaleRequeue, RequeueOne, GoneInv
<1> USE DEF TaskInv
<1>1. IF Requeued THEN RequeuesNewest' ELSE pc' # "requeue"
  <2>1. CASE Requeued
    BY <2>1, RequeuesNewestStep
  <2>2. CASE ~Requeued
    BY <2>2, NoRequeueStep, GrcAssumption DEF OrderInv
  <2> QED
    BY <2>1, <2>2
<1>2. GoneInv'
  BY <1>0, NoneLate, GoneInvStep DEF OrderInv
<1>3. TaskInv' /\ RowIdsUnique' /\ DeletionBatch'
  BY <1>2, TaskStep DEF OrderInv, GoneInv, TombstoneInv
<1>4. UploadBatch' /\ IsFiniteSet(queue')
  BY UploadBatchStep, QueueFinite DEF OrderInv
<1>5. \A r \in queue' : r.retry = "waiting" => r.attempts > 0
  BY WaitingFailed DEF OrderInv
<1>6. reply' = "full" => pc' = "uploadReply"
  <2>1. ASSUME SendUploads PROVE pc' = "uploadReply"
    BY <2>1 DEF SendUploads
  <2> QED
    BY <2>1, FullReplyStep DEF OrderInv
<1>7. EditsInOrder' /\ OldestFirst' /\ PlatformFollows'
  BY <1>0, EditsOrderStep, OldestFirstStep, PlatformFollowsStep
<1> QED
  BY <1>1, <1>2, <1>3, <1>4, <1>5, <1>6, <1>7 DEF OrderInv

LEMMA OrderInvInit == Init => GoneInv /\ OrderInv
<1> SUFFICES ASSUME Init PROVE GoneInv /\ OrderInv
  OBVIOUS
<1>1. TombstoneInv
  BY TombstoneInit
<1>2. GoneInv
  BY GoneInvInit
<1>3. TaskInv /\ RowIdsUnique /\ DeletionBatch
  BY <1>1, TaskInit DEF TombstoneInv
<1>4. UploadsAround = {} /\ BeingSent = {}
  BY DEF Init, UploadsAround, BeingSent, Uploads
<1>5. EditsInOrder /\ OldestFirst
  BY <1>4 DEF Init, EditsInOrder, OldestFirst
<1>6. PlatformFollows
  BY DEF Init, PlatformFollows, Uploads
<1>7. /\ UploadBatch /\ IsFiniteSet(queue) /\ pc # "requeue"
      /\ \A r \in queue : r.retry = "waiting" => r.attempts > 0
      /\ reply = "full" => pc = "uploadReply"
  BY FS_EmptySet DEF Init, UploadBatch
<1>8. RequeuesNewest
  BY DEF Init, RequeuesNewest, HoldsNewest
<1> QED
  BY <1>2, <1>3, <1>5, <1>6, <1>7, <1>8 DEF OrderInv

\* For every family, capacity and batch size, with any errors and restarts: a request
\* taken whole does not put back an older version of a record, but for the three
\* delays the property names. Where records are queued again, this supposes that
\* none is that changed since the job read it, and that no save queued an edit it
\* had failed to write.
THEOREM UploadsUnlessRequeued ==
  ASSUME Overlap = FALSE
  PROVE  Spec /\ [][Requeued => ~SaveUnwritten /\ ~StaleRequeue]_vars
           => InOrderUnlessDelayed
<1> DEFINE Inv == GoneInv /\ OrderInv
           A   == Requeued => ~SaveUnwritten /\ ~StaleRequeue
<1>1. Init => Inv
  BY OrderInvInit
<1>2. Inv /\ [Next]_vars /\ [A]_vars => Inv'
  <2> SUFFICES ASSUME Inv, [Next]_vars, [A]_vars PROVE Inv'
    OBVIOUS
  <2>1. TypeOK
    BY DEF OrderInv, TaskInv
  <2>2. A
    BY <2>1, InterruptionChanges, RequeueChanges DEF SaveInterrupted
  <2> QED
    BY <2>2, OrderInvStep
<1>3. Inv /\ [Next]_vars =>
        [\A i \in Ids :
           pc = "uploads" /\ reply' = "full" /\ platform'[i] < platform[i]
             => \/ remote # 0
                \/ \E r \in batch : r.entity = i /\ (r.attempts > 0 \/ r \notin queue)
                \/ \E r \in Uploads(queue) :
                     r.entity = i /\ r.version = platform[i]]_vars
  <2> SUFFICES ASSUME Inv, [Next]_vars, NEW i \in Ids, pc = "uploads",
                      reply' = "full", platform'[i] < platform[i], remote = 0,
                      \A r \in batch : r.entity = i => ~(r.attempts > 0) /\ r \in queue
               PROVE  \E r \in Uploads(queue) :
                        r.entity = i /\ r.version = platform[i]
    OBVIOUS
  <2> USE DEF OrderInv, TaskInv
  <2>0. platform \in [Ids -> Nat] /\ nextId \in Nat /\ batch \in SUBSET QueueRow
    BY DEF TypeOK
  <2>1. SendUploads
    BY FullReplyStep
  <2>2. platform' = Stored(batch)
    BY <2>1 DEF SendUploads
  <2>3. \A r \in batch : r.id \in Nat /\ r.id < nextId /\ r.kind = "upload"
                         /\ r.attempts \in Nat
    BY <2>0 DEF UploadBatch, QueueRow
  <2>4. platform'[i] # platform[i]
    BY <2>0
  <2>5. PICK r \in batch : r.entity = i /\ platform'[i] = r.version
    BY <2>0, <2>2, <2>3, <2>4, StoredVersions
  <2>6. r \in Uploads(queue) /\ r.attempts = 0
    BY <2>3, <2>5 DEF Uploads
  <2> QED
    BY <2>5, <2>6 DEF PlatformFollows
<1> HIDE DEF Inv
<1> QED
  BY <1>1, <1>2, <1>3, PTL DEF Spec, InOrderUnlessDelayed

\* For the families that are not queued again, without any of these hypotheses.
THEOREM UploadsInOrder ==
  ASSUME Overlap = FALSE, Requeued = FALSE
  PROVE  Spec => InOrderUnlessDelayed
<1> DEFINE A == Requeued => ~SaveUnwritten /\ ~StaleRequeue
<1>1. [A]_vars
  OBVIOUS
<1>2. Spec /\ [][A]_vars => InOrderUnlessDelayed
  BY UploadsUnlessRequeued
<1> HIDE DEF A
<1> QED
  BY <1>1, <1>2, PTL

=============================================================================
