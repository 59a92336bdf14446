------------------------------ MODULE GrcSync ------------------------------
(***************************************************************************)
(* Two-way synchronisation of one family of governance records (risks,     *)
(* playbooks, detection rules, alert rules, webhooks or assets) between    *)
(* the endpoint's database and the platform.                               *)
(*                                                                         *)
(* Three parties share the database: the tasks of the user interface       *)
(* (gui_commands/grc.rs, gui_commands/playbooks.rs, default_rules.rs), the *)
(* drain that follows a heartbeat (orchestrator.rs, asset_sync.rs,         *)
(* sync_init.rs) and the incident uploads that share the queue. A task     *)
(* gives the database mutex back between two repository calls, so each     *)
(* call is one action here. There is one drain at a time: the heartbeat    *)
(* job runs alone (platform.rs, heartbeat_stage and forced_sync_stage).    *)
(*                                                                         *)
(* The platform is external: what it answers is chosen freely.             *)
(***************************************************************************)
EXTENDS SyncQueue

CONSTANTS
  Deletable,      \* the family has deletions (every family but assets)
  Requeued,       \* unsynced records are queued again after each heartbeat
                  \* (playbooks, detection rules, assets)
  Restorable,     \* shipped records can be restored (detection rules)
  Central,        \* the family is also downloaded at start and on a
                  \* configuration change (playbooks, detection and alert rules)
  CompleteFlags,  \* what a download may say of itself: {TRUE} when the code
                  \* always takes it for complete, BOOLEAN when the platform
                  \* tells (risks, assets)
  Overlap,        \* two commands of the user on one record may run at once
  Crashes,        \* the agent may be killed
  Refusing,       \* records whose deletion the platform never accepts
  OnPlatform,     \* records the platform holds at the start
  MaxVersion,     \* bound: edits, local and remote
  MaxRow,         \* bound: rows ever inserted
  MaxFaults,      \* bound: database errors
  MaxRemote       \* bound: edits made on the platform

ASSUME GrcAssumption ==
  /\ Deletable \in BOOLEAN /\ Requeued \in BOOLEAN /\ Restorable \in BOOLEAN
  /\ Central \in BOOLEAN /\ Overlap \in BOOLEAN /\ Crashes \in BOOLEAN
  /\ CompleteFlags \subseteq BOOLEAN
  /\ Refusing \subseteq Ids /\ OnPlatform \subseteq Ids
  /\ Ids \intersect Incidents = {}
  /\ MaxVersion \in Nat \ {0} /\ MaxRow \in Nat /\ MaxFaults \in Nat
  /\ MaxRemote \in Nat

VARIABLES
  local,     \* records of the table, by id: the version stored, 0 if none
  synced,    \* ids whose record has synced = 1
  queue,     \* rows of sync_queue
  nextId,    \* AUTOINCREMENT of sync_queue
  tasks,     \* user commands being run
  pc,        \* step of the heartbeat job
  batch,     \* rows the job read and has not dealt with
  reply,     \* answer the job is about to handle
  download,  \* records fetched, not reconciled yet
  complete,  \* the fetched list is the whole list
  platform,  \* external: records of the platform, 0 if none
  version,   \* last version given to an edit
  remote,    \* edits made on the platform
  faults,    \* database errors met
  received,  \* history: versions the platform received
  deleted    \* history: records the user deleted and did not restore

dbVars == <<local, synced, queue, nextId>>
jobVars == <<pc, batch, reply, download, complete>>
vars == <<local, synced, queue, nextId, tasks, pc, batch, reply, download,
          complete, platform, version, remote, faults, received, deleted>>

Versions == 0 .. MaxVersion

\* Steps of the heartbeat job, and where it goes from each when the step fails.
Stages == {"idle", "startupFetch", "startupReconcile", "centralFetch",
           "centralReconcile", "enforce", "readDeletions", "deletions",
           "deleteReply", "readUploads", "uploads", "uploadReply", "fetch",
           "reconcile", "requeueRead", "requeue"}

ReconcileStages == {"startupReconcile", "centralReconcile", "reconcile"}
FetchStages == {"startupFetch", "centralFetch", "fetch"}

Replies == {"none", "acked", "notFound", "unacked", "error", "full", "short"}

Tasks == [op : {"save", "delete", "restore"}, id : Ids, version : Nat,
          step : {"upsert", "cancel", "enqueue", "delete"}]

Init ==
  /\ local = [i \in Ids |-> 0]
  /\ synced = {}
  /\ queue = {}
  /\ nextId = 1
  /\ tasks = {}
  /\ pc = "idle"
  /\ batch = {}
  /\ reply = "none"
  /\ download = [i \in Ids |-> 0]
  /\ complete = FALSE
  /\ platform = [i \in Ids |-> IF i \in OnPlatform THEN 1 ELSE 0]
  /\ version = 1
  /\ remote = 0
  /\ faults = 0
  /\ received = {1}
  /\ deleted = {}

-----------------------------------------------------------------------------
(* The user interface *)

\* The interface spawns a task per command. Without Overlap the commands on one
\* record are far enough apart to run one after the other.
CanStart(i) ==
  /\ nextId <= MaxRow
  /\ Overlap \/ \A t \in tasks : t.id # i

\* A record the user deleted is gone from the interface: identifiers are UUIDs
\* and are not used again.
StartSave(i) ==
  /\ CanStart(i)
  /\ i \notin deleted
  /\ \A t \in tasks : ~(t.id = i /\ t.op = "delete")
  /\ version < MaxVersion
  /\ version' = version + 1
  /\ tasks' = tasks \union
       {[op |-> "save", id |-> i, version |-> version + 1, step |-> "upsert"]}
  /\ UNCHANGED <<dbVars, jobVars, platform, remote, faults, received, deleted>>

StartDelete(i) ==
  /\ Deletable
  /\ CanStart(i)
  /\ local[i] # 0 \/ \E t \in tasks : t.id = i
  /\ tasks' = tasks \union
       {[op |-> "delete", id |-> i, version |-> 0, step |-> "delete"]}
  /\ UNCHANGED <<dbVars, jobVars, platform, version, remote, faults, received,
                 deleted>>

\* "Restore the shipped rules": install_default_rules plans the rules that are
\* not on the endpoint.
StartRestore(i) ==
  /\ Restorable
  /\ CanStart(i)
  /\ i \in deleted /\ local[i] = 0
  /\ version < MaxVersion
  /\ version' = version + 1
  /\ tasks' = tasks \union
       {[op |-> "restore", id |-> i, version |-> version + 1, step |-> "upsert"]}
  /\ UNCHANGED <<dbVars, jobVars, platform, remote, faults, received, deleted>>

\* upsert with synced = 0, of a save or of a restoration.
Upsert(t) ==
  /\ t.step = "upsert"
  /\ local' = [local EXCEPT ![t.id] = t.version]
  /\ synced' = synced \ {t.id}
  /\ deleted' = IF t.op = "restore" THEN deleted \ {t.id} ELSE deleted
  /\ tasks' = (tasks \ {t}) \union
       {[t EXCEPT !.step = IF t.op = "restore" THEN "cancel" ELSE "enqueue"]}
  /\ UNCHANGED <<queue, nextId, jobVars, platform, version, remote, faults,
                 received>>

\* The error of the upsert of a save is logged and the upload queued all the
\* same; that of a restoration ends it.
UpsertFails(t) ==
  /\ t.step = "upsert"
  /\ faults < MaxFaults
  /\ faults' = faults + 1
  /\ tasks' = (tasks \ {t}) \union
       (IF t.op = "restore" THEN {} ELSE {[t EXCEPT !.step = "enqueue"]})
  /\ UNCHANGED <<dbVars, jobVars, platform, version, remote, received, deleted>>

\* cancel_grc_delete, second step of a restoration.
CancelDelete(t) ==
  /\ t.step = "cancel"
  /\ queue' = CancelGrcDelete(queue, t.id)
  /\ tasks' = (tasks \ {t}) \union {[t EXCEPT !.step = "enqueue"]}
  /\ UNCHANGED <<local, synced, nextId, jobVars, platform, version, remote,
                 faults, received, deleted>>

EnqueueUpload(t) ==
  /\ t.step = "enqueue"
  /\ nextId <= MaxRow
  /\ queue' = Enqueue(queue, NewRow(nextId, "upload", t.id, t.version))
  /\ nextId' = nextId + 1
  /\ tasks' = tasks \ {t}
  /\ UNCHANGED <<local, synced, jobVars, platform, version, remote, faults,
                 received, deleted>>

\* The error of a save's enqueue is dropped, that of a deletion or of the second
\* step of a restoration ends the task.
TaskFails(t) ==
  /\ t.step \in {"cancel", "enqueue", "delete"}
  /\ faults < MaxFaults
  /\ faults' = faults + 1
  /\ tasks' = tasks \ {t}
  /\ UNCHANGED <<dbVars, jobVars, platform, version, remote, received, deleted>>

\* delete_grc: the record, its queued rows and the new deletion in one
\* transaction.
DeleteGrc(t) ==
  /\ t.step = "delete"
  /\ nextId <= MaxRow
  /\ local' = [local EXCEPT ![t.id] = 0]
  /\ synced' = synced \ {t.id}
  /\ queue' = DeleteGrcRows(queue, t.id, nextId)
  /\ nextId' = nextId + 1
  /\ tasks' = tasks \ {t}
  /\ deleted' = deleted \union {t.id}
  /\ UNCHANGED <<jobVars, platform, version, remote, faults, received>>

-----------------------------------------------------------------------------
(* The heartbeat job: deletions, uploads, download, requeue *)

\* Where the job goes when it leaves a step early or skips it.
AfterDeletions == "readUploads"
AfterUploads == "fetch"
AfterDownload(stage) ==
  IF stage \in {"centralFetch", "centralReconcile"} THEN "enforce"
  ELSE "requeueRead"

\* The answer to a heartbeat may ask for a download before the drain
\* (config_changed, rules_changed: heartbeat.rs).
BeginHeartbeat ==
  /\ pc = "idle"
  /\ pc' \in (IF Central THEN {"centralFetch", "enforce"} ELSE {"enforce"})
  /\ UNCHANGED <<dbVars, tasks, batch, reply, download, complete, platform,
                 version, remote, faults, received, deleted>>

EnforceLimit ==
  /\ pc = "enforce"
  /\ queue' = EnforceQueueLimit(queue)
  /\ pc' = "readDeletions"
  /\ UNCHANGED <<local, synced, nextId, tasks, batch, reply, download, complete,
                 platform, version, remote, faults, received, deleted>>

\* sync_edr_deletions reads the most urgent rows of every kind and keeps the
\* deletions among them.
ReadDeletions ==
  /\ pc = "readDeletions"
  /\ batch' = Tombstones(GetPending(queue))
  /\ pc' = "deletions"
  /\ UNCHANGED <<dbVars, tasks, reply, download, complete, platform, version,
                 remote, faults, received, deleted>>

DeletionsDone ==
  /\ pc = "deletions"
  /\ batch = {}
  /\ pc' = AfterDeletions
  /\ UNCHANGED <<dbVars, tasks, batch, reply, download, complete, platform,
                 version, remote, faults, received, deleted>>

\* Deletions all have the same priority: the oldest is sent first.
IsHead(r) == r \in batch /\ \A s \in batch : r.id <= s.id

\* One DELETE request. acked: the platform removed the record. notFound: it has
\* no such record. unacked: it answered without acknowledging. error: anything
\* else, the request may have been carried out or not.
SendDelete(r) ==
  /\ pc = "deletions"
  /\ IsHead(r)
  /\ \/ /\ r.entity \notin Refusing
        /\ reply' = "acked"
        /\ platform' = [platform EXCEPT ![r.entity] = 0]
     \/ /\ platform[r.entity] = 0
        /\ r.entity \notin Refusing
        /\ reply' = "notFound"
        /\ UNCHANGED platform
     \/ /\ reply' = "unacked"
        /\ UNCHANGED platform
     \/ /\ reply' = "error"
        /\ \/ UNCHANGED platform
           \/ /\ r.entity \notin Refusing
              /\ platform' = [platform EXCEPT ![r.entity] = 0]
  /\ pc' = "deleteReply"
  /\ UNCHANGED <<dbVars, tasks, batch, download, complete, version, remote,
                 faults, received, deleted>>

\* Mutant: an answer that does not acknowledge the deletion ends it too.
DeleteConfirmedUnacked(r) ==
  /\ pc = "deleteReply"
  /\ IsHead(r)
  /\ reply \in {"acked", "notFound", "unacked"}
  /\ queue' = Remove(queue, {r.id})
  /\ batch' = batch \ {r}
  /\ pc' = "deletions"
  /\ reply' = "none"
  /\ UNCHANGED <<local, synced, nextId, tasks, download, complete, platform,
                 version, remote, faults, received, deleted>>

DeleteConfirmed(r) ==
  /\ pc = "deleteReply"
  /\ IsHead(r)
  /\ reply \in {"acked", "notFound"}
  /\ queue' = Remove(queue, {r.id})
  /\ batch' = batch \ {r}
  /\ pc' = "deletions"
  /\ reply' = "none"
  /\ UNCHANGED <<local, synced, nextId, tasks, download, complete, platform,
                 version, remote, faults, received, deleted>>

\* The remaining deletions wait for the next heartbeat; nothing is recorded.
DeleteUnacknowledged ==
  /\ pc = "deleteReply"
  /\ reply = "unacked"
  /\ batch' = {}
  /\ pc' = AfterDeletions
  /\ reply' = "none"
  /\ UNCHANGED <<dbVars, tasks, download, complete, platform, version, remote,
                 faults, received, deleted>>

\* The failure is recorded. When the backoff overflows the job panics instead:
\* the heartbeat ends there, without uploads or download.
DeleteFailed(r) ==
  /\ pc = "deleteReply"
  /\ IsHead(r)
  /\ reply = "error"
  /\ queue' = RecordFailure(queue, {r.id})
  /\ batch' = {}
  /\ pc' = IF \E s \in queue : s.id = r.id /\ BackoffOverflows(s)
           THEN "idle" ELSE AfterDeletions
  /\ reply' = "none"
  /\ UNCHANGED <<local, synced, nextId, tasks, download, complete, platform,
                 version, remote, faults, received, deleted>>

ReadUploads ==
  /\ pc = "readUploads"
  /\ batch' = GetPendingFor(queue, "upload")
  /\ pc' = IF batch' = {} THEN AfterUploads ELSE "uploads"
  /\ UNCHANGED <<dbVars, tasks, reply, download, complete, platform, version,
                 remote, faults, received, deleted>>

\* The platform stores the rows it takes in the order of the request: the
\* youngest row of a record wins.
Youngest(taken, i) ==
  {r \in taken : r.entity = i /\ \A s \in taken : s.entity = i => s.id <= r.id}

Stored(taken) ==
  [i \in Ids |-> IF Youngest(taken, i) = {} THEN platform[i]
                 ELSE (CHOOSE r \in Youngest(taken, i) : TRUE).version]

\* One request for the whole batch. full: every row was taken. short: the count
\* received is not the count sent. error: any part was taken.
SendUploads ==
  /\ pc = "uploads"
  /\ \E taken \in SUBSET batch :
       /\ platform' = Stored(taken)
       /\ received' = received \union {r.version : r \in taken}
       /\ reply' \in {"short", "error"} \union
                       (IF taken = batch THEN {"full"} ELSE {})
  /\ pc' = "uploadReply"
  /\ UNCHANGED <<dbVars, tasks, batch, download, complete, version, remote,
                 faults, deleted>>

RowIds(rows) == {r.id : r \in rows}

\* Mutant: the acknowledgement takes every upload of the records of the batch, not
\* the rows that were sent.
UploadsConfirmedByRecord ==
  /\ pc = "uploadReply"
  /\ reply = "full"
  /\ queue' = {r \in queue : \A s \in batch : r.entity # s.entity}
  /\ synced' = synced \union {i \in {s.entity : s \in batch} : local[i] # 0}
  /\ batch' = {}
  /\ pc' = AfterUploads
  /\ reply' = "none"
  /\ UNCHANGED <<local, nextId, tasks, download, complete, platform, version,
                 remote, faults, received, deleted>>

UploadsConfirmed ==
  /\ pc = "uploadReply"
  /\ reply = "full"
  /\ queue' = AcknowledgeRows(queue, RowIds(batch))
  /\ synced' = synced \union
       {i \in AcknowledgedIds(queue, RowIds(batch)) : local[i] # 0}
  /\ batch' = {}
  /\ pc' = AfterUploads
  /\ reply' = "none"
  /\ UNCHANGED <<local, nextId, tasks, download, complete, platform, version,
                 remote, faults, received, deleted>>

UploadsShort ==
  /\ pc = "uploadReply"
  /\ reply = "short"
  /\ batch' = {}
  /\ pc' = AfterUploads
  /\ reply' = "none"
  /\ UNCHANGED <<dbVars, tasks, download, complete, platform, version, remote,
                 faults, received, deleted>>

\* The failure is recorded row by row: an edit, or a kill, may come in between.
UploadsFailed ==
  /\ pc = "uploadReply"
  /\ reply = "error"
  /\ \E r \in batch :
       /\ queue' = RecordFailure(queue, {r.id})
       /\ batch' = batch \ {r}
  /\ IF batch' = {} THEN pc' = AfterUploads /\ reply' = "none"
                    ELSE UNCHANGED <<pc, reply>>
  /\ UNCHANGED <<local, synced, nextId, tasks, download, complete, platform,
                 version, remote, faults, received, deleted>>

Fetch ==
  /\ pc \in FetchStages
  /\ download' = platform
  /\ complete' \in CompleteFlags
  /\ pc' = CASE pc = "startupFetch" -> "startupReconcile"
             [] pc = "centralFetch" -> "centralReconcile"
             [] pc = "fetch"        -> "reconcile"
  /\ UNCHANGED <<dbVars, tasks, batch, reply, platform, version, remote, faults,
                 received, deleted>>

FetchFails ==
  /\ pc \in FetchStages
  /\ pc' = AfterDownload(pc)
  /\ UNCHANGED <<dbVars, tasks, batch, reply, download, complete, platform,
                 version, remote, faults, received, deleted>>

\* A record a download may replace or remove.
Overwritable(i) == i \in synced /\ ~HasUpload(queue, i)

\* Mutant: the removal of absent records does not look at synced.
DroppedDirty(i) == complete /\ download[i] = 0 /\ ~HasUpload(queue, i)

\* Mutant: the download does not look at the queued deletions.
TakenDeleted(i) == download[i] # 0 /\ (local[i] = 0 \/ Overwritable(i))

\* reconcile_remote, reconcile_snapshot.
Dropped(i) == complete /\ download[i] = 0 /\ Overwritable(i)
Taken(i) ==
  /\ download[i] # 0
  /\ ~HasTombstone(queue, i)
  /\ local[i] = 0 \/ Overwritable(i)

Reconcile ==
  /\ pc \in ReconcileStages
  /\ local' = [i \in Ids |-> IF Dropped(i) THEN 0
                             ELSE IF Taken(i) THEN download[i]
                             ELSE local[i]]
  /\ synced' = {i \in Ids : IF Dropped(i) THEN FALSE
                            ELSE IF Taken(i) THEN TRUE
                            ELSE i \in synced}
  /\ pc' = AfterDownload(pc)
  /\ download' = [i \in Ids |-> 0]
  /\ complete' = FALSE
  /\ UNCHANGED <<queue, nextId, tasks, batch, reply, platform, version, remote,
                 faults, received, deleted>>

\* requeue_unsynced_entities reads the table once, then queues one row per
\* unsynced record. Rows already queued are not looked at. The interface (gui
\* feature) does it after a heartbeat, not after a forced synchronisation.
RequeueRead ==
  /\ pc = "requeueRead"
  /\ \/ /\ Requeued
        /\ batch' = {NewRow(0, "upload", i, local[i]) :
                       i \in {j \in Ids : local[j] # 0 /\ j \notin synced}}
        /\ pc' = "requeue"
     \/ /\ pc' = "idle"
        /\ UNCHANGED batch
  /\ UNCHANGED <<dbVars, tasks, reply, download, complete, platform, version,
                 remote, faults, received, deleted>>

RequeueOne(r) ==
  /\ pc = "requeue"
  /\ r \in batch
  /\ nextId <= MaxRow
  /\ queue' = Enqueue(queue, NewRow(nextId, "upload", r.entity, r.version))
  /\ nextId' = nextId + 1
  /\ batch' = batch \ {r}
  /\ UNCHANGED <<local, synced, tasks, pc, reply, download, complete, platform,
                 version, remote, faults, received, deleted>>

RequeueDone ==
  /\ pc = "requeue"
  /\ batch = {} \/ nextId > MaxRow
  /\ batch' = {}
  /\ pc' = "idle"
  /\ UNCHANGED <<dbVars, tasks, reply, download, complete, platform, version,
                 remote, faults, received, deleted>>

\* A database error in the job: the step is given up, what was not written will
\* be done again. A failed requeue of one record goes on with the next.
JobFault ==
  /\ faults < MaxFaults
  /\ \/ /\ pc = "enforce"
        /\ pc' = "readDeletions" /\ UNCHANGED batch
     \/ /\ pc \in {"readDeletions", "deleteReply"}
        /\ pc' = AfterDeletions /\ batch' = {}
     \/ /\ pc \in {"readUploads", "uploadReply"}
        /\ pc' = AfterUploads /\ batch' = {}
     \/ /\ pc \in ReconcileStages
        /\ pc' = AfterDownload(pc) /\ UNCHANGED batch
     \/ /\ pc = "requeue"
        /\ \E r \in batch : batch' = batch \ {r}
        /\ UNCHANGED pc
  /\ faults' = faults + 1
  /\ reply' = "none"
  /\ UNCHANGED <<dbVars, tasks, download, complete, platform, version, remote,
                 received, deleted>>

-----------------------------------------------------------------------------
(* The environment *)

\* next_retry_at is reached.
BackoffElapses(r) ==
  /\ r \in queue
  /\ r.retry = "waiting"
  /\ ~Exhausted(r)
  /\ queue' = (queue \ {r}) \union {[r EXCEPT !.retry = "due"]}
  /\ UNCHANGED <<local, synced, nextId, tasks, jobVars, platform, version,
                 remote, faults, received, deleted>>

\* The agent stops anywhere and starts again: the database stays.
Crash ==
  /\ Crashes
  /\ tasks' = {}
  /\ pc' = IF Central THEN "startupFetch" ELSE "requeueRead"
  /\ batch' = {}
  /\ reply' = "none"
  /\ download' = [i \in Ids |-> 0]
  /\ complete' = FALSE
  /\ UNCHANGED <<dbVars, platform, version, remote, faults, received, deleted>>

RemoteEdit(i) ==
  /\ platform[i] # 0
  /\ remote < MaxRemote
  /\ version < MaxVersion
  /\ version' = version + 1
  /\ remote' = remote + 1
  /\ platform' = [platform EXCEPT ![i] = version + 1]
  /\ received' = received \union {version + 1}
  /\ UNCHANGED <<dbVars, tasks, jobVars, faults, deleted>>

RemoteDelete(i) ==
  /\ platform[i] # 0
  /\ remote < MaxRemote
  /\ remote' = remote + 1
  /\ platform' = [platform EXCEPT ![i] = 0]
  /\ UNCHANGED <<dbVars, tasks, jobVars, version, faults, received, deleted>>

\* keep_incident_for_retry (scanning.rs) shares the queue.
QueueIncident(n) ==
  /\ nextId <= MaxRow
  /\ \A r \in queue : r.entity # n
  /\ queue' = Enqueue(queue, NewRow(nextId, "incident", n, 0))
  /\ nextId' = nextId + 1
  /\ UNCHANGED <<local, synced, tasks, jobVars, platform, version, remote,
                 faults, received, deleted>>

\* flush_queued_incidents: an incident the platform took, or a failure recorded.
IncidentTried(r) ==
  /\ r \in GetPendingFor(queue, "incident")
  /\ queue' \in {Remove(queue, {r.id}), RecordFailure(queue, {r.id})}
  /\ UNCHANGED <<local, synced, nextId, tasks, jobVars, platform, version,
                 remote, faults, received, deleted>>

-----------------------------------------------------------------------------
UserStep ==
  \/ \E i \in Ids : StartSave(i) \/ StartDelete(i) \/ StartRestore(i)
  \/ \E t \in tasks : \/ Upsert(t) \/ UpsertFails(t) \/ CancelDelete(t)
                      \/ EnqueueUpload(t) \/ DeleteGrc(t) \/ TaskFails(t)

JobStep ==
  \/ BeginHeartbeat \/ EnforceLimit \/ ReadDeletions \/ DeletionsDone
  \/ \E r \in batch : SendDelete(r) \/ DeleteConfirmed(r) \/ DeleteFailed(r)
  \/ DeleteUnacknowledged \/ ReadUploads \/ SendUploads
  \/ UploadsConfirmed \/ UploadsShort \/ UploadsFailed
  \/ Fetch \/ FetchFails \/ Reconcile
  \/ RequeueRead \/ (\E r \in batch : RequeueOne(r)) \/ RequeueDone
  \/ JobFault

EnvironmentStep ==
  \/ \E r \in queue : BackoffElapses(r) \/ IncidentTried(r)
  \/ \E n \in Incidents : QueueIncident(n)
  \/ \E i \in Ids : RemoteEdit(i) \/ RemoteDelete(i)
  \/ Crash

Next == UserStep \/ JobStep \/ EnvironmentStep

Spec == Init /\ [][Next]_vars

AcksDelete(i) == \E r \in batch : /\ r.entity = i
                                 /\ SendDelete(r)
                                 /\ reply' = "acked"

\* The main loop keeps starting heartbeats and a heartbeat job runs to its end
\* (WF of the job), the clock reaches every retry date (WF of the backoffs), and
\* the platform, asked again and again, at some point accepts (SF). The queued
\* incidents are tried by the outbox on a timer (WF). Nothing is assumed of the
\* user, of the database errors or of the outcome of an incident.
Fairness ==
  /\ WF_vars(JobStep)
  /\ \A i \in Ids : WF_vars(\E r \in queue : r.entity = i /\ BackoffElapses(r))
  /\ WF_vars(\E r \in queue : IncidentTried(r))
  /\ \A i \in Ids \ Refusing : SF_vars(AcksDelete(i))

FairSpec == Spec /\ Fairness

-----------------------------------------------------------------------------
(* Properties *)

\* Type invariant: the tables, the rows of the queue, what the steps under way
\* remember and the platform's copies.
TypeOK ==
  /\ local \in [Ids -> Nat]
  /\ synced \subseteq Ids
  /\ queue \subseteq QueueRow
  /\ nextId \in Nat
  /\ tasks \subseteq Tasks
  /\ pc \in Stages
  /\ batch \subseteq QueueRow
  /\ reply \in Replies
  /\ download \in [Ids -> Nat]
  /\ complete \in BOOLEAN
  /\ platform \in [Ids -> Nat]
  /\ version \in Nat
  /\ remote \in Nat
  /\ faults \in Nat
  /\ received \subseteq Nat
  /\ deleted \subseteq Ids

\* "offline deletion survives restart and cannot be resurrected by a stale
\* download" (sync_queue.rs, delete_grc): while the deletion of a record waits
\* in the queue, no download, upload answer or restart brings the record back
\* into the table.
DeletionNotUndone ==
  \A i \in deleted : HasTombstone(queue, i) => local[i] = 0

\* A queued deletion leaves the queue only once the platform has no such record,
\* or because the user restored the record: not by an overflow, by too many
\* failures, by a restart or by an answer to another row.
TombstoneKept ==
  [][\A i \in Ids : HasTombstone(queue, i) /\ ~HasTombstone(queue', i)
        => platform[i] = 0 \/ i \notin deleted]_vars

\* A record the user deleted is in no table of the endpoint, and either its
\* deletion still waits or the platform has no such record and nothing queued
\* would create it again.
DeletedStaysDeleted ==
  \A i \in deleted :
    /\ local[i] = 0
    /\ HasTombstone(queue, i) \/ (platform[i] = 0 /\ ~HasUpload(queue, i))

\* A save whose record is written and whose upload is not queued yet.
InGap(i) == \E t \in tasks : t.id = i /\ t.step = "enqueue"

\* A record is marked synced by an acknowledgement of the edit the table holds
\* ("A newer queued edit must remain dirty", sync_queue.rs, acknowledge_grc) or by
\* a download that wrote it: what the table holds has then reached the platform.
\* The one exception is a save between its two database calls.
SyncedMeansReceived ==
  [][\A i \in synced' : i \notin synced \/ local'[i] # local[i]
        => local'[i] \in received \/ InGap(i)]_vars

\* The uploads of a record are sent "ordered by priority (desc) then age (asc)"
\* (sync_queue.rs, get_pending): with no edit made on the platform, a request it
\* takes whole does not put an older version over a newer one, unless the newer
\* one is still queued and will follow, the older one failed before and a younger
\* row overtook it during its backoff, or a deletion or an overflow took it from
\* the queue after the job read it.
InOrderUnlessDelayed ==
  [][\A i \in Ids :
       pc = "uploads" /\ reply' = "full" /\ platform'[i] < platform[i]
         => \/ remote # 0
            \/ \E r \in batch : r.entity = i /\ (r.attempts > 0 \/ r \notin queue)
            \/ \E r \in Uploads(queue) : r.entity = i /\ r.version = platform[i]]_vars

\* With no edit made on the platform, a record leaves the table only because the
\* user deleted it: a download does not take away what was created, edited or
\* restored here ("those installed now wait in the upload queue and are not
\* taken for rules the platform deleted", startup.rs).
NothingVanishes ==
  [][\A i \in Ids : local[i] # 0 /\ local'[i] = 0
        => i \in deleted' \/ remote # 0]_vars

\* "low-priority items evicted first" (sync_queue.rs): an insertion or the start
\* of a drain that finds the queue over its limit takes an incident only when no
\* upload is left to take, the one being inserted apart.
IncidentsEvictedLast ==
  [][\A r \in queue \ queue' :
        r.kind = "incident" /\ (nextId' # nextId \/ pc' # pc)
          => \A s \in Uploads(queue') : s.id = nextId]_vars

\* Every deletion is in the end confirmed by a platform that accepts it: it has
\* no last attempt, is never evicted, and is not kept waiting for ever behind
\* the other rows of the queue (sync_edr_deletions).
DeletionsDelivered ==
  \A i \in Ids \ Refusing : HasTombstone(queue, i) ~> ~HasTombstone(queue, i)

-----------------------------------------------------------------------------
(* Parts of the inductive invariants of GrcSyncProofs *)

OneTaskPerRecord == \A t, u \in tasks : t.id = u.id => t = u

\* A task that is about to write or to queue a record is not one of a deleted
\* record; a restoration has to have written it first.
TasksRespectDeletion ==
  \A t \in tasks : t.step \in {"cancel", "enqueue"}
                     \/ (t.step = "upsert" /\ t.op # "restore")
                    => t.id \notin deleted

RowIdsUnique ==
  /\ \A r \in queue : r.id < nextId /\ (r.kind = "delete" => r.entity \in Ids)
  /\ \A r, s \in queue : r.id = s.id => r = s

\* What the job read of the deletions is still about the rows it was read from.
DeletionBatch ==
  pc \in {"deletions", "deleteReply"} =>
    /\ \A b \in batch :
         /\ b.id < nextId /\ b.entity \in Ids
         /\ \A r \in queue : r.id = b.id => r.kind = "delete" /\ r.entity = b.entity
    /\ \A b, c \in batch : b.id = c.id => b.entity = c.entity

\* Between the answer to a deletion and its handling the platform does not get
\* the record back.
ConfirmedGone ==
  pc = "deleteReply" /\ reply \in {"acked", "notFound"} =>
    \A b \in batch : IsHead(b) => platform[b.entity] = 0

\* What holds of the tasks when the commands on one record do not overlap.
TaskInv == TypeOK /\ OneTaskPerRecord /\ TasksRespectDeletion

\* A save, or a restoration that wrote its record, goes on with a record the user
\* deleted since: it writes it, cancels its deletion or queues its upload.
LateStep ==
  \E t \in tasks : /\ t.id \in deleted
                    /\ \/ Upsert(t) /\ t.op # "restore"
                       \/ CancelDelete(t) \/ EnqueueUpload(t)

DeletionInv == TypeOK /\ DeletionNotUndone

TombstoneInv ==
  DeletionInv /\ RowIdsUnique /\ DeletionBatch /\ ConfirmedGone

\* Nothing the job holds would bring the record back to either side.
NothingInFlight(i) ==
  /\ pc \in ReconcileStages => download[i] = 0
  /\ pc = "uploads" => \A b \in batch : b.entity # i

Gone(i) ==
  /\ local[i] = 0
  /\ ~HasUpload(queue, i)
  /\ HasTombstone(queue, i) \/ (platform[i] = 0 /\ NothingInFlight(i))

\* The job queues again records it found in the table.
RequeuesRecords == pc = "requeue" => \A b \in batch : b.version # 0

GoneInv ==
  /\ TombstoneInv /\ RequeuesRecords
  /\ \A i \in deleted : Gone(i)

\* The record changed or left the table after the job read it: what the job queues
\* again is what the record was.
StaleRequeue == \E r \in batch : RequeueOne(r) /\ local[r.entity] # r.version

\* A save whose record was not written: its upload is queued all the same.
SaveUnwritten == \E t \in tasks : t.op # "restore" /\ UpsertFails(t)

\* That, or a save that ends, or that the agent leaves behind, between the write of
\* the record and the upload: the edit is in the table and nothing will send it.
SaveInterrupted ==
  \/ SaveUnwritten
  \/ \E t \in tasks : t.step = "enqueue" /\ (TaskFails(t) \/ Crash)

\* An acknowledgement of the edit before, between the two calls of a save.
AckInGap ==
  UploadsConfirmed /\ \E i \in AcknowledgedIds(queue, RowIds(batch)) : InGap(i)

\* What the job read of the uploads is still about the rows it was read from.
UploadBatch ==
  pc \in {"uploads", "uploadReply"} =>
    \A b \in batch :
      /\ b.kind = "upload" /\ b.id < nextId
      /\ \A r \in queue : r.id = b.id =>
           r.kind = "upload" /\ r.entity = b.entity /\ r.version = b.version

\* Whatever the platform holds, took whole or gave has been received.
ReceivedInv ==
  /\ pc = "uploadReply" /\ reply = "full" =>
       \A b \in batch : b.version \in received
  /\ \A i \in Ids : {platform[i], download[i]} \subseteq received \union {0}

\* A save or a restoration that wrote its record still finds its own edit there,
\* or what a download put in its place.
GapHolds ==
  \A t \in tasks : t.step \in {"cancel", "enqueue"} =>
    local[t.id] \in received \union {0, t.version}

\* Only a deleted record is being restored.
RestoresDeleted ==
  \A t \in tasks : t.op = "restore" /\ t.step = "upsert" => t.id \in deleted

\* The edit the table holds has been received, is about to be queued, or is the
\* youngest upload queued of the record, if one is.
EditFollowed(i) ==
  \/ local[i] \in received \union {0}
  \/ InGap(i)
  \/ ~HasUpload(queue, i)
  \/ \E r \in Uploads(queue) :
       /\ r.entity = i /\ r.version = local[i]
       /\ \A s \in Uploads(queue) : s.entity = i => s.id <= r.id

EditInv ==
  /\ TaskInv /\ GoneInv /\ IsFiniteSet(queue) /\ UploadBatch /\ ReceivedInv /\ GapHolds
  /\ RestoresDeleted
  /\ \A i \in Ids : EditFollowed(i)

\* With no save interrupted and no acknowledgement inside one, the records marked
\* synced are those whose edit has been received.
SyncedReceived == \A i \in synced : local[i] \in received

\* Without restorations, a queued deletion is one of a deleted record.
DeletionsOfDeleted ==
  /\ \A t \in tasks : t.op # "restore"
  /\ \A i \in Ids : HasTombstone(queue, i) => i \in deleted
  /\ pc \in {"deletions", "deleteReply"} => \A b \in batch : b.entity \in deleted

\* Every upload carries an edit: version 0 is no record.
UploadsCarryEdits ==
  /\ \A r \in Uploads(queue) : r.version # 0
  /\ \A t \in tasks : t.step # "delete" => t.version # 0
  /\ pc \in {"uploads", "uploadReply", "requeue"} =>
       \A b \in batch : b.version # 0

\* What is marked synced here is on the platform unless the user deleted it, and a
\* download in hand holds it and nothing that is not there.
OnBothSides(i) ==
  remote = 0 =>
    /\ i \in synced \ deleted => platform[i] # 0
    /\ pc \in ReconcileStages => /\ download[i] # 0 => platform[i] # 0
                                 /\ i \in synced \ deleted => download[i] # 0
    /\ pc = "uploadReply" /\ reply = "full" =>
         \A b \in batch : b.entity = i => platform[i] # 0

StayInv ==
  /\ TypeOK /\ RowIdsUnique /\ UploadBatch /\ UploadsCarryEdits
  /\ \A i \in Ids : OnBothSides(i)

\* The deletion of a record restored meanwhile is sent: a restoration writes the
\* record first and takes the deletion from the queue afterwards.
StaleDelete == \E r \in batch : SendDelete(r) /\ r.entity \notin deleted

\* The uploads of the queue and those of the batch being sent.
BeingSent == IF pc \in {"uploads", "uploadReply"} THEN batch ELSE {}
UploadsAround == Uploads(queue) \union BeingSent

\* The edits of a record are queued in the order they were made.
EditsInOrder ==
  /\ \A r, s \in UploadsAround :
       r.entity = s.entity /\ r.id < s.id => r.version <= s.version
  /\ \A r \in UploadsAround : r.version <= version
  /\ \A t \in tasks : t.step # "delete" =>
       /\ t.version <= version
       /\ \A r \in UploadsAround : r.entity = t.id => r.version <= t.version

\* Of two uploads of a record the older is sent with the younger unless it failed
\* before, and it does not stay queued when the younger leaves.
OldestFirst ==
  \A b \in BeingSent, s \in Uploads(queue) :
    s.entity = b.entity /\ s.id < b.id =>
      /\ s.attempts = 0 => s.id \in RowIds(batch)
      /\ \E z \in Uploads(queue) : z.id = b.id

\* With no edit made on the platform, it is ahead of a queued edit that was never
\* refused only when the edit it holds is queued too.
PlatformFollows ==
  remote = 0 =>
    /\ \A i \in Ids : platform[i] <= version
    /\ \A t \in tasks : t.step # "delete" => platform[t.id] <= t.version
    /\ \A i \in Ids, r \in Uploads(queue) :
         r.entity = i /\ r.attempts = 0 /\ r.version < platform[i] =>
           \E z \in Uploads(queue) : z.entity = i /\ z.version = platform[i]

\* What is in the table and not marked synced is the newest edit of the record.
HoldsNewest(i) ==
  i \notin synced /\ local[i] # 0 =>
    /\ local[i] <= version
    /\ remote = 0 => platform[i] <= local[i]
    /\ \A r \in UploadsAround : r.entity = i => r.version <= local[i]
    /\ \A t \in tasks : t.id = i /\ t.step # "delete" =>
         /\ local[i] <= t.version
         /\ t.step # "upsert" => local[i] = t.version

\* So is then what the job queues again.
RequeuesNewest ==
  /\ \A i \in Ids : HoldsNewest(i)
  /\ pc = "requeue" => \A b \in batch : b.entity \in Ids \ synced

OrderInv ==
  /\ TaskInv /\ RowIdsUnique /\ DeletionBatch /\ UploadBatch
  /\ IsFiniteSet(queue)
  /\ IF Requeued THEN RequeuesNewest ELSE pc # "requeue"
  /\ \A r \in queue : r.retry = "waiting" => r.attempts > 0
  /\ reply = "full" => pc = "uploadReply"
  /\ EditsInOrder /\ OldestFirst /\ PlatformFollows

=============================================================================
