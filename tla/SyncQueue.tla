----------------------------- MODULE SyncQueue -----------------------------
(***************************************************************************)
(* The durable upload queue of the agent (table sync_queue), as operators  *)
(* on its set of rows: agent-storage/src/repositories/sync_queue.rs.       *)
(*                                                                         *)
(* Every operation of the repository runs under the database mutex         *)
(* (Database::with_connection), so each operator below is one atomic step  *)
(* of the modules that use it.                                             *)
(*                                                                         *)
(* Abstractions.                                                           *)
(*  - A payload is the version number of the edit it carries.              *)
(*  - created_at is the order of the AUTOINCREMENT row ids: both are given *)
(*    at insertion.                                                        *)
(*  - next_retry_at is the field retry: a failure makes the row wait, the  *)
(*    passing of time (an action of the modules that use the queue) makes  *)
(*    it due again.                                                        *)
(***************************************************************************)
EXTENDS Naturals, FiniteSets

CONSTANTS
  Ids,          \* identifiers of the records of one family (risks, rules...)
  Incidents,    \* identifiers of incidents kept for a later upload
  Capacity,     \* MAX_SYNC_QUEUE_SIZE: 10000 in the code
  Batch,        \* rows read at once: 50 in the orchestrator
  MaxAttempts,  \* DEFAULT_MAX_ATTEMPTS: 10 in the code
  PowWidth      \* bits of the integer of the backoff, 2u64.pow(..): 64

ASSUME QueueAssumption ==
  /\ Capacity \in Nat \ {0}
  /\ Batch \in Nat \ {0}
  /\ MaxAttempts \in Nat \ {0}
  /\ PowWidth \in Nat
  /\ PowWidth > MaxAttempts

-----------------------------------------------------------------------------
(* Rows *)

Kinds == {"upload", "delete", "incident"}

QueueRow ==
  [id : Nat, kind : Kinds, entity : Ids \union Incidents, version : Nat,
   attempts : 0 .. (PowWidth - 1), retry : {"due", "waiting"}]

\* A new row: no attempt yet, due at once (the column defaults).
NewRow(id, kind, entity, version) ==
  [id |-> id, kind |-> kind, entity |-> entity, version |-> version,
   attempts |-> 0, retry |-> "due"]

\* Priority column: GRC uploads keep the default 0, deletions are inserted
\* with 10, incidents are queued with INCIDENT_QUEUE_PRIORITY = 10.
PriorityOf(r) == IF r.kind = "upload" THEN 0 ELSE 10

\* Mutant: a deletion has the default number of attempts.
ExhaustedDeletionToo(r) == r.attempts >= MaxAttempts

\* max_attempts column: 2147483647 for a deletion, the default for the rest.
\* 2147483647 failures are out of reach: the backoff itself stops at PowWidth.
Exhausted(r) == r.kind # "delete" /\ r.attempts >= MaxAttempts

Uploads(q) == {r \in q : r.kind = "upload"}
Tombstones(q) == {r \in q : r.kind = "delete"}

\* EXISTS (SELECT 1 FROM sync_queue WHERE entity_type = .. AND entity_id = ..)
HasUpload(q, i) == \E r \in q : r.kind = "upload" /\ r.entity = i
HasTombstone(q, i) == \E r \in q : r.kind = "delete" /\ r.entity = i

-----------------------------------------------------------------------------
(* Reading *)

\* Mutant: the youngest row of a priority first.
SentBeforeYoungest(r, s) ==
  \/ PriorityOf(r) > PriorityOf(s)
  \/ PriorityOf(r) = PriorityOf(s) /\ r.id > s.id

\* ORDER BY priority DESC, created_at ASC.
SentBefore(r, s) ==
  \/ PriorityOf(r) > PriorityOf(s)
  \/ PriorityOf(r) = PriorityOf(s) /\ r.id < s.id

\* ORDER BY priority ASC, created_at ASC.
EvictedBefore(r, s) ==
  \/ PriorityOf(r) < PriorityOf(s)
  \/ PriorityOf(r) = PriorityOf(s) /\ r.id < s.id

\* The first n rows of rows in the order Before: ORDER BY .. LIMIT n.
FirstRows(rows, n, Before(_, _)) ==
  {r \in rows : Cardinality({s \in rows : Before(s, r)}) < n}

\* Rows that may be sent now: attempts < max_attempts AND next_retry_at <= now.
Due(q) == {r \in q : r.retry = "due" /\ ~Exhausted(r)}

GetPending(q) == FirstRows(Due(q), Batch, SentBefore)

GetPendingFor(q, kind) ==
  FirstRows({r \in Due(q) : r.kind = kind}, Batch, SentBefore)

-----------------------------------------------------------------------------
(* Writing *)

\* Mutant: the deletions may be evicted.
EvictableAnyKind(q) == q

\* Rows that may be evicted: entity_type NOT LIKE '%_delete'.
Evictable(q) == {r \in q : r.kind # "delete"}

\* Mutant: the first pass takes the oldest rows of any priority.
EvictLowAnyPriority(q, excess) ==
  q \ FirstRows(Evictable(q), excess, LAMBDA r, s : r.id < s.id)

\* First pass of an overflow: the oldest rows of priority 0.
EvictLow(q, excess) ==
  q \ FirstRows({r \in Evictable(q) : PriorityOf(r) = 0}, excess, EvictedBefore)

\* Both passes: what the first one could not free is taken from every row but
\* the deletions.
EvictForInsert(q) ==
  LET excess == (Cardinality(q) - Capacity) + 1
      low    == EvictLow(q, excess)
      left   == excess - (Cardinality(q) - Cardinality(low))
  IN  IF Cardinality(q) < Capacity THEN q
      ELSE IF left = 0 THEN low
      ELSE low \ FirstRows(Evictable(low), left, EvictedBefore)

Enqueue(q, row) == EvictForInsert(q) \union {row}

\* Called at the start of every drain.
EnforceQueueLimit(q) ==
  IF Cardinality(q) <= Capacity THEN q
  ELSE q \ FirstRows(Evictable(q), Cardinality(q) - Capacity, EvictedBefore)

\* Mutant: off by one in the width.
BackoffOverflowsLate(r) == r.attempts >= PowWidth

\* The backoff of one more failure is computed as 2u64.pow(attempts + 1): with
\* PowWidth bits it overflows, and the build checks overflows.
BackoffOverflows(r) == r.attempts + 1 >= PowWidth

FailedRow(r) == [r EXCEPT !.attempts = @ + 1, !.retry = "waiting"]

\* record_failure on each of ids. A row that is gone is NotFound, and one whose
\* backoff overflows panics before the UPDATE: neither is written.
RecordFailure(q, ids) ==
  {IF r.id \in ids /\ ~BackoffOverflows(r) THEN FailedRow(r) ELSE r : r \in q}

Remove(q, ids) == {r \in q : r.id \notin ids}

\* Mutant: the uploads of the deleted record stay queued.
DeleteGrcRowsKeepUploads(q, i, id) ==
  {r \in q : ~(r.entity = i /\ r.kind = "delete")}
    \union {NewRow(id, "delete", i, 0)}

\* The queue part of delete_grc: the uploads and the earlier deletion of the
\* record leave, the deletion enters. There is no capacity check.
DeleteGrcRows(q, i, id) ==
  {r \in q : ~(r.entity = i /\ r.kind \in {"upload", "delete"})}
    \union {NewRow(id, "delete", i, 0)}

CancelGrcDelete(q, i) == {r \in q : ~(r.entity = i /\ r.kind = "delete")}

\* acknowledge_grc: the rows still queued leave; the records that have no other
\* upload queued are the ones marked synced.
AcknowledgedIds(q, ids) ==
  {i \in Ids : /\ \E r \in Uploads(q) : r.id \in ids /\ r.entity = i
               /\ \A r \in Uploads(q) : r.entity = i => r.id \in ids}

AcknowledgeRows(q, ids) == {r \in q : ~(r.kind = "upload" /\ r.id \in ids)}
=============================================================================
