----------------------- MODULE IncidentDeliveryProofs -----------------------
(***************************************************************************)
(* Theorems about IncidentDelivery, for any set of incidents, any capacity *)
(* of the outbox and of the queue, and any number of panics, database      *)
(* errors and restarts.                                                    *)
(***************************************************************************)
EXTENDS IncidentDelivery, SequenceTheorems, FiniteSetTheorems, TLAPS

USE QueueAssumption, OutboxAssumption

-----------------------------------------------------------------------------
(* The queue *)

\* An insertion evicts rows and adds one (SyncQueueRepository::enqueue).
LEMMA EnqueueRows ==
  ASSUME NEW q, NEW row
  PROVE  Enqueue(q, row) \subseteq q \union {row}
  BY DEF Enqueue, EvictForInsert, EvictLow, Evictable, FirstRows

\* The row of a kept incident (keep_incident_for_retry).
LEMMA NewIncidentRow ==
  ASSUME NEW id \in Nat, NEW n \in Incidents
  PROVE  NewRow(id, "incident", n, 0) \in IncidentRow
<1>1. NewRow(id, "incident", n, 0) \in QueueRow
  BY DEF NewRow, QueueRow, Kinds
<1> QED
  BY <1>1 DEF IncidentRow, NewRow

\* A recorded failure keeps an incident row one.
LEMMA FailedIncidentRow ==
  ASSUME NEW r \in IncidentRow, ~BackoffOverflows(r)
  PROVE  FailedRow(r) \in IncidentRow
<1> DEFINE s == [r EXCEPT !.attempts = r.attempts + 1]
<1>1. r.attempts + 1 \in 0 .. (PowWidth - 1)
  BY DEF IncidentRow, QueueRow, BackoffOverflows
<1>2. s \in QueueRow /\ s.kind = r.kind /\ s.entity = r.entity
  BY <1>1 DEF IncidentRow, QueueRow
<1>3. FailedRow(r) = [s EXCEPT !.retry = "waiting"]
  BY DEF FailedRow
<1>4. \A t \in QueueRow : LET u == [t EXCEPT !.retry = "waiting"]
                          IN  u \in QueueRow /\ u.kind = t.kind /\ u.entity = t.entity
  BY DEF QueueRow
<1> HIDE DEF s
<1> QED
  BY <1>2, <1>3, <1>4 DEF IncidentRow

LEMMA FailureRows ==
  ASSUME NEW q \in SUBSET IncidentRow, NEW ids
  PROVE  RecordFailure(q, ids) \subseteq IncidentRow
  BY FailedIncidentRow DEF RecordFailure

\* Time makes a row due again.
LEMMA DueRow ==
  ASSUME NEW r \in IncidentRow
  PROVE  [r EXCEPT !.retry = "due"] \in IncidentRow
  BY DEF IncidentRow, QueueRow

\* Reading the queue returns rows of the queue (get_pending_for).
LEMMA PendingRows ==
  ASSUME NEW q, NEW kind
  PROVE  GetPendingFor(q, kind) \subseteq q
  BY DEF GetPendingFor, FirstRows, Due

-----------------------------------------------------------------------------
(* The outbox *)

LEMMA OutboxInit == Init => OutboxInv
<1> SUFFICES ASSUME Init PROVE OutboxInv
  OBVIOUS
<1>1. suspended \in BOOLEAN /\ shutdown \in BOOLEAN
  BY DEF Init
<1>2. chan \in Seq(Items) /\ Len(chan) = 0
  BY DEF Init
<1> QED
  BY <1>1, <1>2 DEF Init, OutboxInv, TypeOK, HandsFull, UnsentExact, LoopSteps,
                    SenderSteps, Sending

\* The end of an item keeps the count: the guard is dropped once per item.
LEMMA ItemDoneStep ==
  ASSUME OutboxInv, sender \in Sending, ItemDone, UNCHANGED <<loopVars, chan>>
  PROVE  /\ UnsentExact' /\ HandsFull' /\ unsent' \in Nat
         /\ sender' \in SenderSteps /\ item' \in Items \union {Nothing}
         /\ pending' \subseteq IncidentRow
<1>1. unsent = Len(chan) + 1 + (IF loop = "pushing" THEN 1 ELSE 0) /\ Len(chan) \in Nat
  BY DEF OutboxInv, UnsentExact, TypeOK
<1>2. unsent' = Len(chan') + (IF loop' = "pushing" THEN 1 ELSE 0) /\ unsent' \in Nat
  BY <1>1 DEF ItemDone, loopVars
<1> QED
  BY <1>2 DEF ItemDone, loopVars, UnsentExact, HandsFull, OutboxInv, TypeOK, Sending,
              SenderSteps

LEMMA OutboxStep == OutboxInv /\ [Next]_vars => OutboxInv'
<1> SUFFICES ASSUME OutboxInv, [Next]_vars PROVE OutboxInv'
  OBVIOUS
<1> USE DEF OutboxInv, loopVars, senderVars, dbVars, bounds
<1>0. Len(chan) \in Nat
  BY DEF TypeOK
<1>1. CASE StartPass
  BY <1>1 DEF StartPass, TypeOK, HandsFull, UnsentExact, LoopSteps, SenderSteps,
              Sending
<1>2. ASSUME NEW i \in Items, StartPush(i),
             UNCHANGED <<chan, senderVars, dbVars, shutdown, bounds, received>>,
             detected' \in SUBSET Incidents
      PROVE  OutboxInv'
  BY <1>0, <1>2 DEF StartPush, TypeOK, HandsFull, UnsentExact, LoopSteps
<1>3. ASSUME NEW n \in Incidents, Detect(n) PROVE OutboxInv'
  BY <1>2, <1>3 DEF Detect, TypeOK, Items
<1>4. CASE PushOther \/ PushRetry
  BY <1>2, <1>4 DEF PushOther, PushRetry, TypeOK, Items
<1>5. CASE PushDone
  <2>1. hold \in Items /\ chan \in Seq(Items)
    BY <1>5 DEF PushDone, HandsFull, TypeOK
  <2>2. chan' \in Seq(Items) /\ Len(chan') = Len(chan) + 1
    BY <1>5, <2>1 DEF PushDone
  <2>3. UnsentExact'
    BY <1>0, <1>5, <2>2 DEF PushDone, UnsentExact
  <2> QED
    BY <1>5, <2>2, <2>3 DEF PushDone, TypeOK, HandsFull, LoopSteps
<1>6. CASE EndPass \/ StopLoop \/ FlushEmpty \/ FlushTimesOut
  BY <1>6 DEF EndPass, StopLoop, FlushEmpty, FlushTimesOut, TypeOK, HandsFull,
              UnsentExact, LoopSteps
<1>7. CASE RequestShutdown
  <2>1. shutdown' \in BOOLEAN
    BY <1>7 DEF RequestShutdown
  <2>2. stops' \in Nat
    BY <1>7 DEF RequestShutdown, TypeOK
  <2> QED
    BY <1>7, <2>1, <2>2 DEF RequestShutdown, TypeOK, HandsFull, UnsentExact
<1>8. CASE ProcessEnds /\ stops' \in {stops, stops + 1}
  <2>1. chan' \in Seq(Items) /\ Len(chan') = 0
    BY <1>8 DEF ProcessEnds
  <2>2. suspended' \in BOOLEAN /\ shutdown' \in BOOLEAN
    BY <1>8 DEF ProcessEnds
  <2>3. UnsentExact' /\ HandsFull'
    BY <1>8, <2>1 DEF ProcessEnds, UnsentExact, HandsFull, Sending
  <2> QED
    BY <1>8, <2>1, <2>2, <2>3 DEF ProcessEnds, TypeOK, LoopSteps, SenderSteps
<1>9. CASE StartUp
  <2>1. sender = "off"
    BY <1>9 DEF StartUp, HandsFull
  <2> QED
    BY <1>9, <2>1 DEF StartUp, TypeOK, HandsFull, UnsentExact, LoopSteps,
                      SenderSteps, Sending
<1>10. CASE Receive
  <2>1. /\ Head(chan) \in Items /\ Tail(chan) \in Seq(Items)
        /\ Len(Tail(chan)) = Len(chan) - 1
    BY <1>10 DEF Receive, TypeOK
  <2>2. sender' \in {"flush", "other", "incident"}
    BY <1>10 DEF Receive
  <2>3. sender' = "incident" => item' \in Incidents
    BY <1>10, <2>1 DEF Receive, Items
  <2>4. UnsentExact'
    BY <1>0, <1>10, <2>1, <2>2 DEF Receive, UnsentExact, Sending
  <2> QED
    BY <1>10, <2>1, <2>2, <2>3, <2>4 DEF Receive, TypeOK, HandsFull, SenderSteps
<1>11. CASE SendOther \/ AllPosted
  BY <1>11, ItemDoneStep DEF SendOther, AllPosted, TypeOK, Sending
<1>12. CASE SkipPost
  BY <1>12 DEF SkipPost, TypeOK, HandsFull, UnsentExact, SenderSteps, Sending
<1>13. CASE PostIncident
  <2>1. item \in Incidents
    BY <1>13 DEF PostIncident, HandsFull
  <2> QED
    BY <1>13, <2>1, ItemDoneStep DEF PostIncident, TypeOK, Sending
<1>14. CASE PostIncidentFails
  <2>1. item \in Incidents
    BY <1>14 DEF PostIncidentFails, HandsFull
  <2> QED
    BY <1>14, <2>1 DEF PostIncidentFails, TypeOK, HandsFull, UnsentExact,
                       SenderSteps, Sending
<1>15. CASE KeepForRetry
  <2>1. NewRow(nextId, "incident", item, 0) \in IncidentRow
    BY <1>15, NewIncidentRow DEF KeepForRetry, HandsFull, TypeOK
  <2>2. queue' \subseteq IncidentRow
    BY <1>15, <2>1, EnqueueRows DEF KeepForRetry, TypeOK
  <2> QED
    BY <1>15, <2>2, ItemDoneStep DEF KeepForRetry, TypeOK, Sending
<1>16. CASE StorageFails
  BY <1>16, ItemDoneStep DEF StorageFails, TypeOK, Sending
<1>17. CASE ReadKept
  BY <1>17, PendingRows DEF ReadKept, TypeOK, HandsFull, UnsentExact, SenderSteps,
                            Sending
<1>18. ASSUME NEW r \in pending, PostKept(r) PROVE OutboxInv'
  <2>1. r.entity \in Incidents
    BY DEF TypeOK, IncidentRow
  <2> QED
    BY <1>18, <2>1 DEF PostKept, TypeOK, HandsFull, UnsentExact, SenderSteps, Sending
<1>19. ASSUME NEW r \in pending, PostKeptFails(r) PROVE OutboxInv'
  <2>1. r.entity \in Incidents
    BY DEF TypeOK, IncidentRow
  <2> QED
    BY <1>19, <2>1 DEF PostKeptFails, TypeOK, HandsFull, UnsentExact, SenderSteps,
                       Sending
<1>20. ASSUME NEW r \in pending, RemoveKept(r) PROVE OutboxInv'
  BY <1>20 DEF RemoveKept, Remove, TypeOK, HandsFull, UnsentExact, SenderSteps,
               Sending
<1>21. ASSUME NEW r \in pending, Reschedule(r) PROVE OutboxInv'
  <2>1. queue' \subseteq IncidentRow
    BY <1>21, FailureRows DEF Reschedule, TypeOK
  <2> QED
    BY <1>21, <2>1, ItemDoneStep DEF Reschedule, TypeOK, Sending
<1>22. CASE Panic
  <2>1. unsent' \in Nat /\ UnsentExact'
    BY <1>0, <1>22 DEF Panic, UnsentExact, Sending
  <2> QED
    BY <1>22, <2>1 DEF Panic, TypeOK, HandsFull, SenderSteps, Sending
<1>23. CASE Restart
  BY <1>23 DEF Restart, TypeOK, HandsFull, UnsentExact, SenderSteps, Sending
<1>24. CASE PauseEnds
  BY <1>24 DEF PauseEnds, TypeOK, HandsFull, UnsentExact
<1>25. ASSUME NEW r \in queue, BackoffElapses(r) PROVE OutboxInv'
  <2>1. [r EXCEPT !.retry = "due"] \in IncidentRow
    BY DueRow DEF TypeOK
  <2> QED
    BY <1>25, <2>1 DEF BackoffElapses, TypeOK, HandsFull, UnsentExact
<1>26. CASE UNCHANGED vars
  BY <1>26 DEF vars, TypeOK, HandsFull, UnsentExact
<1> QED
  BY <1>1, <1>3, <1>4, <1>5, <1>6, <1>7, <1>8, <1>9, <1>10, <1>11, <1>12, <1>13,
     <1>14, <1>15, <1>16, <1>17, <1>18, <1>19, <1>20, <1>21, <1>22, <1>23, <1>24,
     <1>25, <1>26
  DEF Next, LoopStep, SenderStep, TimeStep, StopTasks, Kill, WatchdogRestart

\* Every reachable state is well typed; in particular the counter of the outbox
\* never goes below zero.
THEOREM TypeCorrect == Spec => []TypeOK
<1>1. OutboxInv => TypeOK
  BY DEF OutboxInv
<1> QED
  BY <1>1, OutboxInit, OutboxStep, PTL DEF Spec

\* The counter a stop waits on is exact, through panics of the upload task, its
\* restarts and restarts of the agent: a stop that sees zero leaves nothing unsent.
THEOREM CounterExact == Spec => []UnsentExact
<1>1. OutboxInv => UnsentExact
  BY DEF OutboxInv
<1> QED
  BY <1>1, OutboxInit, OutboxStep, PTL DEF Spec

-----------------------------------------------------------------------------
(* Where an incident is *)

LEMMA KeptInit == Init => KeptInv
<1> SUFFICES ASSUME Init PROVE KeptInv
  OBVIOUS
<1>1. OutboxInv
  BY OutboxInit
<1>2. Nothing \notin Incidents /\ Len(chan) = 0 /\ 1 .. Len(chan) = {}
  BY DEF Init
<1>3. ItemInv /\ RowInv
  BY DEF Init, ItemInv, RowInv
<1>4. OnceInv
  BY <1>2 DEF Init, OnceInv, InMemory, Kept
<1> QED
  BY <1>1, <1>3, <1>4 DEF KeptInv

\* Each step of the loop and of the upload task leaves in the hands what the next
\* one expects.
LEMMA ItemStep == OutboxInv /\ ItemInv /\ [Next]_vars => ItemInv'
<1> SUFFICES ASSUME OutboxInv, ItemInv, [Next]_vars PROVE ItemInv'
  OBVIOUS
<1> USE DEF ItemInv, loopVars, senderVars, dbVars, bounds
<1>1. CASE LoopStep
  <2>1. CASE StartPass \/ PushDone \/ EndPass \/ RequestShutdown \/ StopLoop \/ FlushEmpty
             \/ FlushTimesOut
    BY <2>1 DEF StartPass, PushDone, EndPass, RequestShutdown, StopLoop, FlushEmpty,
                FlushTimesOut, Sending
  <2>2. CASE (\E n \in Incidents : Detect(n)) \/ PushOther \/ PushRetry
    BY <2>2 DEF Detect, PushOther, PushRetry, StartPush
  <2>3. CASE StopTasks \/ Kill \/ WatchdogRestart
    BY <2>3 DEF StopTasks, Kill, WatchdogRestart, ProcessEnds, Sending
  <2>4. CASE StartUp
    BY <2>4 DEF StartUp, Sending, OutboxInv, HandsFull
  <2> QED
    BY <1>1, <2>1, <2>2, <2>3, <2>4 DEF LoopStep
<1>2. CASE SenderStep
  <2>1. CASE Receive
    <3>1. Head(chan) \in Items
      BY <2>1 DEF Receive, OutboxInv, TypeOK
    <3> QED
      BY <2>1, <3>1 DEF Receive, Sending
  <2>2. CASE SendOther \/ PostIncident \/ KeepForRetry \/ StorageFails \/ AllPosted
             \/ Panic \/ \E r \in pending : Reschedule(r)
    BY <2>2 DEF SendOther, PostIncident, KeepForRetry, StorageFails, AllPosted, Panic,
                Reschedule, ItemDone, Sending
  <2>3. CASE SkipPost \/ PostIncidentFails \/ ReadKept \/ Restart
             \/ \E r \in pending : PostKept(r) \/ RemoveKept(r) \/ PostKeptFails(r)
    BY <2>3 DEF SkipPost, PostIncidentFails, ReadKept, Restart, PostKept, RemoveKept,
                PostKeptFails, Sending
  <2> QED
    BY <1>2, <2>1, <2>2, <2>3 DEF SenderStep
<1>3. CASE TimeStep \/ UNCHANGED vars
  BY <1>3 DEF TimeStep, PauseEnds, BackoffElapses, vars
<1> QED
  BY <1>1, <1>2, <1>3 DEF Next

\* An insertion takes an id no row has.
LEMMA EnqueuedIds ==
  ASSUME NEW q, NEW row, NEW p, p = Enqueue(q, row)
  PROVE  p \subseteq q \union {row} /\ row \in p
  BY EnqueueRows DEF Enqueue

\* A recorded failure changes neither the id nor the incident of a row.
LEMMA FailedIds ==
  ASSUME NEW q \in SUBSET IncidentRow, NEW ids
  PROVE  /\ \A s \in RecordFailure(q, ids) :
              \E r \in q : /\ s.id = r.id /\ s.entity = r.entity
                          /\ s = IF r.id \in ids /\ ~BackoffOverflows(r) THEN FailedRow(r) ELSE r
         /\ \A r \in q : \E s \in RecordFailure(q, ids) : s.id = r.id /\ s.entity = r.entity
<1> DEFINE Row(r) == IF r.id \in ids /\ ~BackoffOverflows(r) THEN FailedRow(r) ELSE r
<1>1. ASSUME NEW r \in q
      PROVE  Row(r).id = r.id /\ Row(r).entity = r.entity
  BY DEF FailedRow, IncidentRow, QueueRow
<1>2. RecordFailure(q, ids) = {Row(r) : r \in q}
  BY DEF RecordFailure
<1> HIDE DEF Row
<1>3. \A s \in RecordFailure(q, ids) :
        \E r \in q : s.id = r.id /\ s.entity = r.entity /\ s = Row(r)
  BY <1>1, <1>2
<1>4. \A r \in q : \E s \in RecordFailure(q, ids) : s.id = r.id /\ s.entity = r.entity
  BY <1>1, <1>2
<1> QED
  BY <1>3, <1>4 DEF Row

LEMMA RowStep == KeptInv /\ [Next]_vars => RowInv'
<1> SUFFICES ASSUME KeptInv, [Next]_vars PROVE RowInv'
  OBVIOUS
<1> USE DEF loopVars, senderVars, dbVars, bounds
<1>0. /\ queue \subseteq IncidentRow /\ pending \subseteq IncidentRow /\ nextId \in Nat
      /\ \A r \in IncidentRow : r.id \in Nat
      /\ RowInv
  BY DEF KeptInv, OutboxInv, TypeOK, IncidentRow, QueueRow
<1>1. ASSUME UNCHANGED dbVars, pending' = {} PROVE RowInv'
  BY <1>0, <1>1 DEF RowInv
<1>2. ASSUME UNCHANGED <<dbVars, pending>>, sender' = sender \/ sender' # "delivered",
             received \subseteq received'
      PROVE  RowInv'
  BY <1>0, <1>2 DEF RowInv, IsNext
<1>3. CASE LoopStep
  <2>1. CASE StopTasks \/ Kill \/ WatchdogRestart
    BY <1>1, <2>1 DEF StopTasks, Kill, WatchdogRestart, ProcessEnds
  <2>2. CASE StartPass \/ PushDone \/ EndPass \/ RequestShutdown \/ StopLoop \/ FlushEmpty
             \/ FlushTimesOut \/ StartUp
    BY <1>2, <2>2 DEF StartPass, PushDone, EndPass, RequestShutdown, StopLoop, FlushEmpty,
                FlushTimesOut, StartUp
  <2>3. CASE (\E n \in Incidents : Detect(n)) \/ PushOther \/ PushRetry
    BY <1>2, <2>3 DEF Detect, PushOther, PushRetry
  <2> QED
    BY <1>3, <2>1, <2>2, <2>3 DEF LoopStep
<1>4. CASE SenderStep
  <2>1. CASE Receive \/ SkipPost \/ PostIncidentFails \/ Restart
    BY <1>2, <2>1 DEF Receive, SkipPost, PostIncidentFails, Restart
  <2>2. CASE SendOther \/ PostIncident \/ StorageFails \/ AllPosted \/ Panic
    BY <1>1, <2>2 DEF SendOther, PostIncident, StorageFails, AllPosted, Panic, ItemDone
  <2>3. CASE KeepForRetry
    <3> DEFINE row == NewRow(nextId, "incident", item, 0)
    <3>1. row.id = nextId /\ nextId' = nextId + 1 /\ pending' = {}
      BY <2>3 DEF NewRow, KeepForRetry, ItemDone
    <3>2. queue' \subseteq queue \union {row}
      BY <2>3, EnqueuedIds DEF KeepForRetry
    <3> HIDE DEF row
    <3> QED
      BY <1>0, <3>1, <3>2 DEF RowInv
  <2>4. CASE ReadKept
    <3>1. pending' \subseteq queue /\ UNCHANGED dbVars /\ sender' = "posting"
      BY <2>4, PendingRows DEF ReadKept
    <3> QED
      BY <1>0, <3>1 DEF RowInv
  <2>5. ASSUME NEW r \in pending, PostKept(r) PROVE RowInv'
    <3>1. \A s \in pending : IsNext(s) => s = r
      BY <1>0, <2>5 DEF PostKept, IsNext, RowInv
    <3> QED
      BY <1>0, <2>5, <3>1 DEF RowInv, PostKept, IsNext
  <2>6. ASSUME NEW r \in pending, PostKeptFails(r) PROVE RowInv'
    BY <1>2, <2>6 DEF PostKeptFails
  <2>7. ASSUME NEW r \in pending, RemoveKept(r) PROVE RowInv'
    BY <1>0, <2>7 DEF RemoveKept, Remove, RowInv
  <2>8. ASSUME NEW r \in pending, Reschedule(r) PROVE RowInv'
    <3>1. queue' = RecordFailure(queue, {r.id}) /\ nextId' = nextId /\ pending' = {}
      BY <2>8 DEF Reschedule, ItemDone
    <3> DEFINE Row(t) == IF t.id \in {r.id} /\ ~BackoffOverflows(t) THEN FailedRow(t) ELSE t
    <3>2. \A s \in queue' : \E t \in queue : s.id = t.id /\ s = Row(t)
      BY <1>0, <3>1, FailedIds
    <3> HIDE DEF Row
    <3>3. \A s \in queue' : s.id < nextId'
      BY <1>0, <3>1, <3>2 DEF RowInv
    <3>4. \A s, t \in queue' : s.id = t.id => s = t
      BY <1>0, <3>2 DEF RowInv
    <3> QED
      BY <3>1, <3>3, <3>4 DEF RowInv
  <2> QED
    BY <1>4, <2>1, <2>2, <2>3, <2>4, <2>5, <2>6, <2>7, <2>8 DEF SenderStep
<1>5. ASSUME NEW r \in queue, BackoffElapses(r) PROVE RowInv'
  <2> DEFINE due == [r EXCEPT !.retry = "due"]
  <2>1. due.id = r.id /\ due.entity = r.entity
    BY <1>0 DEF IncidentRow, QueueRow
  <2>2. queue' = (queue \ {r}) \union {due}
    BY <1>5 DEF BackoffElapses
  <2> HIDE DEF due
  <2>3. UNCHANGED <<nextId, pending, sender, received>>
    BY <1>5 DEF BackoffElapses
  <2> QED
    BY <1>0, <2>1, <2>2, <2>3 DEF RowInv, IsNext
<1>6. CASE PauseEnds \/ UNCHANGED vars
  BY <1>2, <1>6 DEF PauseEnds, vars
<1> QED
  BY <1>3, <1>4, <1>5, <1>6 DEF Next, TimeStep

\* Every row of the queue q was one of the queue, perhaps with another state.
From(q) == \A s \in q : \E r \in queue : s.id = r.id /\ s.entity = r.entity

\* A step that puts no incident anywhere.
LEMMA OnceFrame ==
  ASSUME KeptInv, RowInv', From(queue'), detected \subseteq detected',
         chan' = chan, hold' \in {hold, Retry, Other, Nothing}, item' \in {item, Nothing}
  PROVE  OnceInv'
<1> USE DEF KeptInv, OnceInv
<1>1. \A n \in Incidents : InMemory(n)' => InMemory(n)
  BY DEF InMemory
<1>2. \A n \in Incidents : Kept(n)' => Kept(n)
  BY DEF Kept, From
<1>3. \A r, s \in queue' : r.entity = s.entity => r = s
  BY DEF From, RowInv
<1> QED
  BY <1>1, <1>2, <1>3

LEMMA OnceStep == KeptInv /\ [Next]_vars => OnceInv'
<1> SUFFICES ASSUME KeptInv, [Next]_vars PROVE OnceInv'
  OBVIOUS
<1> USE DEF loopVars, senderVars, dbVars, bounds
<1>0. /\ queue \subseteq IncidentRow /\ nextId \in Nat /\ chan \in Seq(Items)
      /\ pending \subseteq IncidentRow /\ OnceInv /\ ItemInv /\ RowInv
  BY DEF KeptInv, OutboxInv, TypeOK
<1>1. RowInv'
  BY RowStep
<1>2. ASSUME queue' \subseteq queue PROVE From(queue')
  BY <1>2 DEF From
<1>3. ASSUME queue' \subseteq queue, detected' = detected, chan' = chan, hold' = hold,
             item' \in {item, Nothing}
      PROVE  OnceInv'
  BY <1>1, <1>2, <1>3, OnceFrame
<1>4. ASSUME ProcessEnds PROVE OnceInv'
  <2>1. Len(chan') = 0 /\ 1 .. Len(chan') = {}
    BY <1>4 DEF ProcessEnds
  <2> QED
    BY <1>0, <1>4, <2>1 DEF ProcessEnds, OnceInv, InMemory, Kept
<1>5. CASE LoopStep
  <2>1. CASE StopTasks \/ Kill \/ WatchdogRestart
    BY <1>4, <2>1 DEF StopTasks, Kill, WatchdogRestart
  <2>2. CASE StartPass \/ EndPass \/ RequestShutdown \/ StopLoop \/ FlushEmpty
             \/ FlushTimesOut \/ StartUp
    BY <1>3, <2>2 DEF StartPass, EndPass, RequestShutdown, StopLoop, FlushEmpty,
                FlushTimesOut, StartUp
  <2>3. CASE PushOther \/ PushRetry
    BY <1>1, <1>2, <2>3, OnceFrame DEF PushOther, PushRetry, StartPush
  <2>4. ASSUME NEW n \in Incidents, Detect(n) PROVE OnceInv'
    <3>1. /\ hold' = n /\ detected' = detected \union {n} /\ n \notin detected
          /\ UNCHANGED <<chan, item, queue>>
      BY <2>4 DEF Detect, StartPush
    <3>2. ~InMemory(n) /\ ~Kept(n)
      BY <1>0, <3>1 DEF OnceInv
    <3> QED
      BY <1>0, <3>1, <3>2 DEF OnceInv, InMemory, Kept
  <2>5. CASE PushDone
    <3>1. /\ hold \in Items /\ hold' = Nothing /\ chan' = Append(chan, hold)
          /\ UNCHANGED <<item, queue, detected>>
      BY <2>5 DEF PushDone, KeptInv, OutboxInv, HandsFull
    <3>2. /\ Len(chan') = Len(chan) + 1 /\ Len(chan) \in Nat /\ chan'[Len(chan) + 1] = hold
          /\ \A k \in 1 .. Len(chan) : chan'[k] = chan[k]
      BY <1>0, <3>1
    <3>3. \A k \in 1 .. Len(chan') : k \in 1 .. Len(chan) \/ k = Len(chan) + 1
      BY <3>2
    <3>4. \A k, m \in 1 .. Len(chan') : chan'[k] = chan'[m] /\ chan'[k] \in Incidents => k = m
      BY <1>0, <3>2, <3>3 DEF OnceInv
    <3>5. \A n \in Incidents : InMemory(n)' => InMemory(n)
      BY <3>1, <3>2, <3>3 DEF InMemory
    <3>6. \A k \in 1 .. Len(chan') : chan'[k] \in Incidents => chan'[k] # item
      BY <1>0, <3>2, <3>3 DEF OnceInv
    <3> QED
      BY <1>0, <3>1, <3>4, <3>5, <3>6 DEF OnceInv, Kept
  <2> QED
    BY <1>5, <2>1, <2>2, <2>3, <2>4, <2>5 DEF LoopStep
<1>6. CASE SenderStep
  <2>1. CASE Receive
    <3>1. /\ item = Nothing /\ item' = Head(chan) /\ chan' = Tail(chan) /\ chan # <<>>
          /\ UNCHANGED <<hold, queue, detected>>
      BY <1>0, <2>1 DEF Receive, ItemInv, Sending
    <3>2. /\ Len(chan') = Len(chan) - 1 /\ Len(chan) \in Nat \ {0} /\ chan[1] = item'
          /\ \A k \in 1 .. Len(chan') : chan'[k] = chan[k + 1]
      BY <1>0, <3>1
    <3>3. \A k \in 1 .. Len(chan') : k + 1 \in 1 .. Len(chan) /\ k + 1 # 1
      BY <3>2
    <3>4. \A k, m \in 1 .. Len(chan') : chan'[k] = chan'[m] /\ chan'[k] \in Incidents => k = m
      <4> TAKE k, m \in 1 .. Len(chan')
      <4> HAVE chan'[k] = chan'[m] /\ chan'[k] \in Incidents
      <4>1. k + 1 = m + 1
        BY <1>0, <3>2, <3>3 DEF OnceInv
      <4> QED
        BY <3>2, <4>1
    <3>5. 1 \in 1 .. Len(chan)
      BY <3>2
    <3>6. \A n \in Incidents : InMemory(n)' => InMemory(n)
      BY <3>1, <3>2, <3>3, <3>5 DEF InMemory
    <3>7. \A k \in 1 .. Len(chan') : chan'[k] \in Incidents => chan'[k] # item' /\ chan'[k] # hold
      BY <1>0, <3>2, <3>3, <3>5 DEF OnceInv
    <3>8. hold \in Incidents => hold # item'
      BY <1>0, <3>2, <3>5 DEF OnceInv
    <3> QED
      BY <1>0, <3>1, <3>4, <3>6, <3>7, <3>8 DEF OnceInv, Kept
  <2>2. CASE SendOther \/ PostIncident \/ StorageFails \/ AllPosted \/ Panic \/ SkipPost
             \/ PostIncidentFails \/ ReadKept \/ Restart
    BY <1>3, <2>2 DEF SendOther, PostIncident, StorageFails, AllPosted, Panic, SkipPost,
                      PostIncidentFails, ReadKept, Restart, ItemDone
  <2>3. CASE KeepForRetry
    <3> DEFINE row == NewRow(nextId, "incident", item, 0)
    <3>1. /\ row.entity = item /\ item \in Incidents /\ item' = Nothing
          /\ UNCHANGED <<hold, chan, detected>>
      BY <2>3 DEF NewRow, KeepForRetry, ItemDone, KeptInv, OutboxInv, HandsFull
    <3>2. queue' \subseteq queue \union {row}
      BY <2>3, EnqueuedIds DEF KeepForRetry
    <3>3. ~Kept(item) /\ item \in detected
      BY <1>0, <3>1 DEF OnceInv, InMemory
    <3> HIDE DEF row
    <3>4. \A r, s \in queue' : r.entity = s.entity => r = s
      BY <1>0, <3>1, <3>2, <3>3 DEF OnceInv, Kept
    <3>5. \A n \in Incidents : InMemory(n)' => InMemory(n) /\ n # item
      BY <1>0, <3>1 DEF OnceInv, InMemory
    <3>6. \A n \in Incidents : Kept(n)' => Kept(n) \/ n = item
      BY <3>1, <3>2 DEF Kept
    <3>7. \A n \in Incidents : /\ InMemory(n)' => ~Kept(n)'
                               /\ InMemory(n)' \/ Kept(n)' => n \in detected'
      BY <1>0, <3>1, <3>3, <3>5, <3>6 DEF OnceInv
    <3> QED
      BY <1>0, <3>1, <3>4, <3>7 DEF OnceInv
  <2>4. ASSUME NEW r \in pending, PostKept(r) \/ RemoveKept(r) \/ PostKeptFails(r)
        PROVE  OnceInv'
    BY <1>3, <2>4 DEF PostKept, RemoveKept, PostKeptFails, Remove
  <2>5. ASSUME NEW r \in pending, Reschedule(r) PROVE OnceInv'
    <3>1. From(queue')
      BY <1>0, <2>5, FailedIds DEF Reschedule, From
    <3> QED
      BY <1>1, <2>5, <3>1, OnceFrame DEF Reschedule, ItemDone
  <2> QED
    BY <1>6, <2>1, <2>2, <2>3, <2>4, <2>5 DEF SenderStep
<1>7. ASSUME NEW r \in queue, BackoffElapses(r) PROVE OnceInv'
  <2>1. From(queue')
    <3> DEFINE due == [r EXCEPT !.retry = "due"]
    <3>1. due.id = r.id /\ due.entity = r.entity
      BY <1>0 DEF IncidentRow, QueueRow
    <3>2. queue' = (queue \ {r}) \union {due}
      BY <1>7 DEF BackoffElapses
    <3> HIDE DEF due
    <3> QED
      BY <3>1, <3>2 DEF From
  <2> QED
    BY <1>1, <1>7, <2>1, OnceFrame DEF BackoffElapses
<1>8. CASE PauseEnds \/ UNCHANGED vars
  BY <1>3, <1>8 DEF PauseEnds, vars
<1> QED
  BY <1>5, <1>6, <1>7, <1>8 DEF Next, TimeStep

LEMMA KeptStep == KeptInv /\ [Next]_vars => KeptInv'
  BY OutboxStep, ItemStep, RowStep, OnceStep DEF KeptInv

-----------------------------------------------------------------------------
(* Nothing is dropped *)

\* The queue has room for every incident: none is evicted.
Room == IsFiniteSet(Incidents) /\ Cardinality(Incidents) <= Capacity

\* Every incident in at most one row, and not the one about to be kept.
LEMMA RoomForOneMore ==
  ASSUME Room, KeptInv, sender = "keep"
  PROVE  Cardinality(queue) < Capacity
<1> DEFINE others == Incidents \ {item}
           f == [r \in queue |-> r.entity]
<1>1. item \in Incidents /\ ~Kept(item)
  BY DEF KeptInv, OutboxInv, HandsFull, OnceInv, InMemory
<1>2. queue \subseteq IncidentRow /\ \A r, s \in queue : r.entity = s.entity => r = s
  BY DEF KeptInv, OutboxInv, TypeOK, OnceInv
<1>3. \A r \in queue : r.entity \in others
  BY <1>1, <1>2 DEF Kept, IncidentRow
<1>4. f \in Injection(queue, others)
  BY <1>2, <1>3 DEF Injection, IsInjective
<1>5. IsFiniteSet(others) /\ Cardinality(others) = Cardinality(Incidents) - 1
  BY <1>1, FS_RemoveElement DEF Room
<1>6. IsFiniteSet(queue) /\ Cardinality(queue) <= Cardinality(others)
  BY <1>4, <1>5, FS_Injection
<1>7. Cardinality(queue) \in Nat /\ Cardinality(Incidents) \in Nat
  BY <1>6, FS_CardinalityType DEF Room
<1> QED
  BY <1>5, <1>6, <1>7 DEF Room

\* Below its capacity the queue only loses rows whose incident was received.
LEMMA KeptLeaves ==
  ASSUME KeptInv, [Next]_vars, sender = "keep" => Cardinality(queue) < Capacity,
         NEW n \in Incidents, Kept(n)
  PROVE  Kept(n)' \/ n \in received
<1> USE DEF loopVars, senderVars, dbVars, bounds
<1>0. queue \subseteq IncidentRow /\ RowInv
  BY DEF KeptInv, OutboxInv, TypeOK
<1>1. ASSUME queue \subseteq queue' PROVE Kept(n)'
  BY <1>1 DEF Kept
<1>2. CASE LoopStep
  BY <1>1, <1>2 DEF LoopStep, StartPass, Detect, PushOther, PushRetry, PushDone, EndPass,
                    RequestShutdown, StopLoop, FlushEmpty, FlushTimesOut, StopTasks, Kill,
                    WatchdogRestart, StartUp, ProcessEnds
<1>3. CASE Receive \/ SendOther \/ SkipPost \/ PostIncident \/ PostIncidentFails
             \/ StorageFails \/ ReadKept \/ AllPosted \/ Panic \/ Restart
  BY <1>1, <1>3 DEF Receive, SendOther, SkipPost, PostIncident, PostIncidentFails,
                    StorageFails, ReadKept, AllPosted, Panic, Restart
<1>4. CASE KeepForRetry
  BY <1>1, <1>4 DEF KeepForRetry, Enqueue, EvictForInsert
<1>5. ASSUME NEW r \in pending, PostKept(r) \/ PostKeptFails(r) PROVE Kept(n)'
  BY <1>1, <1>5 DEF PostKept, PostKeptFails
<1>6. ASSUME NEW r \in pending, RemoveKept(r) PROVE Kept(n)' \/ n \in received
  <2>1. PICK s \in queue : s.entity = n
    BY DEF Kept
  <2>2. s \in queue' \/ s.id = r.id
    BY <1>6 DEF RemoveKept, Remove
  <2>3. s.id = r.id => n \in received
    BY <1>0, <1>6, <2>1 DEF RemoveKept, RowInv
  <2> QED
    BY <2>1, <2>2, <2>3 DEF Kept
<1>7. ASSUME NEW r \in pending, Reschedule(r) PROVE Kept(n)'
  BY <1>0, <1>7, FailedIds DEF Reschedule, Kept
<1>8. ASSUME NEW r \in queue, BackoffElapses(r) PROVE Kept(n)'
  <2> DEFINE due == [r EXCEPT !.retry = "due"]
  <2>1. due.entity = r.entity
    BY <1>0 DEF IncidentRow, QueueRow
  <2>2. queue' = (queue \ {r}) \union {due}
    BY <1>8 DEF BackoffElapses
  <2> HIDE DEF due
  <2> QED
    BY <2>1, <2>2 DEF Kept
<1>9. CASE PauseEnds \/ UNCHANGED vars
  BY <1>1, <1>9 DEF PauseEnds, vars
<1> QED
  BY <1>2, <1>3, <1>4, <1>5, <1>6, <1>7, <1>8, <1>9 DEF Next, SenderStep, TimeStep

\* An incident in memory stays there until it is kept or received; a panic, a
\* database error and the end of the process are the exceptions.
LEMMA MemoryLeaves ==
  ASSUME KeptInv, [Next]_vars, NEW n \in Incidents, InMemory(n),
         panics' = panics, faults' = faults, loop' # "down"
  PROVE  Safe(n)'
<1> USE DEF loopVars, senderVars, dbVars, bounds
<1>0. /\ chan \in Seq(Items) /\ ItemInv /\ n \notin {Retry, Other, Nothing}
      /\ faults \in Nat /\ panics \in Nat
  BY DEF KeptInv, OutboxInv, TypeOK
<1>1. ASSUME UNCHANGED <<hold, chan, item>> PROVE Safe(n)'
  BY <1>1 DEF Safe, InMemory
<1>2. ASSUME UNCHANGED <<hold, chan>>, item # n PROVE Safe(n)'
  BY <1>2 DEF Safe, InMemory
<1>3. CASE StartPass \/ EndPass \/ RequestShutdown \/ StopLoop \/ FlushEmpty
             \/ FlushTimesOut \/ StartUp
  BY <1>1, <1>3 DEF StartPass, EndPass, RequestShutdown, StopLoop, FlushEmpty,
                    FlushTimesOut, StartUp
<1>4. CASE StopTasks \/ Kill \/ WatchdogRestart
  BY <1>4 DEF StopTasks, Kill, WatchdogRestart, ProcessEnds
<1>5. CASE (\E m \in Incidents : Detect(m)) \/ PushOther \/ PushRetry
  <2>1. hold = Nothing /\ UNCHANGED <<chan, item>>
    BY <1>0, <1>5 DEF Detect, PushOther, PushRetry, StartPush, ItemInv
  <2> QED
    BY <1>0, <2>1 DEF Safe, InMemory
<1>6. CASE PushDone
  <2>1. hold \in Items /\ chan' = Append(chan, hold) /\ item' = item
    BY <1>6 DEF PushDone, KeptInv, OutboxInv, HandsFull
  <2>2. /\ Len(chan') = Len(chan) + 1 /\ Len(chan) \in Nat /\ chan'[Len(chan) + 1] = hold
        /\ \A k \in 1 .. Len(chan) : chan'[k] = chan[k]
    BY <1>0, <2>1
  <2>3. 1 .. Len(chan) \subseteq 1 .. Len(chan') /\ Len(chan) + 1 \in 1 .. Len(chan')
    BY <2>2
  <2> QED
    BY <2>1, <2>2, <2>3 DEF Safe, InMemory
<1>7. CASE Receive
  <2>1. item = Nothing /\ item' = chan[1] /\ chan' = Tail(chan) /\ hold' = hold
                       /\ chan # <<>>
    BY <1>0, <1>7 DEF Receive, ItemInv, Sending
  <2>2. /\ Len(chan') = Len(chan) - 1 /\ Len(chan) \in Nat \ {0}
        /\ \A k \in 1 .. Len(chan') : chan'[k] = chan[k + 1]
    BY <1>0, <2>1
  <2>3. \A k \in 1 .. Len(chan) : k # 1 => k - 1 \in 1 .. Len(chan') /\ chan[k] = chan'[k - 1]
    BY <2>2
  <2> QED
    BY <1>0, <2>1, <2>3 DEF Safe, InMemory
<1>8. CASE SkipPost \/ PostIncidentFails \/ ReadKept \/ Restart \/ PauseEnds
             \/ UNCHANGED vars
             \/ (\E r \in pending : PostKept(r) \/ RemoveKept(r) \/ PostKeptFails(r))
             \/ (\E r \in queue : BackoffElapses(r))
  BY <1>1, <1>8 DEF SkipPost, PostIncidentFails, ReadKept, Restart, PauseEnds, vars, PostKept,
                    RemoveKept, PostKeptFails, BackoffElapses
<1>9. CASE SendOther \/ AllPosted \/ \E r \in pending : Reschedule(r)
  <2>1. item # n /\ UNCHANGED <<hold, chan>>
    BY <1>0, <1>9 DEF SendOther, AllPosted, Reschedule, ItemInv
  <2> QED
    BY <1>2, <2>1
<1>10. CASE PostIncident
  BY <1>2, <1>10 DEF PostIncident, Safe
<1>11. CASE KeepForRetry
  <2> DEFINE row == NewRow(nextId, "incident", item, 0)
  <2>1. row \in queue' /\ row.entity = item /\ UNCHANGED <<hold, chan>>
    BY <1>11 DEF KeepForRetry, Enqueue, NewRow
  <2> HIDE DEF row
  <2> QED
    BY <1>2, <2>1 DEF Safe, Kept
<1>12. CASE StorageFails \/ Panic
  BY <1>0, <1>12 DEF StorageFails, Panic
<1>13. CASE LoopStep
  BY <1>3, <1>4, <1>5, <1>6, <1>13 DEF LoopStep
<1>14. CASE SenderStep
  BY <1>7, <1>8, <1>9, <1>10, <1>11, <1>12, <1>14 DEF SenderStep
<1> QED
  BY <1>8, <1>13, <1>14 DEF Next, TimeStep

\* What the platform received, it has.
LEMMA ReceivedGrows ==
  ASSUME [Next]_vars
  PROVE  received \subseteq received'
  BY DEF Next, LoopStep, SenderStep, TimeStep, StartPass, Detect, PushOther, PushRetry,
         PushDone, EndPass, RequestShutdown, StopLoop, FlushEmpty, FlushTimesOut,
         StopTasks, Kill, WatchdogRestart, StartUp, ProcessEnds, Receive, SendOther,
         SkipPost, PostIncident, PostIncidentFails, KeepForRetry, StorageFails, ReadKept,
         AllPosted, Panic, Restart, PostKept, RemoveKept, PostKeptFails, Reschedule,
         PauseEnds, BackoffElapses, vars

\* flush_queued_incidents removes a row after its upload: for any queue, however
\* full, an incident kept leaves it once received, or by the eviction of an
\* insertion into a full queue.
THEOREM KeptBelowCapacity ==
  Spec => [][Cardinality(queue) < Capacity =>
               \A n \in Incidents : Kept(n) /\ ~Kept(n)' => n \in received]_vars
<1>1. KeptInv /\ [Next]_vars =>
        [Cardinality(queue) < Capacity =>
           \A n \in Incidents : Kept(n) /\ ~Kept(n)' => n \in received]_vars
  BY KeptLeaves
<1> QED
  BY <1>1, KeptInit, KeptStep, PTL DEF Spec

\* In a queue with room for every incident, a kept incident leaves only once the
\* platform has it, for any number of panics, database errors, stops and kills.
THEOREM IncidentsKept ==
  ASSUME Room
  PROVE  Spec => KeptUntilReceived
<1>1. KeptInv /\ [Next]_vars =>
        [\A n \in Incidents : Kept(n) /\ ~Kept(n)' => n \in received]_vars
  BY RoomForOneMore, KeptLeaves
<1> QED
  BY <1>1, KeptInit, KeptStep, PTL DEF Spec, KeptUntilReceived

\* upload_incident: "Ok means delivered or safely queued". An incident once found
\* is on its way, kept or received; only a panic, a database error or the end of
\* the process takes it from memory.
THEOREM NothingLost ==
  ASSUME Room
  PROVE  Spec => NothingDropped
<1>1. ASSUME KeptInv, [Next]_vars, NEW n \in Incidents, Safe(n), ~Safe(n)'
      PROVE  panics' # panics \/ faults' # faults \/ loop' = "down"
  BY <1>1, MemoryLeaves, KeptLeaves, RoomForOneMore, ReceivedGrows DEF Safe
<1>2. KeptInv /\ [Next]_vars =>
        [\A n \in Incidents : Safe(n) /\ ~Safe(n)' =>
           panics' # panics \/ faults' # faults \/ loop' = "down"]_vars
  BY <1>1
<1> QED
  BY <1>2, KeptInit, KeptStep, PTL DEF Spec, NothingDropped
=============================================================================
