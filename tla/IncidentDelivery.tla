-------------------------- MODULE IncidentDelivery --------------------------
(***************************************************************************)
(* How a security incident reaches the platform: the main loop puts it in  *)
(* the outbox (main_loop/outbox.rs), the upload task posts it or keeps it  *)
(* in the sync queue (scanning.rs), and a retry item queued every minute   *)
(* has the task post the kept ones again. A panic ends the upload task;    *)
(* the loop starts it again at its next pass (supervised_tasks.rs). A stop *)
(* gives the outbox ten seconds (shutdown.rs); a kill, or the service      *)
(* watchdog when the loop is stuck, gives it nothing.                      *)
(*                                                                         *)
(* The loop is the only one that pushes, the upload task the only one that *)
(* receives. Each call of the queue and each request is one action.        *)
(***************************************************************************)
EXTENDS SyncQueue, Sequences

CONSTANTS
  Retry,          \* Outbound::QueuedIncidents
  Other,          \* the other items: they are not kept when their upload fails
  Nothing,        \* no item
  OutboxCapacity, \* OUTBOX_CAPACITY: 256 in the code
  Watchdog,       \* the agent runs under systemd
  MaxStops,       \* bound: times the agent is stopped or killed
  MaxFaults,      \* bound: database errors
  MaxPanics       \* bound: panics of the upload task

ASSUME OutboxAssumption ==
  /\ Retry \notin Incidents /\ Other \notin Incidents /\ Nothing \notin Incidents
  /\ Retry # Other /\ Nothing \notin {Retry, Other}
  /\ OutboxCapacity \in Nat \ {0}
  /\ Watchdog \in BOOLEAN
  /\ MaxStops \in Nat /\ MaxFaults \in Nat /\ MaxPanics \in Nat

VARIABLES
  loop,       \* step of the main loop
  hold,       \* item the loop is waiting to put in the channel
  chan,       \* the channel of the outbox
  unsent,     \* items queued or being sent (AtomicUsize)
  sender,     \* step of the upload task
  item,       \* item the upload task is sending
  pending,    \* rows a retry has read and not dealt with
  suspended,  \* direct uploads are suspended
  queue,      \* incident rows of sync_queue
  nextId,     \* AUTOINCREMENT of sync_queue
  shutdown,   \* a stop was requested
  stops,      \* stops and kills so far
  faults,     \* database errors met
  panics,     \* panics of the upload task
  detected,   \* history: incidents found
  received    \* external: incidents the platform has

loopVars == <<loop, hold, shutdown, detected>>
senderVars == <<sender, item, pending, suspended>>
dbVars == <<queue, nextId>>
bounds == <<stops, faults, panics>>
vars == <<loop, hold, chan, unsent, sender, item, pending, suspended, queue,
          nextId, shutdown, stops, faults, panics, detected, received>>

\* The rows of sync_queue this module is about.
IncidentRow == {r \in QueueRow : r.kind = "incident" /\ r.entity \in Incidents}

Items == Incidents \union {Retry, Other}

\* flushing: flush_outbox. down: the process is not running.
LoopSteps == {"pass", "pushing", "idle", "flushing", "stopping", "down"}

\* panicked: not noticed yet by the loop. starting: the pause before a restart.
SenderSteps == {"recv", "incident", "keep", "other", "flush", "posting",
                "delivered", "reschedule", "panicked", "starting", "off"}

Sending == {"incident", "keep", "other", "flush", "posting", "delivered",
            "reschedule"}

Init ==
  /\ loop = "pass"
  /\ hold = Nothing
  /\ chan = <<>>
  /\ unsent = 0
  /\ sender = "recv"
  /\ item = Nothing
  /\ pending = {}
  /\ suspended = FALSE
  /\ queue = {}
  /\ nextId = 1
  /\ shutdown = FALSE
  /\ stops = 0
  /\ faults = 0
  /\ panics = 0
  /\ detected = {}
  /\ received = {}

-----------------------------------------------------------------------------
(* The main loop *)

\* A pass starts by collecting the tasks that ended: the upload task, if it
\* panicked, is started again after a pause.
StartPass ==
  /\ loop = "idle"
  /\ ~shutdown
  /\ sender' = IF sender = "panicked" THEN "starting" ELSE sender
  /\ loop' = "pass"
  /\ UNCHANGED <<hold, chan, unsent, item, pending, suspended, dbVars, shutdown,
                 bounds, detected, received>>

\* Mutant: the item is not counted.
StartPushUncounted(i) ==
  /\ loop = "pass"
  /\ unsent' = unsent
  /\ hold' = i
  /\ loop' = "pushing"

\* Outbox::push counts the item, then waits for room in the channel.
StartPush(i) ==
  /\ loop = "pass"
  /\ unsent' = unsent + 1
  /\ hold' = i
  /\ loop' = "pushing"

Detect(n) ==
  /\ n \notin detected
  /\ StartPush(n)
  /\ detected' = detected \union {n}
  /\ UNCHANGED <<chan, senderVars, dbVars, shutdown, bounds, received>>

PushOther ==
  /\ StartPush(Other)
  /\ UNCHANGED <<chan, senderVars, dbVars, shutdown, bounds, detected, received>>

\* incident_retry_stage, when a minute has passed.
PushRetry ==
  /\ StartPush(Retry)
  /\ UNCHANGED <<chan, senderVars, dbVars, shutdown, bounds, detected, received>>

PushDone ==
  /\ loop = "pushing"
  /\ Len(chan) < OutboxCapacity
  /\ chan' = Append(chan, hold)
  /\ hold' = Nothing
  /\ loop' = "pass"
  /\ UNCHANGED <<unsent, senderVars, dbVars, shutdown, bounds, detected, received>>

EndPass ==
  /\ loop = "pass"
  /\ loop' = "idle"
  /\ UNCHANGED <<hold, chan, unsent, senderVars, dbVars, shutdown, bounds,
                 detected, received>>

RequestShutdown ==
  /\ stops < MaxStops
  /\ stops' = stops + 1
  /\ ~shutdown
  /\ loop \in {"pass", "pushing", "idle"}
  /\ shutdown' = TRUE
  /\ UNCHANGED <<loop, hold, chan, unsent, senderVars, dbVars, faults, panics,
                 detected, received>>

\* The request is noticed between two passes.
StopLoop ==
  /\ loop = "idle"
  /\ shutdown
  /\ loop' = "flushing"
  /\ UNCHANGED <<hold, chan, unsent, senderVars, dbVars, shutdown, bounds,
                 detected, received>>

\* flush_outbox looks at the counter until it is zero...
FlushEmpty ==
  /\ loop = "flushing"
  /\ unsent = 0
  /\ loop' = "stopping"
  /\ UNCHANGED <<hold, chan, unsent, senderVars, dbVars, shutdown, bounds,
                 detected, received>>

\* ... or OUTBOX_FLUSH_TIMEOUT has passed.
FlushTimesOut ==
  /\ loop = "flushing"
  /\ unsent > 0
  /\ loop' = "stopping"
  /\ UNCHANGED <<hold, chan, unsent, senderVars, dbVars, shutdown, bounds,
                 detected, received>>

\* The memory of the process is gone; the database stays.
ProcessEnds ==
  /\ loop' = "down"
  /\ hold' = Nothing
  /\ chan' = <<>>
  /\ unsent' = 0
  /\ sender' = "off"
  /\ item' = Nothing
  /\ pending' = {}
  /\ suspended' = FALSE
  /\ shutdown' = FALSE
  /\ UNCHANGED <<dbVars, faults, panics, detected, received>>

\* TaskSet::shutdown aborts the upload task, and the process ends.
StopTasks ==
  /\ loop = "stopping"
  /\ ProcessEnds
  /\ UNCHANGED stops

Kill ==
  /\ loop # "down"
  /\ stops < MaxStops
  /\ stops' = stops + 1
  /\ ProcessEnds

\* The loop has been silent for STALL_LIMIT, half an hour: no keepalive is sent
\* any more and systemd kills the process. A task that runs takes an item long
\* before: each of its requests has a timeout.
WatchdogRestart ==
  /\ Watchdog
  /\ loop = "pushing"
  /\ Len(chan) >= OutboxCapacity
  /\ sender = "panicked"
  /\ ProcessEnds
  /\ UNCHANGED stops

\* The upload task is started, then a first scan queues incidents.
StartUp ==
  /\ loop = "down"
  /\ loop' = "pass"
  /\ sender' = "recv"
  /\ UNCHANGED <<hold, chan, unsent, item, pending, suspended, dbVars, shutdown,
                 bounds, detected, received>>

-----------------------------------------------------------------------------
(* The upload task *)

Receive ==
  /\ sender = "recv"
  /\ chan # <<>>
  /\ item' = Head(chan)
  /\ chan' = Tail(chan)
  /\ sender' = CASE Head(chan) = Retry -> "flush"
                 [] Head(chan) = Other -> "other"
                 [] OTHER              -> "incident"
  /\ UNCHANGED <<loopVars, unsent, pending, suspended, dbVars, bounds, received>>

\* The item was dealt with: the guard Sent counts it out.
ItemDone ==
  /\ sender' = "recv"
  /\ item' = Nothing
  /\ pending' = {}
  /\ unsent' = unsent - 1

SendOther ==
  /\ sender = "other"
  /\ ItemDone
  /\ UNCHANGED <<loopVars, chan, suspended, dbVars, bounds, received>>

\* Mutant: an incident met while the uploads are suspended is not kept.
SkipPostDrops ==
  /\ sender = "incident"
  /\ suspended
  /\ ItemDone
  /\ UNCHANGED <<loopVars, chan, suspended, dbVars, bounds, received>>

\* upload_incident, while the platform did not answer a moment ago.
SkipPost ==
  /\ sender = "incident"
  /\ suspended
  /\ sender' = "keep"
  /\ UNCHANGED <<loopVars, chan, unsent, item, pending, suspended, dbVars, bounds,
                 received>>

PostIncident ==
  /\ sender = "incident"
  /\ ~suspended
  /\ received' = received \union {item}
  /\ ItemDone
  /\ UNCHANGED <<loopVars, chan, suspended, dbVars, bounds>>

\* An error, or no answer in five seconds: the platform may have the incident.
PostIncidentFails ==
  /\ sender = "incident"
  /\ ~suspended
  /\ received' \in {received, received \union {item}}
  /\ suspended' = TRUE
  /\ sender' = "keep"
  /\ UNCHANGED <<loopVars, chan, unsent, item, pending, dbVars, bounds>>

KeepForRetry ==
  /\ sender = "keep"
  /\ queue' = Enqueue(queue, NewRow(nextId, "incident", item, 0))
  /\ nextId' = nextId + 1
  /\ ItemDone
  /\ UNCHANGED <<loopVars, chan, suspended, bounds, received>>

\* A database error, when an incident is kept or the kept ones are read.
StorageFails ==
  /\ sender \in {"keep", "flush", "reschedule"}
  /\ faults < MaxFaults
  /\ faults' = faults + 1
  /\ ItemDone
  /\ UNCHANGED <<loopVars, chan, suspended, dbVars, stops, panics, received>>

\* flush_queued_incidents.
ReadKept ==
  /\ sender = "flush"
  /\ pending' = GetPendingFor(queue, "incident")
  /\ sender' = "posting"
  /\ UNCHANGED <<loopVars, chan, unsent, item, suspended, dbVars, bounds, received>>

IsNext(r) == r \in pending /\ \A s \in pending : r.id <= s.id

PostKept(r) ==
  /\ sender = "posting"
  /\ IsNext(r)
  /\ received' = received \union {r.entity}
  /\ sender' = "delivered"
  /\ UNCHANGED <<loopVars, chan, unsent, item, pending, suspended, dbVars, bounds>>

\* The row leaves the queue; when that fails it stays, and the next one is sent.
RemoveKept(r) ==
  /\ sender = "delivered"
  /\ IsNext(r)
  /\ \/ queue' = Remove(queue, {r.id}) /\ UNCHANGED faults
     \/ faults < MaxFaults /\ faults' = faults + 1 /\ UNCHANGED queue
  /\ pending' = pending \ {r}
  /\ sender' = "posting"
  /\ UNCHANGED <<loopVars, chan, unsent, item, suspended, nextId, stops, panics, received>>

\* The first failure ends the attempt.
PostKeptFails(r) ==
  /\ sender = "posting"
  /\ IsNext(r)
  /\ received' \in {received, received \union {r.entity}}
  /\ suspended' = TRUE
  /\ sender' = "reschedule"
  /\ UNCHANGED <<loopVars, chan, unsent, item, pending, dbVars, bounds>>

\* Mutant: the row whose upload failed is removed.
RescheduleRemoves(r) ==
  /\ sender = "reschedule"
  /\ IsNext(r)
  /\ queue' = Remove(queue, {r.id})
  /\ ItemDone
  /\ UNCHANGED <<loopVars, chan, suspended, nextId, bounds, received>>

Reschedule(r) ==
  /\ sender = "reschedule"
  /\ IsNext(r)
  /\ queue' = RecordFailure(queue, {r.id})
  /\ ItemDone
  /\ UNCHANGED <<loopVars, chan, suspended, nextId, bounds, received>>

AllPosted ==
  /\ sender = "posting"
  /\ pending = {}
  /\ ItemDone
  /\ UNCHANGED <<loopVars, chan, suspended, dbVars, bounds, received>>

\* Mutant: a panic leaves the item counted.
PanicKeepsCount ==
  /\ sender \in Sending
  /\ panics < MaxPanics
  /\ panics' = panics + 1
  /\ sender' = "panicked"
  /\ item' = Nothing
  /\ pending' = {}
  /\ UNCHANGED <<loopVars, chan, unsent, suspended, dbVars, stops, faults, received>>

\* Sending an item panics: the item is dropped and counted out, the channel is
\* kept for the task that will replace this one.
Panic ==
  /\ sender \in Sending
  /\ panics < MaxPanics
  /\ panics' = panics + 1
  /\ sender' = "panicked"
  /\ item' = Nothing
  /\ pending' = {}
  /\ unsent' = unsent - 1
  /\ UNCHANGED <<loopVars, chan, suspended, dbVars, stops, faults, received>>

\* Mutant: the pause starts over while items wait in the channel.
RestartOnceEmpty ==
  /\ sender = "starting"
  /\ sender' = IF chan = <<>> THEN "recv" ELSE "starting"
  /\ UNCHANGED <<loopVars, chan, unsent, item, pending, suspended, dbVars, bounds,
                 received>>

\* The pause before a restart is over.
Restart ==
  /\ sender = "starting"
  /\ sender' = "recv"
  /\ UNCHANGED <<loopVars, chan, unsent, item, pending, suspended, dbVars, bounds,
                 received>>

-----------------------------------------------------------------------------
(* Time *)

\* INCIDENT_UPLOAD_PAUSE_SECS have passed.
PauseEnds ==
  /\ suspended
  /\ suspended' = FALSE
  /\ UNCHANGED <<loopVars, chan, unsent, sender, item, pending, dbVars, bounds,
                 received>>

BackoffElapses(r) ==
  /\ r.retry = "waiting"
  /\ ~Exhausted(r)
  /\ queue' = (queue \ {r}) \union {[r EXCEPT !.retry = "due"]}
  /\ UNCHANGED <<loopVars, chan, unsent, senderVars, nextId, bounds, received>>

-----------------------------------------------------------------------------
LoopStep ==
  \/ StartPass \/ (\E n \in Incidents : Detect(n)) \/ PushOther \/ PushRetry
  \/ PushDone \/ EndPass \/ RequestShutdown \/ StopLoop \/ FlushEmpty
  \/ FlushTimesOut \/ StopTasks
  \/ Kill \/ WatchdogRestart \/ StartUp

SenderStep ==
  \/ Receive \/ SendOther \/ SkipPost \/ PostIncident \/ PostIncidentFails
  \/ KeepForRetry \/ StorageFails \/ ReadKept \/ AllPosted \/ Panic \/ Restart
  \/ \E r \in pending : \/ PostKept(r) \/ RemoveKept(r) \/ PostKeptFails(r)
                        \/ Reschedule(r)

TimeStep == PauseEnds \/ \E r \in queue : BackoffElapses(r)

Next == LoopStep \/ SenderStep \/ TimeStep

Spec == Init /\ [][Next]_vars

AcceptsKept(n) == \E r \in pending : r.entity = n /\ PostKept(r)

\* The loop goes on from one pass to the next: a pass has finitely many pushes
\* (SF of its end) and the retry timer keeps firing (SF). The upload task runs
\* when it can, the clock reaches the retry dates, a stuck process is restarted
\* where there is a watchdog, and the platform, asked again and again for one
\* incident, takes it at some point (SF).
Fairness ==
  /\ WF_vars(StartPass) /\ SF_vars(EndPass) /\ WF_vars(PushDone)
  /\ SF_vars(PushRetry)
  /\ WF_vars(StopLoop) /\ WF_vars(FlushEmpty \/ FlushTimesOut) /\ WF_vars(StopTasks)
  /\ WF_vars(WatchdogRestart) /\ WF_vars(StartUp)
  /\ WF_vars(SenderStep)
  /\ \A n \in Incidents :
       /\ WF_vars(\E r \in queue : r.entity = n /\ BackoffElapses(r))
       /\ SF_vars(AcceptsKept(n))

FairSpec == Spec /\ Fairness

-----------------------------------------------------------------------------
(* Properties *)

\* Type invariant: the steps of the loop and of the upload task, the outbox, the
\* rows kept and what the platform has.
TypeOK ==
  /\ loop \in LoopSteps
  /\ hold \in Items \union {Nothing}
  /\ chan \in Seq(Items)
  /\ unsent \in Nat
  /\ sender \in SenderSteps
  /\ item \in Items \union {Nothing}
  /\ pending \subseteq IncidentRow
  /\ suspended \in BOOLEAN
  /\ queue \subseteq IncidentRow
  /\ nextId \in Nat
  /\ shutdown \in BOOLEAN
  /\ stops \in Nat
  /\ faults \in Nat
  /\ panics \in Nat
  /\ detected \subseteq Incidents
  /\ received \subseteq Incidents

Kept(n) == \E r \in queue : r.entity = n

InMemory(n) ==
  \/ hold = n
  \/ item = n
  \/ \E k \in 1 .. Len(chan) : chan[k] = n

Safe(n) == InMemory(n) \/ Kept(n) \/ n \in received

\* "`Ok` means delivered or safely queued" (scanning.rs, upload_incident): an
\* incident that is on its way, in the queue or received stays so, whatever the
\* platform answers, its timeouts and the suspension of the uploads. Only a
\* panic, a database error or the end of the process takes it from memory.
NothingDropped ==
  [][\A n \in Incidents : Safe(n) /\ ~Safe(n)' =>
       panics' # panics \/ faults' # faults \/ loop' = "down"]_vars

\* An incident kept in a queue below its limit leaves it only once the platform
\* has it: not because of a panic, a database error, a failure, a stop or a kill
\* (flush_queued_incidents removes a row after its upload).
KeptUntilReceived ==
  [][\A n \in Incidents : Kept(n) /\ ~Kept(n)' => n \in received]_vars

\* The counter a stop waits on is exact through panics and restarts of the
\* upload task: it counts the items of the channel, the one being sent and the
\* one the loop waits to put in ("Counts an item as sent when dropped, even if
\* sending it panicked", outbox.rs).
UnsentExact ==
  unsent = Len(chan) + (IF sender \in Sending THEN 1 ELSE 0)
                     + (IF loop = "pushing" THEN 1 ELSE 0)

\* "it is started again if it panics, and goes on with the next item"
\* (outbox.rs, start_outbox).
SenderComesBack == sender = "panicked" ~> sender = "recv"

\* An incident kept in the queue is in the end received or has used its attempts,
\* through panics, database errors, stops and kills (flush_queued_incidents).
KeptSettles ==
  \A n \in Incidents :
    Kept(n) ~> n \in received \/ \E r \in queue : r.entity = n /\ Exhausted(r)

-----------------------------------------------------------------------------
(* Parts of the inductive invariant of IncidentDeliveryProofs *)

\* Who holds an item holds one of the right kind, and nothing is sent while the
\* agent is down.
HandsFull ==
  /\ loop = "down" => sender = "off"
  /\ loop = "pushing" => hold \in Items
  /\ sender \in {"incident", "keep"} => item \in Incidents

OutboxInv == TypeOK /\ HandsFull /\ UnsentExact

\* What each hand holds at each step.
ItemInv ==
  /\ loop # "pushing" => hold = Nothing
  /\ sender \notin Sending => item = Nothing
  /\ sender = "other" => item = Other
  /\ sender \in {"flush", "posting", "delivered", "reschedule"} => item = Retry

\* The ids of the rows are those of the insertions, and the rows a retry has read
\* are still those of the queue; what is about to be removed was received.
RowInv ==
  /\ \A r \in queue : r.id < nextId
  /\ \A r, s \in queue : r.id = s.id => r = s
  /\ \A r, s \in pending : r.id = s.id => r = s
  /\ \A r \in pending, s \in queue : r.id = s.id => r.entity = s.entity
  /\ sender = "delivered" => \A r \in pending : IsNext(r) => r.entity \in received

\* An incident is in one place at most: held by the loop, in the channel, held by
\* the upload task or kept in one row of the queue.
OnceInv ==
  /\ \A k, m \in 1 .. Len(chan) : chan[k] = chan[m] /\ chan[k] \in Incidents => k = m
  /\ \A k \in 1 .. Len(chan) : chan[k] \in Incidents => chan[k] # hold /\ chan[k] # item
  /\ hold \in Incidents => hold # item
  /\ \A r, s \in queue : r.entity = s.entity => r = s
  /\ \A n \in Incidents : /\ InMemory(n) => ~Kept(n)
                          /\ InMemory(n) \/ Kept(n) => n \in detected

KeptInv == OutboxInv /\ ItemInv /\ RowInv /\ OnceInv
=============================================================================
