--------------------------- MODULE CommandResults ---------------------------
(***************************************************************************)
(* The results of the platform's commands: a heartbeat answer carries      *)
(* commands (agent-core/src/heartbeat.rs), each is executed, its result is *)
(* stored in the table command_result_outbox, sent and removed once        *)
(* acknowledged (agent-sync/src/command_results.rs). Every heartbeat first *)
(* sends the results that wait.                                            *)
(*                                                                         *)
(* The heartbeat job is the only user of the table. The platform is        *)
(* external: it may hand a command out again as long as it has no result   *)
(* of it, and a request that fails may have been carried out.              *)
(*                                                                         *)
(* An outcome is the number of the execution it comes from: a result       *)
(* carries its date (completed_at), so two executions of one command never *)
(* give the same payload.                                                  *)
(***************************************************************************)
EXTENDS Naturals, FiniteSets

CONSTANTS
  Commands,       \* identifiers of the commands
  Refused,        \* commands whose result the platform never acknowledges
  FlushBatch,     \* results sent per heartbeat: 50 in the code
  MaxExecutions,  \* bound: commands executed
  MaxFaults,      \* bound: database errors
  MaxCrashes      \* bound: restarts of the agent

ASSUME CommandAssumption ==
  /\ IsFiniteSet(Commands) /\ Refused \subseteq Commands
  /\ FlushBatch \in Nat \ {0}
  /\ MaxExecutions \in Nat /\ MaxFaults \in Nat /\ MaxCrashes \in Nat

VARIABLES
  outbox,      \* rows of command_result_outbox
  pc,          \* step of the heartbeat job
  flushing,    \* the job sends waiting results, not that of a new command
  todo,        \* rows the flush has read and not dealt with
  current,     \* row being sent, or about to be stored: at most one
  commands,    \* commands of the answer not dealt with
  tried,       \* a result was sent since the heartbeat
  executions,  \* commands executed so far
  faults,      \* database errors met
  crashes,     \* restarts so far
  received     \* external: outcomes the platform has, by command

bounds == <<executions, faults, crashes>>
vars == <<outbox, pc, flushing, todo, current, commands, tried, executions,
          faults, crashes, received>>

\* at: rank of the last attempt (last_attempt_at, a second), 0 when there was
\* none. The ranks of the rows are kept consecutive: only their order is read.
Row == [command : Commands, outcome : Nat, at : Nat]

Steps == {"idle", "read", "flush", "mark", "send", "acknowledge", "commands",
          "store"}

Init ==
  /\ outbox = {}
  /\ pc = "idle"
  /\ flushing = FALSE
  /\ todo = {}
  /\ current = {}
  /\ commands = {}
  /\ tried = FALSE
  /\ executions = 0
  /\ faults = 0
  /\ crashes = 0
  /\ received = [c \in Commands |-> {}]

-----------------------------------------------------------------------------
(* CommandResultRepository *)

\* ORDER BY last_attempt_at, created_at, command_id: the order of the rows
\* attempted in one second is left open.
AttemptedFirst(q, r) == \A s \in q : r.at <= s.at

\* pending(FlushBatch): the batches it may return.
Pending(q) ==
  LET Count == IF Cardinality(q) < FlushBatch THEN Cardinality(q) ELSE FlushBatch
  IN  {b \in SUBSET q : /\ Cardinality(b) = Count
                        /\ \A r \in b : AttemptedFirst(q \ b, r)}

Ranked(q) ==
  LET Upto(r) == {s.at : s \in {t \in q : 0 < t.at /\ t.at <= r.at}}
  IN  {[r EXCEPT !.at = Cardinality(Upto(r))] : r \in q}

LastRank(q) == Cardinality({r.at : r \in {s \in q : s.at > 0}})

\* Mutant: the attempt is not recorded.
MarkNoAttempt(q, c, rank) == q

\* mark_attempt at the second of rank rank.
MarkAttempt(q, c, rank) ==
  Ranked({IF r.command = c THEN [r EXCEPT !.at = rank] ELSE r : r \in q})

\* Mutant: a second outcome replaces the first.
StoreReplaces(q, row) == {r \in q : r.command # row.command} \union {row}

\* Mutant: no uniqueness of (agent_id, command_id).
StoreTwice(q, row) == q \union {row}

\* INSERT OR IGNORE on (agent_id, command_id).
Store(q, row) ==
  IF \E r \in q : r.command = row.command THEN q ELSE q \union {row}

\* Mutant: the outcome is not looked at.
AcknowledgeAny(q, row) == {}

\* DELETE .. WHERE command_id = .. AND payload = ..
Acknowledge(q, row) ==
  {r \in q : ~(r.command = row.command /\ r.outcome = row.outcome)}

-----------------------------------------------------------------------------
(* The heartbeat job *)

\* The answer to a heartbeat carries commands the platform has no result of.
Heartbeat ==
  /\ pc = "idle"
  /\ commands' \in SUBSET {c \in Commands : received[c] = {}}
  /\ pc' = "read"
  /\ flushing' = TRUE
  /\ tried' = FALSE
  /\ UNCHANGED <<outbox, todo, current, bounds, received>>

ReadPending ==
  /\ pc = "read"
  /\ todo' \in Pending(outbox)
  /\ pc' = "flush"
  /\ UNCHANGED <<outbox, flushing, current, commands, tried, bounds, received>>

FlushNext(r) ==
  /\ pc = "flush"
  /\ r \in todo
  /\ AttemptedFirst(todo, r)
  /\ current' = {r}
  /\ todo' = todo \ {r}
  /\ pc' = "mark"
  /\ UNCHANGED <<outbox, flushing, commands, tried, bounds, received>>

\* Where the job goes on: flushing is over when nothing is left to send or when
\* an error says that the platform cannot be reached.
Leave(flush) ==
  /\ current' = {}
  /\ flushing' = flush
  /\ todo' = IF flush THEN todo ELSE {}
  /\ pc' = IF flush THEN "flush" ELSE "commands"

FlushDone ==
  /\ pc = "flush"
  /\ todo = {}
  /\ Leave(FALSE)
  /\ UNCHANGED <<outbox, commands, tried, bounds, received>>

\* send_stored marks the attempt before it is made: in the same second as the
\* attempt before it, if there was one since the heartbeat, or later.
Mark(r) ==
  /\ pc = "mark"
  /\ r \in current
  /\ \E rank \in {LastRank(outbox) + 1} \union
                    (IF tried THEN {LastRank(outbox)} \ {0} ELSE {}) :
       outbox' = MarkAttempt(outbox, r.command, rank)
  /\ tried' = TRUE
  /\ pc' = "send"
  /\ UNCHANGED <<flushing, todo, current, commands, bounds, received>>

SendAccepted(r) ==
  /\ pc = "send"
  /\ r \in current
  /\ r.command \notin Refused
  /\ received' = [received EXCEPT ![r.command] = @ \union {r.outcome}]
  /\ pc' = "acknowledge"
  /\ UNCHANGED <<outbox, flushing, todo, current, commands, tried, bounds>>

\* A request whose answer is not read may have been carried out.
MaybeReceived(r) ==
  received' \in {received, [received EXCEPT ![r.command] = @ \union {r.outcome}]}

\* A timeout, no connection, an error of the server: the flush stops.
SendUnreachable(r) ==
  /\ pc = "send"
  /\ r \in current
  /\ MaybeReceived(r)
  /\ Leave(FALSE)
  /\ UNCHANGED <<outbox, commands, tried, bounds>>

\* A refusal, an answer that cannot be read or does not acknowledge: the flush
\* goes on.
SendRefused(r) ==
  /\ pc = "send"
  /\ r \in current
  /\ MaybeReceived(r)
  /\ Leave(flushing)
  /\ UNCHANGED <<outbox, commands, tried, bounds>>

AcknowledgeRow(r) ==
  /\ pc = "acknowledge"
  /\ r \in current
  /\ outbox' = Acknowledge(outbox, r)
  /\ Leave(flushing)
  /\ UNCHANGED <<commands, tried, bounds, received>>

\* An oversized command is dropped without a result.
DropCommand(c) ==
  /\ pc = "commands"
  /\ c \in commands
  /\ commands' = commands \ {c}
  /\ UNCHANGED <<outbox, pc, flushing, todo, current, tried, bounds, received>>

\* The command is executed, or refused: a result either way. Whether a result of
\* it already waits is not looked at.
Execute(c) ==
  /\ pc = "commands"
  /\ c \in commands
  /\ executions < MaxExecutions
  /\ executions' = executions + 1
  /\ current' = {[command |-> c, outcome |-> executions + 1, at |-> 0]}
  /\ commands' = commands \ {c}
  /\ pc' = "store"
  /\ UNCHANGED <<outbox, flushing, todo, tried, faults, crashes, received>>

\* A different outcome that already waits is a conflict: this one is given up.
StoreResult(r) ==
  /\ pc = "store"
  /\ r \in current
  /\ outbox' = Store(outbox, r)
  /\ IF r \in outbox'
     THEN pc' = "mark" /\ UNCHANGED <<flushing, todo, current>>
     ELSE Leave(FALSE)
  /\ UNCHANGED <<commands, tried, bounds, received>>

CommandsDone ==
  /\ pc = "commands"
  /\ commands = {} \/ executions = MaxExecutions
  /\ commands' = {}
  /\ pc' = "idle"
  /\ UNCHANGED <<outbox, flushing, todo, current, tried, bounds, received>>

\* A database error: the flush goes on with the next row (it is not an error to
\* retry), a new result that could not be stored is lost.
StorageFails ==
  /\ faults < MaxFaults
  /\ faults' = faults + 1
  /\ \/ pc = "read" /\ Leave(FALSE)
     \/ pc \in {"mark", "store", "acknowledge"} /\ Leave(flushing)
  /\ UNCHANGED <<outbox, commands, tried, executions, crashes, received>>

Crash ==
  /\ crashes < MaxCrashes
  /\ crashes' = crashes + 1
  /\ pc' = "idle"
  /\ flushing' = FALSE
  /\ todo' = {}
  /\ current' = {}
  /\ commands' = {}
  /\ tried' = FALSE
  /\ UNCHANGED <<outbox, executions, faults, received>>

-----------------------------------------------------------------------------
JobStep ==
  \/ Heartbeat \/ ReadPending \/ FlushDone \/ CommandsDone
  \/ \E r \in todo : FlushNext(r)
  \/ \E r \in current : \/ Mark(r) \/ SendAccepted(r) \/ SendUnreachable(r)
                        \/ SendRefused(r) \/ AcknowledgeRow(r) \/ StoreResult(r)
  \/ \E c \in commands : DropCommand(c) \/ Execute(c)
  \/ StorageFails

Next == JobStep \/ Crash

Spec == Init /\ [][Next]_vars

Accepts(c) == \E r \in current : r.command = c /\ SendAccepted(r)

\* Heartbeats keep coming and a heartbeat job runs to its end (WF). The platform,
\* sent one result again and again, accepts it at some point (SF).
Fairness ==
  /\ WF_vars(JobStep)
  /\ \A c \in Commands \ Refused : SF_vars(Accepts(c))

FairSpec == Spec /\ Fairness

-----------------------------------------------------------------------------
(* Properties *)

\* Type invariant: the results stored and being sent, and the history of what
\* was executed and received.
TypeOK ==
  /\ outbox \subseteq Row
  /\ \A r, s \in outbox : r.command = s.command => r = s
  /\ pc \in Steps
  /\ flushing \in BOOLEAN
  /\ todo \subseteq Row
  /\ current \subseteq Row
  /\ commands \subseteq Commands
  /\ tried \in BOOLEAN
  /\ executions \in Nat /\ faults \in Nat /\ crashes \in Nat
  /\ received \in [Commands -> SUBSET Nat]

Waiting(c) == \E r \in outbox : r.command = c

\* "Keep the first outcome immutable. A different outcome for the same command is
\* an error, not permission to overwrite an outcome awaiting delivery"
\* (command_results.rs, store): while a result waits it is the only one the
\* platform can get for the command, and it leaves only once received, whatever
\* is handed out again, fails or restarts.
FirstOutcomeDelivered ==
  [][\A r \in outbox :
       /\ received'[r.command] \subseteq received[r.command] \union {r.outcome}
       /\ \/ \E s \in outbox' : s.command = r.command /\ s.outcome = r.outcome
          \/ r.outcome \in received[r.command]]_vars

\* "Rotate attempted entries so a permanently rejected result cannot starve newer
\* results" (command_results.rs, mark_attempt): a stored result is in the end
\* received by a platform that accepts it, whatever happens to the others.
ResultsDelivered ==
  \A c \in Commands \ Refused : Waiting(c) ~> ~Waiting(c)

-----------------------------------------------------------------------------
(* The inductive invariant *)

\* Rows s and r, of one command, stand for one outcome.
Agree(r, s) == r.command = s.command => r.outcome = s.outcome

\* One result is sent at a time. What the job read from the table still stands
\* for the rows of the table, and what it is about to remove was received; rows are
\* read in the flush only, so a new result meets none of them.
JobInv ==
  /\ \A r, s \in current : r = s
  /\ ~flushing => todo = {}
  /\ pc \in {"read", "flush"} => flushing
  /\ pc \in {"idle", "commands", "store"} => ~flushing
  /\ \A r \in todo, s \in outbox : Agree(r, s)
  /\ pc \in {"mark", "send", "acknowledge"} =>
       \A r \in current, s \in outbox : Agree(r, s)
  /\ pc = "acknowledge" => \A r \in current : r.outcome \in received[r.command]

ResultsInv == TypeOK /\ IsFiniteSet(outbox) /\ JobInv
=============================================================================
