------------------------ MODULE CommandResultsProofs ------------------------
(***************************************************************************)
(* Theorems about CommandResults, for any set of commands, any size of the *)
(* batch, and any number of executions, database errors and restarts.      *)
(***************************************************************************)
EXTENDS CommandResults, FiniteSetTheorems, TLAPS

USE CommandAssumption

-----------------------------------------------------------------------------
(* The operations of the table *)

\* The rows of the table are rows, one of each command, and finitely many.
Table(q) ==
  /\ q \subseteq Row /\ IsFiniteSet(q)
  /\ \A r, s \in q : r.command = s.command => r = s

\* Table q has no other outcomes than table p.
OutcomesOf(q, p) ==
  \A s \in q : \E r \in p : r.command = s.command /\ r.outcome = s.outcome

\* What a function makes of the rows of a finite table is finite.
LEMMA FiniteImage ==
  ASSUME NEW q, IsFiniteSet(q), NEW f
  PROVE  IsFiniteSet({f[r] : r \in q})
<1> DEFINE p == {f[r] : r \in q}
           g == [r \in q |-> f[r]]
<1>1. g \in Surjection(q, p)
  BY DEF Surjection
<1> QED
  BY <1>1, FS_Surjection

\* The dates of some rows are finitely many.
LEMMA FiniteDates ==
  ASSUME NEW q, IsFiniteSet(q)
  PROVE  IsFiniteSet({r.at : r \in q})
<1> DEFINE at == [r \in q |-> r.at]
<1>1. {r.at : r \in q} = {at[r] : r \in q}
  OBVIOUS
<1> HIDE DEF at
<1>2. IsFiniteSet({at[r] : r \in q})
  BY FiniteImage
<1> QED
  BY <1>1, <1>2

LEMMA RankIsNat ==
  ASSUME NEW q, IsFiniteSet(q)
  PROVE  LastRank(q) \in Nat
<1> DEFINE p == {r \in q : r.at > 0}
<1>1. IsFiniteSet(p)
  BY FS_Subset
<1>2. IsFiniteSet({r.at : r \in p})
  BY <1>1, FiniteDates
<1> QED
  BY <1>2, FS_CardinalityType DEF LastRank

\* Ranking the dates of a table changes nothing else of it.
LEMMA RankedTable ==
  ASSUME NEW q, Table(q)
  PROVE  Table(Ranked(q)) /\ OutcomesOf(Ranked(q), q) /\ OutcomesOf(q, Ranked(q))
<1> DEFINE Upto(r) == {s.at : s \in {t \in q : 0 < t.at /\ t.at <= r.at}}
           Rank(r) == [r EXCEPT !.at = Cardinality(Upto(r))]
<1>1. ASSUME NEW r \in q
      PROVE  Cardinality(Upto(r)) \in Nat
  <2>1. IsFiniteSet({t \in q : 0 < t.at /\ t.at <= r.at})
    BY FS_Subset DEF Table
  <2>2. IsFiniteSet(Upto(r))
    BY <2>1, FiniteDates
  <2> QED
    BY <2>2, FS_CardinalityType
<1>2. ASSUME NEW r \in q
      PROVE  Rank(r) \in Row /\ Rank(r).command = r.command /\ Rank(r).outcome = r.outcome
  <2>1. r \in Row
    BY DEF Table
  <2> QED
    BY <1>1, <2>1 DEF Row
<1>3. Ranked(q) = {Rank(r) : r \in q}
  BY DEF Ranked
<1> HIDE DEF Rank
<1>4. IsFiniteSet({Rank(r) : r \in q})
  <2> DEFINE rank == [r \in q |-> Rank(r)]
  <2>1. {Rank(r) : r \in q} = {rank[r] : r \in q}
    OBVIOUS
  <2> HIDE DEF rank
  <2>2. IsFiniteSet({rank[r] : r \in q})
    BY FiniteImage DEF Table
  <2> QED
    BY <2>1, <2>2
<1> QED
  BY <1>2, <1>3, <1>4 DEF Table, OutcomesOf

\* mark_attempt changes a date and nothing else.
LEMMA MarkedTable ==
  ASSUME NEW q, Table(q), NEW c, NEW rank \in Nat
  PROVE  LET m == MarkAttempt(q, c, rank)
         IN  Table(m) /\ OutcomesOf(m, q) /\ OutcomesOf(q, m)
<1> DEFINE Dated(r) == IF r.command = c THEN [r EXCEPT !.at = rank] ELSE r
           p == {Dated(r) : r \in q}
<1>1. ASSUME NEW r \in q
      PROVE  Dated(r) \in Row /\ Dated(r).command = r.command /\ Dated(r).outcome = r.outcome
  <2>1. r \in Row
    BY DEF Table
  <2> QED
    BY <2>1 DEF Row
<1> HIDE DEF Dated
<1>2. IsFiniteSet(p)
  <2> DEFINE dated == [r \in q |-> Dated(r)]
  <2>1. p = {dated[r] : r \in q}
    OBVIOUS
  <2> HIDE DEF dated
  <2>2. IsFiniteSet({dated[r] : r \in q})
    BY FiniteImage DEF Table
  <2> QED
    BY <2>1, <2>2
<1>3. Table(p) /\ OutcomesOf(p, q) /\ OutcomesOf(q, p)
  BY <1>1, <1>2 DEF Table, OutcomesOf
<1> HIDE DEF p
<1>4. /\ Table(Ranked(p)) /\ OutcomesOf(Ranked(p), p) /\ OutcomesOf(p, Ranked(p))
  BY <1>3, RankedTable
<1>5. MarkAttempt(q, c, rank) = Ranked(p)
  BY DEF MarkAttempt, p, Dated
<1> QED
  BY <1>3, <1>4, <1>5 DEF OutcomesOf

\* store adds a row at most, and never a second one of a command.
LEMMA StoredTable ==
  ASSUME NEW q, Table(q), NEW row \in Row
  PROVE  /\ Table(Store(q, row)) /\ q \subseteq Store(q, row)
         /\ Store(q, row) \subseteq q \union {row}
         /\ row \in Store(q, row) => \A r \in Store(q, row) : Agree(row, r)
<1>1. IsFiniteSet(q \union {row})
  BY FS_AddElement DEF Table
<1> QED
  BY <1>1 DEF Store, Table, Agree

\* acknowledge removes no outcome but the one acknowledged.
LEMMA AcknowledgedTable ==
  ASSUME NEW q, Table(q), NEW row
  PROVE  /\ Table(Acknowledge(q, row)) /\ Acknowledge(q, row) \subseteq q
         /\ \A r \in q \ Acknowledge(q, row) :
              r.command = row.command /\ r.outcome = row.outcome
<1>1. Acknowledge(q, row) \subseteq q
  BY DEF Acknowledge
<1>2. IsFiniteSet(Acknowledge(q, row))
  BY <1>1, FS_Subset DEF Table
<1> QED
  BY <1>1, <1>2 DEF Table, Acknowledge

-----------------------------------------------------------------------------
(* The invariant *)

LEMMA ResultsInit == Init => ResultsInv
<1> SUFFICES ASSUME Init PROVE ResultsInv
  OBVIOUS
<1>1. flushing \in BOOLEAN /\ tried \in BOOLEAN
  BY DEF Init
<1>2. IsFiniteSet(outbox)
  BY FS_EmptySet DEF Init
<1> QED
  BY <1>1, <1>2 DEF Init, ResultsInv, TypeOK, JobInv, Steps

\* Leaving a row: the flush goes on with the rows it has read, or is over.
LEMMA LeaveStep ==
  ASSUME ResultsInv, NEW flush \in {FALSE, flushing}, Leave(flush), outbox' \subseteq outbox,
         IsFiniteSet(outbox'), UNCHANGED <<commands, tried>>,
         executions' \in Nat, faults' \in Nat, crashes' \in Nat,
         received' \in [Commands -> SUBSET Nat]
  PROVE  ResultsInv'
<1>1. flushing' \in BOOLEAN /\ flushing' = flush
  BY DEF Leave, ResultsInv, TypeOK
<1>2. todo' \subseteq todo /\ current' = {} /\ (~flushing' => todo' = {})
  BY <1>1 DEF Leave
<1>3. pc' \in {"flush", "commands"} /\ (pc' = "flush" => flushing')
                                   /\ (pc' = "commands" => ~flushing')
  BY <1>1 DEF Leave
<1>4. TypeOK'
  BY <1>1, <1>2, <1>3 DEF ResultsInv, TypeOK, Steps
<1>5. JobInv'
  BY <1>2, <1>3 DEF ResultsInv, JobInv
<1> QED
  BY <1>4, <1>5 DEF ResultsInv

LEMMA ResultsStep == ResultsInv /\ [Next]_vars => ResultsInv'
<1> SUFFICES ASSUME ResultsInv, [Next]_vars PROVE ResultsInv'
  OBVIOUS
<1> USE DEF ResultsInv, bounds
<1>0. Table(outbox)
  BY DEF Table, TypeOK
<1>1. CASE Heartbeat
  <2>1. flushing' \in BOOLEAN /\ tried' \in BOOLEAN
    BY <1>1 DEF Heartbeat
  <2> QED
    BY <1>1, <2>1 DEF Heartbeat, TypeOK, JobInv, Steps
<1>2. CASE ReadPending
  <2>1. todo' \subseteq outbox
    BY <1>2 DEF ReadPending, Pending
  <2>2. \A r \in todo', s \in outbox' : Agree(r, s)
    BY <1>2, <2>1 DEF ReadPending, TypeOK, Agree
  <2> QED
    BY <1>2, <2>1, <2>2 DEF ReadPending, TypeOK, JobInv, Steps
<1>3. ASSUME NEW r \in todo, FlushNext(r) PROVE ResultsInv'
  BY <1>3 DEF FlushNext, TypeOK, JobInv, Steps
<1>4. CASE FlushDone
  BY <1>4, LeaveStep DEF FlushDone, TypeOK
<1>5. ASSUME NEW r \in current, Mark(r) PROVE ResultsInv'
  <2>1. LastRank(outbox) \in Nat
    BY RankIsNat
  <2>2. PICK rank \in Nat : outbox' = MarkAttempt(outbox, r.command, rank)
    BY <1>5, <2>1 DEF Mark
  <2>3. Table(outbox') /\ OutcomesOf(outbox', outbox)
    BY <1>0, <2>2, MarkedTable
  <2>4. \A t \in todo, s \in outbox' : Agree(t, s)
    BY <2>3 DEF OutcomesOf, JobInv, Agree
  <2>5. \A t \in current, s \in outbox' : Agree(t, s)
    BY <1>5, <2>3 DEF Mark, OutcomesOf, JobInv, Agree
  <2>6. tried' \in BOOLEAN
    BY <1>5 DEF Mark
  <2>7. TypeOK' /\ IsFiniteSet(outbox')
    BY <1>5, <2>3, <2>6 DEF Mark, TypeOK, Table, Steps
  <2>8. JobInv'
    BY <1>5, <2>4, <2>5 DEF Mark, JobInv
  <2> QED
    BY <2>7, <2>8
<1>6. ASSUME NEW r \in current, SendAccepted(r) PROVE ResultsInv'
  <2>1. r \in Row
    BY DEF TypeOK
  <2>2. received' \in [Commands -> SUBSET Nat] /\ r.outcome \in received'[r.command]
    BY <1>6, <2>1 DEF SendAccepted, TypeOK, Row
  <2>3. \A s \in current : s = r
    BY DEF JobInv
  <2> QED
    BY <1>6, <2>2, <2>3 DEF SendAccepted, TypeOK, JobInv, Steps
<1>7. ASSUME NEW r \in current, SendUnreachable(r) \/ SendRefused(r) PROVE ResultsInv'
  <2>1. r \in Row
    BY DEF TypeOK
  <2>2. r.command \in Commands /\ r.outcome \in Nat
    BY <2>1 DEF Row
  <2>3. MaybeReceived(r)
    BY <1>7 DEF SendUnreachable, SendRefused
  <2>4. received \in [Commands -> SUBSET Nat]
    BY DEF TypeOK
  <2>5. [received EXCEPT ![r.command] = @ \union {r.outcome}] \in [Commands -> SUBSET Nat]
    BY <2>2, <2>4
  <2>6. received' \in [Commands -> SUBSET Nat]
    BY <2>3, <2>4, <2>5 DEF MaybeReceived
  <2> QED
    BY <1>7, <2>6, LeaveStep DEF SendUnreachable, SendRefused, TypeOK
<1>8. ASSUME NEW r \in current, AcknowledgeRow(r) PROVE ResultsInv'
  <2>1. Table(outbox') /\ outbox' \subseteq outbox
    BY <1>0, <1>8, AcknowledgedTable DEF AcknowledgeRow
  <2> QED
    BY <1>8, <2>1, LeaveStep DEF AcknowledgeRow, TypeOK, Table
<1>9. ASSUME NEW c \in commands, DropCommand(c) PROVE ResultsInv'
  BY <1>9 DEF DropCommand, TypeOK, JobInv
<1>10. ASSUME NEW c \in commands, Execute(c) PROVE ResultsInv'
  <2>1. current' = {[command |-> c, outcome |-> executions + 1, at |-> 0]}
    BY <1>10 DEF Execute
  <2>2. current' \subseteq Row
    BY <2>1 DEF TypeOK, Row
  <2> QED
    BY <1>10, <2>1, <2>2 DEF Execute, TypeOK, JobInv, Steps
<1>11. ASSUME NEW r \in current, StoreResult(r) PROVE ResultsInv'
  <2>1. r \in Row /\ \A s \in current : s = r
    BY DEF TypeOK, JobInv
  <2>2. /\ Table(outbox') /\ outbox' \subseteq outbox \union {r}
        /\ r \in outbox' => \A s \in outbox' : Agree(r, s)
    BY <1>0, <1>11, <2>1, StoredTable DEF StoreResult
  <2>3. todo = {}
    BY <1>11 DEF StoreResult, JobInv
  <2>4. CASE r \in outbox'
    BY <1>11, <2>1, <2>2, <2>3, <2>4 DEF StoreResult, TypeOK, JobInv, Table, Steps
  <2>5. CASE r \notin outbox'
    BY <1>11, <2>2, <2>5, LeaveStep DEF StoreResult, TypeOK, Table
  <2> QED
    BY <2>4, <2>5
<1>12. CASE CommandsDone
  BY <1>12 DEF CommandsDone, TypeOK, JobInv, Steps
<1>13. CASE StorageFails
  <2>1. PICK flush \in {FALSE, flushing} : Leave(flush)
    BY <1>13 DEF StorageFails
  <2>2. faults' \in Nat
    BY <1>13 DEF StorageFails, TypeOK
  <2> QED
    BY <1>13, <2>1, <2>2, LeaveStep DEF StorageFails, TypeOK
<1>14. CASE Crash
  <2>1. flushing' \in BOOLEAN /\ tried' \in BOOLEAN
    BY <1>14 DEF Crash
  <2> QED
    BY <1>14, <2>1 DEF Crash, TypeOK, JobInv, Steps
<1>15. CASE UNCHANGED vars
  BY <1>15 DEF vars, TypeOK, JobInv
<1> QED
  BY <1>1, <1>2, <1>3, <1>4, <1>5, <1>6, <1>7, <1>8, <1>9, <1>10, <1>11, <1>12,
     <1>13, <1>14, <1>15
  DEF Next, JobStep

\* Every reachable state is well typed; in particular a command has at most one
\* stored result, whatever is handed out again (the primary key of
\* command_result_outbox).
THEOREM TypeCorrect == Spec => []TypeOK
<1>1. ResultsInv => TypeOK
  BY DEF ResultsInv
<1> QED
  BY <1>1, ResultsInit, ResultsStep, PTL DEF Spec

-----------------------------------------------------------------------------
(* The first outcome *)

\* What one step does to a waiting result.
KeepsOutcome(r) ==
  /\ received'[r.command] \subseteq received[r.command] \union {r.outcome}
  /\ \/ \E s \in outbox' : s.command = r.command /\ s.outcome = r.outcome
     \/ r.outcome \in received[r.command]

LEMMA OutcomeStep ==
  ASSUME ResultsInv, [Next]_vars, NEW r \in outbox
  PROVE  KeepsOutcome(r)
<1> USE DEF ResultsInv, bounds, KeepsOutcome
<1>0. Table(outbox) /\ r \in Row
  BY DEF Table, TypeOK
<1>1. ASSUME UNCHANGED <<outbox, received>> PROVE KeepsOutcome(r)
  BY <1>1
<1>2. CASE \/ Heartbeat \/ ReadPending \/ FlushDone \/ CommandsDone \/ StorageFails
           \/ Crash \/ UNCHANGED vars
           \/ \E t \in todo : FlushNext(t)
           \/ \E c \in commands : DropCommand(c) \/ Execute(c)
  BY <1>1, <1>2 DEF Heartbeat, ReadPending, FlushDone, CommandsDone, StorageFails,
                    Crash, vars, FlushNext, DropCommand, Execute
<1>3. ASSUME NEW t \in current, Mark(t) PROVE KeepsOutcome(r)
  <2>1. LastRank(outbox) \in Nat
    BY RankIsNat
  <2>2. PICK rank \in Nat : outbox' = MarkAttempt(outbox, t.command, rank)
    BY <1>3, <2>1 DEF Mark
  <2>3. OutcomesOf(outbox, outbox')
    BY <1>0, <2>2, MarkedTable
  <2> QED
    BY <1>3, <2>3 DEF Mark, OutcomesOf
<1>4. ASSUME NEW t \in current, SendAccepted(t) \/ SendUnreachable(t) \/ SendRefused(t)
      PROVE  KeepsOutcome(r)
  <2>1. /\ received' \in {received, [received EXCEPT ![t.command] = @ \union {t.outcome}]}
        /\ pc = "send" /\ outbox' = outbox
    BY <1>4 DEF SendAccepted, SendUnreachable, SendRefused, MaybeReceived
  <2>2. Agree(t, r)
    BY <2>1 DEF JobInv
  <2> QED
    BY <1>0, <2>1, <2>2 DEF Agree, TypeOK, Row
<1>5. ASSUME NEW t \in current, AcknowledgeRow(t) PROVE KeepsOutcome(r)
  <2>1. r \notin outbox' => r.command = t.command /\ r.outcome = t.outcome
    BY <1>0, <1>5, AcknowledgedTable DEF AcknowledgeRow
  <2>2. t.outcome \in received[t.command]
    BY <1>5 DEF AcknowledgeRow, JobInv
  <2> QED
    BY <1>5, <2>1, <2>2 DEF AcknowledgeRow
<1>6. ASSUME NEW t \in current, StoreResult(t) PROVE KeepsOutcome(r)
  <2>1. outbox \subseteq outbox'
    BY <1>0, <1>6, StoredTable DEF StoreResult, TypeOK
  <2> QED
    BY <1>6, <2>1 DEF StoreResult
<1> QED
  BY <1>2, <1>3, <1>4, <1>5, <1>6 DEF Next, JobStep

\* While a result waits it is the only one the platform can get of its command,
\* and it leaves the table only once the platform has it: "keep the first outcome
\* immutable" (store), for any number of executions, errors and restarts.
THEOREM FirstOutcomeKept == Spec => FirstOutcomeDelivered
<1>1. ResultsInv /\ [Next]_vars => [\A r \in outbox : KeepsOutcome(r)]_vars
  BY OutcomeStep
<1> QED
  BY <1>1, ResultsInit, ResultsStep, PTL DEF Spec, FirstOutcomeDelivered, KeepsOutcome
=============================================================================
