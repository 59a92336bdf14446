----------------------------- MODULE SelfUpdate -----------------------------
(***************************************************************************)
(* Self-update (self_update.rs, update_manager.rs, main_loop/              *)
(* maintenance.rs). The agent hands the package to the system installer    *)
(* and exits; the process that comes back reads the attempt's record to    *)
(* tell the platform what became of it. The service manager may start that *)
(* process before the installer ended.                                     *)
(*                                                                         *)
(* One unit of time is the interval of the scheduled checks. What is       *)
(* downloaded and how it is verified is abstract: a step that succeeds or  *)
(* fails. Versions are numbers.                                            *)
(***************************************************************************)
EXTENDS Integers, Sequences

CONSTANTS
  RetryDelay,  \* RETRY_AFTER_FAILURE_SECS, in scheduled checks
  MaxVersion,  \* bound: releases published
  MaxClock,    \* bound: the clock
  MaxAttempts, \* bound: packages handed to the installer
  MaxFaults    \* bound: kills of the agent, failed writes, launches and reports

ASSUME UpdateAssumption ==
  /\ RetryDelay \in Nat \ {0} /\ MaxVersion \in Nat \ {0}
  /\ MaxClock \in Nat /\ MaxAttempts \in Nat /\ MaxFaults \in Nat

VARIABLES
  process,      \* "down", "starting" (before the main loop), "up"
  running,      \* the version of the process
  installed,    \* the version on disk
  latest,       \* the version of the release catalogue
  installer,    \* the attempt the system installer works on, 0: none
  record,       \* update_attempt.json
  force_update, \* who wants an update: "no" one, a "person", the "platform"
  due,          \* the scheduled check's interval has elapsed
  recent,       \* an interactive check was made less than five minutes ago
  task,         \* the background update task
  outcome,      \* read from the record at startup, not yet reported
  clock,        \* wall clock
  faults,
  tries,        \* history: attempts, how each ended and what was reported of it
  excused,      \* history: attempts a failed write, a failed launch or a kill hit
  early,        \* history: attempts whose installer an agent's start overtook,
                \* and those made before an earlier one's installer ended
  waiting       \* history: a request has not been taken up yet

memory == <<force_update, due, recent, task, outcome>>
history == <<tries, excused, early, waiting>>
vars == <<process, running, installed, latest, installer, record, force_update,
          due, recent, task, outcome, clock, faults, tries, excused, early,
          waiting>>

Versions == 1..MaxVersion
Attempts == 1..MaxAttempts
Outcomes == {"completed", "failed"}

\* What the platform hears of an outcome: it, or nothing at all.
Reports == Outcomes \union {"lost"}

\* No record, or one load_attempt cannot read.
NoRecord == [id |-> 0, target |-> 0, started_at |-> 0, reported |-> FALSE]

NoTask == [step |-> "none", by |-> "no", target |-> 0]
NoOutcome == [id |-> 0, what |-> "none"]

Init ==
  /\ process = "up"
  /\ running = 1 /\ installed = 1 /\ latest = 1
  /\ installer = 0
  /\ record = NoRecord
  /\ force_update = "no" /\ due = TRUE /\ recent = FALSE
  /\ task = NoTask
  /\ outcome = NoOutcome
  /\ clock = 0 /\ faults = 0
  /\ tries = <<>>
  /\ excused = {} /\ early = {}
  /\ waiting = FALSE

-----------------------------------------------------------------------------
(* Requests and time *)

Request(by) ==
  /\ process = "up"
  /\ force_update' = by
  /\ waiting' = TRUE
  /\ UNCHANGED <<process, running, installed, latest, installer, record, due,
                 recent, task, outcome, clock, faults, tries, excused, early>>

\* trigger_update, from the interface, and the platform's update command.
Ask == Request("person")

\* update_available in the answer to a heartbeat. The flag is one Boolean: a
\* person's request stands.
Signal ==
  /\ latest > running
  /\ Request(IF force_update = "person" THEN "person" ELSE "platform")

Publish ==
  /\ latest < MaxVersion
  /\ latest' = latest + 1
  /\ UNCHANGED <<process, running, installed, installer, record, memory, clock,
                 faults, history>>

Tick ==
  /\ clock < MaxClock
  /\ clock' = clock + 1
  /\ due' = (process = "up")
  /\ UNCHANGED <<process, running, installed, latest, installer, record,
                 force_update, recent, task, outcome, faults, history>>

\* Five minutes after the last interactive check.
CoolDown ==
  /\ recent
  /\ recent' = FALSE
  /\ UNCHANGED <<process, running, installed, latest, installer, record,
                 force_update, due, task, outcome, clock, faults, history>>

-----------------------------------------------------------------------------
(* The main loop and the update task *)

Spawn(by) == task' = [step |-> "check", by |-> by, target |-> 0]

Interactive == task.by # "schedule"

\* Mutant: the request is taken from the flag before the running task is seen.
UpdateStageEager ==
  /\ process = "up"
  /\ \/ /\ force_update # "no"
        /\ force_update' = "no"
        /\ IF task = NoTask
           THEN Spawn(force_update) /\ waiting' = FALSE
           ELSE UNCHANGED <<task, waiting>>
        /\ UNCHANGED due
     \/ /\ task = NoTask /\ force_update = "no" /\ due
        /\ due' = FALSE
        /\ Spawn("schedule")
        /\ UNCHANGED <<force_update, waiting>>
  /\ UNCHANGED <<process, running, installed, latest, installer, record, recent,
                 outcome, clock, faults, tries, excused, early>>

UpdateStage ==
  /\ process = "up"
  /\ task = NoTask
  /\ \/ /\ force_update # "no"
        /\ force_update' = "no"
        /\ Spawn(force_update)
        /\ waiting' = FALSE
        /\ UNCHANGED due
     \/ /\ force_update = "no" /\ due
        /\ due' = FALSE
        /\ Spawn("schedule")
        /\ UNCHANGED <<force_update, waiting>>
  /\ UNCHANGED <<process, running, installed, latest, installer, record, recent,
                 outcome, clock, faults, tries, excused, early>>

\* Mutant: the delay ends one check too early.
RetryDelayedShort(version) ==
  /\ record.target = version
  /\ clock - record.started_at \in 0..(RetryDelay - 2)

RetryDelayed(version) ==
  /\ record.target = version
  /\ clock - record.started_at \in 0..(RetryDelay - 1)

\* Mutant: any release of the catalogue is installed, an older one too.
HeldAnyRelease ==
  \/ Interactive /\ recent
  \/ ~Interactive /\ RetryDelayed(latest)

\* What keeps self_update from downloading: the five minutes of an interactive
\* check, no newer release, the delay after a failed installation.
Held ==
  \/ Interactive /\ recent
  \/ latest <= running
  \/ ~Interactive /\ RetryDelayed(latest)

\* self_update up to the download. The catalogue may be out of reach.
Check ==
  /\ task.step = "check"
  /\ recent' = (recent \/ Interactive)
  /\ \/ task' = NoTask
     \/ /\ ~Held
        /\ Len(tries) < MaxAttempts
        /\ task' = [task EXCEPT !.step = "install", !.target = latest]
  /\ UNCHANGED <<process, running, installed, latest, installer, record,
                 force_update, due, outcome, clock, faults, history>>

\* perform_update when the download or the verification fails: reported, and the
\* task ends.
Refuse ==
  /\ task.step = "install"
  /\ task' = NoTask
  /\ UNCHANGED <<process, running, installed, latest, installer, record,
                 force_update, due, recent, outcome, clock, faults, history>>

Attempt ==
  [id |-> Len(tries) + 1, target |-> task.target, started_at |-> clock,
   reported |-> FALSE]

\* Mutant: the attempt is not recorded.
StoreNothing == record' = record

Store == record' = Attempt

Fault == faults < MaxFaults /\ faults' = faults + 1

\* store_attempt in perform_update, the package downloaded and verified; a failed
\* write is only logged.
RecordAttempt ==
  /\ task.step = "install"
  /\ task' = [task EXCEPT !.step = "launch"]
  /\ tries' = Append(tries, [target |-> task.target, at |-> clock,
                             result |-> "none", told |-> <<>>])
  /\ \/ Store /\ UNCHANGED <<excused, faults>>
     \/ /\ Fault
        /\ record' \in {record, NoRecord}
        /\ excused' = excused \union {Len(tries) + 1}
                              \union ({record.id} \ {record'.id})
  /\ early' = IF installer = 0 THEN early ELSE early \union {Len(tries) + 1}
  /\ UNCHANGED <<process, running, installed, latest, installer, force_update,
                 due, recent, outcome, clock, waiting>>

Told(a, what) == [tries EXCEPT ![a].told = Append(@, what)]

\* report_update: one request, when there is a client for the platform. One that
\* fails is only logged, and nothing sends it again.
Delivered(a, what) == tries' = Told(a, what) /\ UNCHANGED faults

NotDelivered(a) == Fault /\ tries' = Told(a, "lost")

\* trigger_installer: the system installer is started, or not and the failure is
\* reported at once.
Launch ==
  /\ task.step = "launch"
  /\ LET a == Len(tries) IN
     \/ /\ installer = 0
        /\ installer' = a
        /\ tries' = [tries EXCEPT ![a].result = "running"]
        /\ task' = [task EXCEPT !.step = "exit"]
        /\ UNCHANGED <<excused, faults>>
     \/ \* another installation holds the installer's lock
        /\ installer # 0
        /\ tries' = [tries EXCEPT ![a].result = "failed"]
        /\ task' = [task EXCEPT !.step = "exit"]
        /\ UNCHANGED <<installer, excused, faults>>
     \/ /\ Fault
        /\ \E heard \in {"failed", "lost"} : tries' = Told(a, heard)
        /\ task' = NoTask
        /\ excused' = excused \union {a}
        /\ UNCHANGED installer
  /\ UNCHANGED <<process, running, installed, latest, record, force_update, due,
                 recent, outcome, clock, early, waiting>>

\* The process ends: what it kept in memory is gone.
Down ==
  /\ process' = "down"
  /\ force_update' = "no" /\ due' = FALSE /\ recent' = FALSE
  /\ task' = NoTask
  /\ outcome' = NoOutcome
  /\ waiting' = FALSE

Exit ==
  /\ task.step = "exit"
  /\ Down
  /\ UNCHANGED <<running, installed, latest, installer, record, clock, faults,
                 tries, excused, early>>

-----------------------------------------------------------------------------
(* The system installer, external *)

\* The package's scripts stop the agent and start it again.
InstallerSucceeds ==
  /\ installer # 0
  /\ installer' = 0
  /\ installed' = tries[installer].target
  /\ tries' = [tries EXCEPT ![installer].result = "completed"]
  /\ Down
  /\ excused' = IF outcome = NoOutcome THEN excused ELSE excused \union {outcome.id}
  /\ UNCHANGED <<running, latest, record, clock, faults, early>>

InstallerFails ==
  /\ installer # 0
  /\ installer' = 0
  /\ tries' = [tries EXCEPT ![installer].result = "failed"]
  /\ UNCHANGED <<process, running, installed, latest, record, memory, clock,
                 faults, excused, early, waiting>>

-----------------------------------------------------------------------------
(* Startup *)

\* The service manager starts the agent, whether or not the installer ended.
Start ==
  /\ process = "down"
  /\ process' = "starting"
  /\ running' = installed
  /\ early' = early \union ({installer} \ {0})
  /\ UNCHANGED <<installed, latest, installer, record, memory, clock, faults,
                 tries, excused, waiting>>

\* settle_attempt, of an attempt not reported yet.
Settled == IF running >= record.target THEN "completed" ELSE "failed"

\* Mutant: the failure is not marked as reported.
KeptUnmarked == record

\* What the record becomes when its outcome is taken: a failure keeps spacing
\* out the scheduled checks.
Kept == IF Settled = "completed" THEN NoRecord ELSE [record EXCEPT !.reported = TRUE]

\* take_outcome_at; a record that cannot be updated is only logged.
TakeOutcome ==
  /\ process = "starting"
  /\ outcome = NoOutcome
  /\ record.id # 0 /\ ~record.reported
  /\ outcome' = [id |-> record.id, what |-> Settled]
  /\ \/ record' = Kept /\ UNCHANGED <<excused, faults>>
     \/ /\ Fault
        /\ record' \in {record, NoRecord}
        /\ excused' = excused \union {record.id}
  /\ UNCHANGED <<process, running, installed, latest, installer, force_update,
                 due, recent, task, clock, tries, early, waiting>>

\* report_previous_update_outcome, then the main loop: its first scheduled check
\* is due two minutes later. The record of the outcome is already gone.
Report ==
  /\ process = "starting"
  /\ \/ outcome # NoOutcome /\ Delivered(outcome.id, outcome.what)
     \/ outcome # NoOutcome /\ NotDelivered(outcome.id)
     \/ /\ outcome = NoOutcome /\ (record.id = 0 \/ record.reported)
        /\ UNCHANGED <<tries, faults>>
  /\ process' = "up"
  /\ outcome' = NoOutcome
  /\ due' = TRUE
  /\ UNCHANGED <<running, installed, latest, installer, record, force_update,
                 recent, task, clock, excused, early, waiting>>

\* A kill. A write it interrupts leaves a file load_attempt cannot read; an
\* outcome taken and not yet sent is gone.
Crash ==
  /\ process # "down"
  /\ Fault
  /\ Down
  /\ \/ UNCHANGED record
     \/ /\ task.step = "install" \/ process = "starting"
        /\ record' = NoRecord
  /\ excused' = excused \union ({record.id} \ {record'.id})
                        \union ({outcome.id} \ {0})
  /\ UNCHANGED <<running, installed, latest, installer, clock, tries, early>>

Next ==
  \/ Ask \/ Signal \/ Publish \/ Tick \/ CoolDown
  \/ UpdateStage \/ Check \/ Refuse \/ RecordAttempt \/ Launch \/ Exit
  \/ InstallerSucceeds \/ InstallerFails
  \/ Start \/ TakeOutcome \/ Report \/ Crash

Spec == Init /\ [][Next]_vars

\* The loop polls its task and the runtime the task's steps, an installer ends,
\* the service manager starts the agent again (Restart=always) and startup
\* proceeds. Requests, releases, time and kills are not promised.
FairSpec ==
  /\ Spec
  /\ WF_vars(UpdateStage) /\ WF_vars(Check) /\ WF_vars(Refuse \/ RecordAttempt)
  /\ WF_vars(Launch) /\ WF_vars(Exit)
  /\ WF_vars(InstallerSucceeds \/ InstallerFails)
  /\ WF_vars(Start) /\ WF_vars(TakeOutcome) /\ WF_vars(Report)

-----------------------------------------------------------------------------
(* Properties *)

Steps == {"none", "check", "install", "launch", "exit"}

\* Types of the state; a task that is past its check has a version newer than
\* the process to install (check_for_update), and runs only in the main loop.
TypeOK ==
  /\ process \in {"down", "starting", "up"}
  /\ running \in Versions /\ installed \in Versions /\ latest \in Versions
  /\ installer \in 0..Len(tries)
  /\ record \in {NoRecord} \union
       [id : Attempts, target : Versions, started_at : 0..MaxClock,
        reported : BOOLEAN]
  /\ record.id <= Len(tries)
  /\ {due, recent, waiting} \subseteq BOOLEAN
  /\ force_update \in {"no", "person", "platform"}
  /\ task \in [step : Steps, by : {"no", "person", "platform", "schedule"},
              target : {0} \union Versions]
  /\ task # NoTask => process = "up"
  /\ task.step \in {"install", "launch", "exit"} => task.target > running
  /\ task.step \in {"none", "check"} => task.target = 0
  /\ outcome \in {NoOutcome} \union [id : 1..Len(tries), what : Outcomes]
  /\ outcome # NoOutcome => process = "starting"
  /\ clock \in 0..MaxClock /\ faults \in 0..MaxFaults
  /\ Len(tries) \in 0..MaxAttempts
  /\ \A a \in 1..Len(tries) :
       /\ tries[a].target \in Versions /\ tries[a].at \in 0..clock
       /\ tries[a].result \in Outcomes \union {"none", "running"}
       /\ \A i \in 1..Len(tries[a].told) : tries[a].told[i] \in Reports
  /\ excused \subseteq 0..Len(tries) /\ early \subseteq 1..Len(tries)

\* Each outcome is sent once and is the real one (take_update_outcome,
\* settle_attempt): whatever the number of restarts, an attempt whose installer
\* ended before the agent came back is reported completed at most once if it was
\* installed and failed at most once if it was not, and not again when the
\* report was lost. Left out: attempts hit by a failed write or launch, or by a
\* kill.
RealOutcomeOnce ==
  \A a \in 1..Len(tries) \ (excused \union early) :
    tries[a].told \in
      {<<>>, <<"lost">>,
       <<IF tries[a].result = "completed" THEN "completed" ELSE "failed">>}

\* The step that records an attempt and goes on to hand it over.
HandedOver == task.step = "install" /\ Len(tries') > Len(tries)

Spaced(a) == clock - tries[a].at >= RetryDelay

\* Attempts the record still speaks for, or a later attempt's: no write failed
\* since.
Recorded == {a \in 1..Len(tries) : (a..Len(tries)) \cap excused = {}}

\* A scheduled check never retries a version within RETRY_AFTER_FAILURE_SECS of
\* an earlier attempt at it (retry_delayed), by whichever process and at
\* whoever's request that one was made, across restarts, later attempts at other
\* versions and installers still at work.
ScheduledRetriesSpaced ==
  [][(HandedOver /\ ~Interactive) =>
       \A a \in Recorded :
         tries[a].target = task.target => Spaced(a)]_vars

Handed(a) == a <= Len(tries) /\ tries[a].result # "none"

Reported(a) == a <= Len(tries) /\ \E i \in 1..Len(tries[a].told) : tries[a].told[i] \in Outcomes

\* The one request with its outcome failed, or there was no client to send it.
Lost(a) == a <= Len(tries) /\ \E i \in 1..Len(tries[a].told) : tries[a].told[i] = "lost"

\* An attempt handed to the installer is accounted for by the process that comes
\* back after the installer, however long it takes: its outcome reaches the
\* platform, unless the only request that carries it fails. The record is
\* consumed before that request (take_outcome_at), so a failed one, or a
\* platform the agent has no client for, leaves the platform without an answer.
OutcomeReported ==
  \A a \in Attempts : Handed(a) ~> (a \in excused \/ Lost(a) \/ Reported(a))

\* A request made while an update runs is served after it (update_stage): every
\* request is taken up by a new task or the process ends.
RequestServed == waiting ~> (~waiting \/ process # "up")

-----------------------------------------------------------------------------
(* The inductive invariant *)

Try == [target : Versions, at : Nat, result : Outcomes \union {"none", "running"},
        told : Seq(Reports)]

Last == Len(tries)

Real(a) == IF tries[a].result = "completed" THEN "completed" ELSE "failed"

\* The versions: a process runs what is installed, releases only grow, and so do
\* the targets of the attempts, which the installer only ever moves up to.
VersionInv ==
  /\ process # "down" => running = installed
  /\ \A a, b \in 1..Last :
       a <= b => tries[a].target <= tries[b].target /\ tries[a].at <= tries[b].at
  /\ \A a \in 1..Last :
       /\ tries[a].target <= latest
       /\ task.step \in {"install", "launch", "exit"} => tries[a].target <= task.target
  /\ task.target <= latest

\* The last attempt, when no earlier one's installer was at work: it is installed
\* exactly when its installer completed.
LastInv ==
  /\ installer # 0 => /\ tries[installer].result = "running"
                      /\ tries[installer].target > installed
  /\ process = "starting" => installer \in {0} \union early
  /\ task.step = "install" => Last < MaxAttempts
  /\ task.step \in {"launch", "exit"} => Last # 0
  /\ task.step = "launch" => /\ tries[Last].result = "none"
                             /\ tries[Last].target = task.target
  /\ Last # 0 /\ Last \notin early =>
       /\ installer \in {0, Last}
       /\ tries[Last].result = "completed" <=> installed >= tries[Last].target

\* The record speaks for an attempt, for the last one until that is reported; it
\* is forgotten only once the version is installed, or by a failure.
RecordInv ==
  /\ record.id # 0 => /\ record.target = tries[record.id].target
                      /\ record.started_at = tries[record.id].at
  /\ record.id # 0 /\ ~record.reported /\ record.id \notin excused =>
       /\ record.id = Last /\ tries[Last].told = <<>>
       /\ outcome = NoOutcome
       /\ process = "up" => task.step \in {"launch", "exit"}
  /\ Last # 0 /\ Last \notin excused =>
       record.id = Last \/ (record.id = 0 /\ installed >= tries[Last].target)
  /\ task.step = "install" /\ ~Interactive =>
       \A a \in Recorded : tries[a].target = task.target => Spaced(a)

\* What is reported, or about to be, is final.
ToldInv ==
  /\ \A a \in 1..Last \ (excused \union early) :
       tries[a].told # <<>> =>
         /\ tries[a].told \in {<<"lost">>, <<Real(a)>>}
         /\ installer # a
         /\ task.step = "launch" => a # Last
  /\ outcome # NoOutcome /\ outcome.id \notin excused \union early =>
       /\ outcome.id = Last /\ outcome.what = Real(Last)
       /\ tries[Last].told = <<>> /\ installer # Last

UpdateInv ==
  /\ TypeOK /\ tries \in Seq(Try)
  /\ VersionInv /\ LastInv /\ RecordInv /\ ToldInv
=============================================================================
