-------------------------- MODULE SelfUpdateProofs --------------------------
(***************************************************************************)
(* Theorems about SelfUpdate, for any delay between retries and any number *)
(* of releases, attempts, restarts and failures.                           *)
(***************************************************************************)
EXTENDS SelfUpdate, TLAPS

USE UpdateAssumption

-----------------------------------------------------------------------------
(* The history of the attempts *)

\* What a change of the result of attempt a leaves alone.
LEMMA ResultTry ==
  ASSUME tries \in Seq(Try), NEW a \in 1..Last,
         NEW result \in Outcomes \union {"none", "running"}
  PROVE  LET t == [tries EXCEPT ![a].result = result]
         IN  /\ t \in Seq(Try) /\ Len(t) = Last
             /\ \A b \in 1..Last :
                  /\ t[b].target = tries[b].target /\ t[b].at = tries[b].at
                  /\ t[b].told = tries[b].told
                  /\ t[b].result = IF b = a THEN result ELSE tries[b].result
<1> DEFINE t == [tries EXCEPT ![a].result = result]
           try == [tries[a] EXCEPT !.result = result]
<1>1. tries[a] \in Try
  BY DEF Last
<1>2. /\ try \in Try /\ try.result = result
      /\ try.target = tries[a].target /\ try.at = tries[a].at
      /\ try.told = tries[a].told
  BY <1>1 DEF Try
<1> HIDE DEF try
<1>3. t = [tries EXCEPT ![a] = try]
  BY DEF try
<1> HIDE DEF t
<1>4. t \in Seq(Try) /\ Len(t) = Last
  BY <1>2, <1>3 DEF Last
<1>5. \A b \in 1..Last : t[b] = IF b = a THEN try ELSE tries[b]
  BY <1>3 DEF Last
<1> QED
  BY <1>2, <1>4, <1>5 DEF t

\* A report is added to what was told of attempt a and changes nothing else.
LEMMA ToldTry ==
  ASSUME tries \in Seq(Try), NEW a \in 1..Last, NEW what \in Reports
  PROVE  LET t == Told(a, what)
         IN  /\ t \in Seq(Try) /\ Len(t) = Last
             /\ \A b \in 1..Last :
                  /\ t[b].target = tries[b].target /\ t[b].at = tries[b].at
                  /\ t[b].result = tries[b].result
                  /\ t[b].told = IF b = a THEN Append(tries[b].told, what)
                                          ELSE tries[b].told
<1> DEFINE t == Told(a, what)
           try == [tries[a] EXCEPT !.told = Append(tries[a].told, what)]
<1>1. tries[a] \in Try
  BY DEF Last
<1>2. tries[a].told \in Seq(Reports)
  BY <1>1 DEF Try
<1>3. Append(tries[a].told, what) \in Seq(Reports)
  BY <1>2
<1>4. /\ try \in Try /\ try.result = tries[a].result
      /\ try.target = tries[a].target /\ try.at = tries[a].at
      /\ try.told = Append(tries[a].told, what)
  BY <1>1, <1>3 DEF Try
<1> HIDE DEF try
<1>5. t = [tries EXCEPT ![a] = try]
  BY DEF try, Told
<1> HIDE DEF t
<1>6. t \in Seq(Try) /\ Len(t) = Last
  BY <1>4, <1>5 DEF Last
<1>7. \A b \in 1..Last : t[b] = IF b = a THEN try ELSE tries[b]
  BY <1>5 DEF Last
<1> QED
  BY <1>4, <1>6, <1>7 DEF t

\* A new attempt comes last.
LEMMA NewTry ==
  ASSUME tries \in Seq(Try), NEW try \in Try
  PROVE  LET t == Append(tries, try)
         IN  /\ t \in Seq(Try) /\ Len(t) = Last + 1
             /\ t[Last + 1] = try
             /\ \A b \in 1..Last : t[b] = tries[b]
  BY DEF Last

\* The types of a history.
LEMMA TryTypes ==
  ASSUME NEW s \in Seq(Try), NEW c, \A a \in 1..Len(s) : s[a].at \in 0..c
  PROVE  \A a \in 1..Len(s) :
           /\ s[a].target \in Versions /\ s[a].at \in 0..c
           /\ s[a].result \in Outcomes \union {"none", "running"}
           /\ \A i \in 1..Len(s[a].told) : s[a].told[i] \in Reports
<1> TAKE a \in 1..Len(s)
<1>1. s[a] \in Try
  OBVIOUS
<1>2. s[a].told \in Seq(Reports)
  BY <1>1 DEF Try
<1> QED
  BY <1>1, <1>2 DEF Try

-----------------------------------------------------------------------------
(* The invariant *)

LEMMA UpdateInit == Init => UpdateInv
<1> SUFFICES ASSUME Init PROVE UpdateInv
  OBVIOUS
<1>1. Last = 0 /\ tries \in Seq(Try) /\ 1..Last = {}
  BY DEF Init, Last
<1>2. TypeOK
  <2>1. {due, recent, waiting} \subseteq BOOLEAN
    BY DEF Init
  <2>2. running \in Versions /\ installed \in Versions /\ latest \in Versions
    BY DEF Init, Versions
  <2>3. record = NoRecord /\ record.id = 0 /\ installer = 0 /\ clock = 0 /\ faults = 0
    BY DEF Init, NoRecord
  <2>4. task = NoTask /\ task.step = "none" /\ task.target = 0
    BY DEF Init, NoTask
  <2>5. task \in [step : Steps, by : {"no", "person", "platform", "schedule"},
                  target : {0} \union Versions]
    BY <2>4 DEF NoTask, Steps
  <2> QED
    BY <1>1, <2>1, <2>2, <2>3, <2>4, <2>5 DEF Init, TypeOK, Last
<1>3. VersionInv
  BY <1>1 DEF Init, VersionInv, NoTask
<1>4. LastInv
  BY <1>1 DEF Init, LastInv, NoTask
<1>5. RecordInv
  BY <1>1 DEF Init, RecordInv, NoTask, NoRecord
<1>6. ToldInv
  BY <1>1 DEF Init, ToldInv
<1> QED
  BY <1>1, <1>2, <1>3, <1>4, <1>5, <1>6 DEF UpdateInv

Task == [step : Steps, by : {"no", "person", "platform", "schedule"},
         target : {0} \union Versions]

\* What the requests, the passing of time, the releases, a task that starts and
\* one that ends early leave alone.
LEMMA QuietStep ==
  ASSUME UpdateInv,
         UNCHANGED <<process, running, installed, installer, record, outcome,
                     faults, tries, excused, early>>,
         latest' \in Versions, latest' >= latest,
         clock' \in 0..MaxClock, clock' >= clock,
         {due', recent', waiting'} \subseteq BOOLEAN,
         force_update' \in {"no", "person", "platform"},
         \/ task' = task
         \/ /\ task' \in Task /\ task'.step \in {"none", "check"} /\ task'.target = 0
            /\ task.step \in {"none", "check", "install"}
            /\ task' # NoTask => process = "up"
  PROVE  UpdateInv'
<1> USE DEF UpdateInv, Last
<1>1. TypeOK'
  <2>1. {due, recent, waiting}' \subseteq BOOLEAN
    OBVIOUS
  <2>2. clock \in 0..MaxClock /\ clock' \in 0..MaxClock /\ clock <= clock'
    BY DEF TypeOK
  <2>3. \A a \in 1..Len(tries) : tries[a].at \in 0..clock'
    BY <2>2 DEF TypeOK
  <2>4. /\ task' \in Task
        /\ task' # NoTask => process = "up"
        /\ task'.step \in {"install", "launch", "exit"} => task'.target > running
        /\ task'.step \in {"none", "check"} => task'.target = 0
    BY DEF TypeOK, Task
  <2> QED
    BY <2>1, <2>2, <2>3, <2>4 DEF TypeOK, Task
<1>2. VersionInv'
  BY DEF VersionInv, TypeOK, Versions
<1>3. LastInv'
  BY DEF LastInv
<1>4. RecordInv'
  <2>1. \A a \in 1..Last : Spaced(a) => Spaced(a)'
    BY DEF Spaced, TypeOK
  <2>2. Recorded' = Recorded
    BY DEF Recorded
  <2> QED
    BY <2>1, <2>2 DEF RecordInv, Interactive, Recorded
<1>5. ToldInv'
  BY DEF ToldInv, Real
<1> QED
  BY <1>1, <1>2, <1>3, <1>4, <1>5

\* A check that found a release to install: a scheduled one has looked at the
\* record.
LEMMA CheckStep == UpdateInv /\ Check => UpdateInv'
<1> SUFFICES ASSUME UpdateInv, Check PROVE UpdateInv'
  OBVIOUS
<1> USE DEF UpdateInv, Last
<1>0. task.step = "check" /\ task \in Task /\ process = "up" /\ running = installed
  BY DEF Check, TypeOK, VersionInv, NoTask, Task
<1>1. {due', recent', waiting'} \subseteq BOOLEAN /\ force_update' = force_update
  BY DEF Check, Interactive, TypeOK, memory, history
<1>2. UNCHANGED <<process, running, installed, latest, installer, record, outcome,
                  clock, faults, tries, excused, early>>
  BY DEF Check, history
<1>3. CASE task' = NoTask
  <2>1. task' \in Task /\ task'.step = "none" /\ task'.target = 0
    BY <1>3 DEF NoTask, Task, Steps
  <2> QED
    BY <1>0, <1>1, <1>2, <2>1, <1>3, QuietStep DEF TypeOK, Versions
<1>4. CASE ~Held /\ Len(tries) < MaxAttempts
           /\ task' = [task EXCEPT !.step = "install", !.target = latest]
  <2>1. latest > running /\ latest \in Versions
    BY <1>4 DEF Held, TypeOK, Versions
  <2>2. /\ task' \in Task /\ task'.step = "install" /\ task'.target = latest
        /\ task'.by = task.by
    BY <1>0, <1>4, <2>1 DEF Task, Steps
  <2>3. TypeOK'
    BY <1>0, <1>1, <1>2, <2>1, <2>2 DEF TypeOK, Task
  <2>4. VersionInv'
    BY <1>0, <1>2, <2>1, <2>2 DEF VersionInv, Versions
  <2>5. LastInv'
    BY <1>0, <1>2, <1>4, <2>2 DEF LastInv
  <2>6. ToldInv'
    BY <1>2, <2>2 DEF ToldInv, Real
  <2>7. ASSUME ~Interactive, NEW a \in Recorded, tries[a].target = latest
        PROVE  Spaced(a)
    <3>1. a \in 1..Last /\ Last \in Nat /\ Last # 0 /\ Last \notin excused
      BY <2>7 DEF Recorded
    <3>2. tries[a].target <= tries[Last].target /\ tries[a].at <= tries[Last].at
      BY <3>1 DEF VersionInv
    <3>3. tries[Last].target <= latest /\ tries[Last].target \in Versions
      BY <3>1 DEF VersionInv, TypeOK
    <3>4. tries[Last].target = latest
      BY <2>1, <2>7, <3>2, <3>3 DEF Versions
    <3>5. record.id = Last /\ record.target = latest /\ record.started_at = tries[Last].at
      <4>1. ~(installed >= tries[Last].target)
        BY <1>0, <2>1, <3>4 DEF TypeOK, Versions
      <4>2. record.id = Last
        BY <3>1, <4>1 DEF RecordInv
      <4> QED
        BY <3>1, <3>4, <4>2 DEF RecordInv
    <3>6. clock - record.started_at \notin 0..(RetryDelay - 1)
      BY <1>4, <2>7, <3>5 DEF Held, RetryDelayed
    <3>7. clock \in Nat /\ tries[a].at \in 0..clock /\ tries[Last].at \in 0..clock
      BY <3>1 DEF TypeOK
    <3>8. clock - tries[Last].at >= RetryDelay
      BY <3>5, <3>6, <3>7
    <3> QED
      BY <3>2, <3>7, <3>8 DEF Spaced
  <2>8. RecordInv'
    BY <1>0, <1>2, <2>2, <2>7 DEF RecordInv, Interactive, Spaced, Recorded
  <2> QED
    BY <1>2, <2>3, <2>4, <2>5, <2>6, <2>8
<1> QED
  BY <1>3, <1>4 DEF Check

\* The attempt is written down: the record is its, or the write is excused.
LEMMA RecordStep == UpdateInv /\ RecordAttempt => UpdateInv'
<1> SUFFICES ASSUME UpdateInv, RecordAttempt PROVE UpdateInv'
  OBVIOUS
<1> USE DEF UpdateInv, Last
<1> DEFINE new == Last + 1
           try == [target |-> task.target, at |-> clock, result |-> "none", told |-> <<>>]
<1>0. /\ task.step = "install" /\ task \in Task /\ process = "up" /\ running = installed
      /\ outcome = NoOutcome /\ Last \in Nat /\ new \in 1..MaxAttempts
      /\ task.target \in Versions /\ task.target > running /\ clock \in 0..MaxClock
  <2>1. task.step = "install" /\ task # NoTask
    BY DEF RecordAttempt, NoTask
  <2>2. process = "up" /\ task.target > running
    BY <2>1 DEF TypeOK
  <2>3. outcome = NoOutcome
    BY <2>2 DEF TypeOK
  <2>4. task \in Task /\ running \in Versions /\ clock \in 0..MaxClock
        /\ Last \in 0..MaxAttempts
    BY DEF TypeOK, Task
  <2>5. running = installed
    BY <2>2 DEF VersionInv
  <2>6. Last < MaxAttempts
    BY <2>1 DEF LastInv
  <2>7. task.target \in Versions
    BY <2>2, <2>4 DEF Task, Versions
  <2>8. new \in 1..MaxAttempts /\ Last \in Nat
    BY <2>4, <2>6, UpdateAssumption
  <2> QED
    BY <2>1, <2>2, <2>3, <2>4, <2>5, <2>7, <2>8
<1>1. try \in Try /\ try.target = task.target /\ try.at = clock /\ try.result = "none"
                 /\ try.told = <<>>
  BY <1>0 DEF Try, Versions
<1> HIDE DEF try
<1>2. /\ tries' \in Seq(Try) /\ Last' = new /\ tries'[new] = try
      /\ \A b \in 1..Last : tries'[b] = tries[b]
  BY <1>1, NewTry DEF RecordAttempt, try
<1>3. /\ task' \in Task /\ task'.step = "launch" /\ task'.target = task.target
      /\ task' # NoTask /\ task'.by = task.by
  BY <1>0 DEF RecordAttempt, Task, Steps, NoTask
<1>4. /\ record'.id = new => /\ record'.target = task.target
                             /\ record'.started_at = clock
      /\ record' \in {record, NoRecord, Attempt}
      /\ \/ record' = Attempt /\ record'.id = new /\ excused' = excused
         \/ record' \in {record, NoRecord} /\ new \in excused'
      /\ excused' \subseteq 0..new /\ excused \subseteq excused'
      /\ faults' \in 0..MaxFaults
  <2>1. Attempt.id = new /\ Attempt.target = task.target /\ Attempt.started_at = clock
    BY DEF Attempt
  <2>2. record.id # new /\ NoRecord.id # new
    BY <1>0 DEF TypeOK, NoRecord
  <2>3. excused \subseteq 0..Last /\ faults \in 0..MaxFaults /\ record.id \in 0..Last
    BY <1>0 DEF TypeOK, NoRecord, Attempts
  <2>4. CASE Store /\ UNCHANGED <<excused, faults>>
    BY <1>0, <2>1, <2>3, <2>4 DEF Store
  <2>5. CASE /\ Fault /\ record' \in {record, NoRecord}
             /\ excused' = excused \union {new} \union ({record.id} \ {record'.id})
    <3>1. faults' \in 0..MaxFaults
      BY <2>3, <2>5 DEF Fault
    <3>2. record'.id # new
      BY <2>2, <2>5
    <3>3. excused' \subseteq 0..new
      <4>1. 0..Last \subseteq 0..new /\ new \in 0..new
        BY <1>0
      <4> QED
        BY <2>3, <2>5, <4>1
    <3>4. new \in excused' /\ excused \subseteq excused'
      BY <2>5
    <3> QED
      BY <2>5, <3>1, <3>2, <3>3, <3>4
  <2>6. \/ Store /\ UNCHANGED <<excused, faults>>
        \/ /\ Fault /\ record' \in {record, NoRecord}
           /\ excused' = excused \union {new} \union ({record.id} \ {record'.id})
    BY DEF RecordAttempt
  <2> QED
    BY <2>4, <2>5, <2>6
<1>5. early' \subseteq early \union {new} /\ early \subseteq early'
      /\ (new \notin early' => installer = 0)
  BY <1>0 DEF RecordAttempt
<1>6. UNCHANGED <<process, running, installed, latest, installer, force_update, due,
                  recent, outcome, clock, waiting>>
  BY DEF RecordAttempt
<1>7. TypeOK'
  <2>1. {due, recent, waiting}' \subseteq BOOLEAN
    BY <1>6 DEF TypeOK
  <2>2. /\ record' \in {NoRecord} \union [id : Attempts, target : Versions,
                                          started_at : 0..MaxClock, reported : BOOLEAN]
        /\ record'.id <= new
    <3>1. Attempt \in [id : Attempts, target : Versions, started_at : 0..MaxClock,
                       reported : BOOLEAN]
      BY <1>0 DEF Attempt, Attempts
    <3>2. Attempt.id <= new /\ record.id <= new /\ NoRecord.id <= new
      BY <1>0 DEF Attempt, TypeOK, NoRecord, Attempts
    <3> QED
      BY <1>4, <3>1, <3>2 DEF TypeOK
  <2>3. \A a \in 1..new :
          /\ tries'[a].target \in Versions /\ tries'[a].at \in 0..clock
          /\ tries'[a].result \in Outcomes \union {"none", "running"}
          /\ \A i \in 1..Len(tries'[a].told) : tries'[a].told[i] \in Reports
    <3>1. \A a \in 1..new : a \in 1..Last \/ a = new
      BY <1>0
    <3>2. Len(<<>>) = 0
      OBVIOUS
    <3>3. \A a \in 1..Last : /\ tries[a].target \in Versions /\ tries[a].at \in 0..clock
                             /\ tries[a].result \in Outcomes \union {"none", "running"}
                             /\ \A i \in 1..Len(tries[a].told) :
                                  tries[a].told[i] \in Reports
      BY DEF TypeOK
    <3>4. try.target \in Versions /\ try.at \in 0..clock /\ try.result = "none"
          /\ \A i \in 1..Len(try.told) : try.told[i] \in Reports
      BY <1>0, <1>1, <3>2
    <3> HIDE DEF UpdateInv
    <3> QED
      BY <1>2, <3>1, <3>3, <3>4
  <2>4. early' \subseteq 1..new
    BY <1>0, <1>5 DEF TypeOK
  <2>5. installer' \in 0..new /\ new \in 0..MaxAttempts
    BY <1>0, <1>6 DEF TypeOK
  <2> QED
    BY <1>0, <1>2, <1>3, <1>4, <1>6, <2>1, <2>2, <2>3, <2>4, <2>5 DEF TypeOK, Task
<1>8. VersionInv'
  <2>1. \A a \in 1..Last : /\ tries[a].target <= task.target /\ tries[a].at <= clock
                           /\ tries[a].target <= latest
    BY <1>0 DEF VersionInv, TypeOK
  <2>2. \A a \in 1..new : a \in 1..Last \/ a = new
    BY <1>0
  <2>3. \A a, b \in 1..new : a <= b => /\ tries'[a].target <= tries'[b].target
                                      /\ tries'[a].at <= tries'[b].at
    <3> TAKE a, b \in 1..new
    <3>1. CASE a \in 1..Last /\ b \in 1..Last
      BY <1>2, <3>1 DEF VersionInv
    <3>2. CASE a \in 1..Last /\ b = new
      BY <1>1, <1>2, <2>1, <3>2
    <3>3. CASE a = new /\ b \in 1..Last
      BY <1>0, <3>3
    <3>4. CASE a = new /\ b = new
      BY <1>0, <1>1, <1>2, <3>4 DEF Versions
    <3> QED
      BY <2>2, <3>1, <3>2, <3>3, <3>4
  <2>4. \A a \in 1..new : tries'[a].target <= latest /\ tries'[a].target <= task.target
    BY <1>0, <1>1, <1>2, <2>1, <2>2 DEF VersionInv, Versions
  <2> QED
    BY <1>0, <1>2, <1>3, <1>6, <2>3, <2>4 DEF VersionInv
<1>9. LastInv'
  BY <1>0, <1>1, <1>2, <1>3, <1>5, <1>6 DEF LastInv, TypeOK, Versions
<1>10. RecordInv'
  <2>1. record'.id # 0 => /\ record'.target = tries'[record'.id].target
                          /\ record'.started_at = tries'[record'.id].at
    <3>1. CASE record'.id = new
      BY <1>1, <1>2, <1>4, <3>1
    <3>2. CASE record' = record
      <4>1. record.id \in 0..Last
        BY <1>0 DEF TypeOK, NoRecord, Attempts
      <4>2. record.id # 0 => record.id \in 1..Last
        BY <1>0, <4>1
      <4> QED
        BY <1>2, <3>2, <4>2 DEF RecordInv
    <3>3. CASE record' = NoRecord
      BY <3>3 DEF NoRecord
    <3> QED
      BY <1>4, <3>1, <3>2, <3>3
  <2>2. record'.id # 0 /\ ~record'.reported /\ record'.id \notin excused' =>
          /\ record'.id = new /\ tries'[new].told = <<>> /\ task'.step = "launch"
    <3>1. tries'[new].told = <<>> /\ task'.step = "launch"
      BY <1>1, <1>2, <1>3
    <3>2. record.id # 0 /\ ~record.reported => record.id \in excused
      BY <1>0 DEF RecordInv
    <3>3. CASE record'.id = new
      BY <3>1, <3>3
    <3>4. CASE record' = record
      BY <1>4, <3>2, <3>4
    <3>5. CASE record' = NoRecord
      BY <3>5 DEF NoRecord
    <3> QED
      BY <1>4, <3>3, <3>4, <3>5
  <2> QED
    BY <1>0, <1>2, <1>3, <1>4, <1>6, <2>1, <2>2 DEF RecordInv
<1>11. ToldInv'
  BY <1>0, <1>1, <1>2, <1>3, <1>4, <1>5, <1>6 DEF ToldInv, Real, TypeOK
<1> QED
  BY <1>2, <1>7, <1>8, <1>9, <1>10, <1>11

\* The hand-over: the installer works on the last attempt, another installation
\* is in the way, or the launch fails and is excused.
LEMMA LaunchStep == UpdateInv /\ Launch => UpdateInv'
<1> SUFFICES ASSUME UpdateInv, Launch PROVE UpdateInv'
  OBVIOUS
<1> USE DEF UpdateInv, Last
<1>0. /\ task.step = "launch" /\ task \in Task /\ process = "up" /\ running = installed
      /\ outcome = NoOutcome /\ Last \in 1..MaxAttempts
      /\ tries[Last].result = "none" /\ tries[Last].target = task.target
      /\ task.target \in Versions /\ task.target > running
      /\ excused \subseteq 0..Last /\ faults \in 0..MaxFaults
  <2>1. /\ task.step = "launch" /\ task # NoTask
    BY DEF Launch, NoTask
  <2>2. /\ task \in Task /\ process = "up" /\ outcome = NoOutcome
        /\ task.target \in Versions /\ task.target > running
        /\ excused \subseteq 0..Last /\ faults \in 0..MaxFaults
        /\ Last \in 0..MaxAttempts
    <3>1. process = "up" /\ task.target > running
      BY <2>1 DEF TypeOK
    <3>2. outcome = NoOutcome
      BY <3>1 DEF TypeOK
    <3>3. task \in Task /\ running \in Versions
      BY DEF TypeOK, Task
    <3>4. task.target \in Versions
      BY <3>1, <3>3 DEF Task, Versions
    <3>5. excused \subseteq 0..Last /\ faults \in 0..MaxFaults /\ Last \in 0..MaxAttempts
      BY DEF TypeOK
    <3> QED
      BY <3>1, <3>2, <3>3, <3>4, <3>5
  <2>3. running = installed /\ Last # 0
    BY <2>1, <2>2 DEF VersionInv, LastInv
  <2>4. tries[Last].result = "none" /\ tries[Last].target = task.target
    BY <2>1 DEF LastInv
  <2> QED
    BY <2>1, <2>2, <2>3, <2>4
<1>1. record.id \in 0..Last
  BY DEF TypeOK, NoRecord, Attempts
<1>2. UNCHANGED <<process, running, installed, latest, record, force_update, due,
                  recent, outcome, clock, early, waiting>>
  BY DEF Launch
<1>3. {due, recent, waiting}' \subseteq BOOLEAN
  BY <1>2 DEF TypeOK
<1>4. CASE /\ task' = [task EXCEPT !.step = "exit"] /\ UNCHANGED <<excused, faults>>
           /\ \/ /\ installer = 0 /\ installer' = Last
                 /\ tries' = [tries EXCEPT ![Last].result = "running"]
              \/ /\ installer # 0 /\ installer' = installer
                 /\ tries' = [tries EXCEPT ![Last].result = "failed"]
  <2>1. PICK result \in {"running", "failed"} :
          /\ tries' = [tries EXCEPT ![Last].result = result]
          /\ result = "running" => installer = 0 /\ installer' = Last
          /\ result = "failed" => installer # 0 /\ installer' = installer
    BY <1>4
  <2>2. /\ tries' \in Seq(Try) /\ Last' = Last
        /\ \A b \in 1..Last :
             /\ tries'[b].target = tries[b].target /\ tries'[b].at = tries[b].at
             /\ tries'[b].told = tries[b].told
             /\ tries'[b].result = IF b = Last THEN result ELSE tries[b].result
    <3>1. Last \in 1..Last /\ result \in Outcomes \union {"none", "running"}
      BY <1>0, <2>1 DEF Outcomes
    <3>2. tries' = [tries EXCEPT ![Last].result = result] /\ tries \in Seq(Try)
      BY <2>1
    <3> HIDE DEF Last, UpdateInv
    <3>3. LET t == [tries EXCEPT ![Last].result = result]
          IN  /\ t \in Seq(Try) /\ Len(t) = Last
              /\ \A b \in 1..Last :
                   /\ t[b].target = tries[b].target /\ t[b].at = tries[b].at
                   /\ t[b].told = tries[b].told
                   /\ t[b].result = IF b = Last THEN result ELSE tries[b].result
      BY <3>1, <3>2, ResultTry
    <3> QED
      BY <3>2, <3>3 DEF Last
  <2>3. /\ task' \in Task /\ task'.step = "exit" /\ task'.target = task.target
        /\ task'.by = task.by
    BY <1>0, <1>4 DEF Task, Steps
  <2>4. installer' \in 0..Last
    BY <1>0, <2>1 DEF TypeOK
  <2>5. TypeOK'
    <3>1. \A a \in 1..Last : tries'[a].at \in 0..clock
      BY <2>2 DEF TypeOK
    <3>2. \A a \in 1..Last :
            /\ tries'[a].target \in Versions /\ tries'[a].at \in 0..clock
            /\ tries'[a].result \in Outcomes \union {"none", "running"}
            /\ \A i \in 1..Len(tries'[a].told) : tries'[a].told[i] \in Reports
      BY <2>2, <3>1, TryTypes
    <3> QED
      BY <1>0, <1>2, <1>3, <1>4, <2>2, <2>3, <2>4, <3>2 DEF TypeOK, Task
  <2>6. VersionInv'
    BY <1>0, <1>2, <2>2, <2>3 DEF VersionInv
  <2>7. LastInv'
    <3>1. installer # 0 => tries[installer].result = "running" /\ installer \in 1..Last
                           /\ tries[installer].target > installed /\ installer # Last
      BY <1>0 DEF LastInv, TypeOK
    <3>2. installer' # 0 => tries'[installer'].result = "running"
                            /\ tries'[installer'].target > installed'
      BY <1>0, <1>2, <2>1, <2>2, <3>1
    <3>3. task'.step = "exit" /\ process' = "up" /\ Last' # 0 /\ installed' = installed
      BY <1>0, <1>2, <2>2, <2>3
    <3>4. Last \notin early => installer \in {0, Last}
      BY <1>0 DEF LastInv
    <3>5. tries'[Last].target = task.target /\ task.target > installed
          /\ tries'[Last].result = result /\ result # "completed"
          /\ installed \in Int /\ task.target \in Int
      BY <1>0, <2>1, <2>2 DEF TypeOK, Versions
    <3> QED
      BY <1>2, <2>1, <2>2, <3>2, <3>3, <3>4, <3>5 DEF LastInv
  <2>8. RecordInv'
    <3>1. record' = record /\ outcome' = outcome /\ installed' = installed
          /\ excused' = excused /\ task'.step = "exit" /\ Last' = Last
      BY <1>2, <1>4, <2>2, <2>3
    <3>2. record.id # 0 => record.target = tries[record.id].target
                           /\ record.started_at = tries[record.id].at
                           /\ record.id \in 1..Last
      BY <1>0, <1>1 DEF RecordInv
    <3>3. record'.id # 0 => record'.target = tries'[record'.id].target
                            /\ record'.started_at = tries'[record'.id].at
      BY <2>2, <3>1, <3>2
    <3>4. record.id # 0 /\ ~record.reported /\ record.id \notin excused =>
            record.id = Last /\ tries'[Last].told = <<>> /\ outcome = NoOutcome
      BY <1>0, <2>2 DEF RecordInv
    <3>5. Last \notin excused =>
            record.id = Last \/ (record.id = 0 /\ installed >= tries'[Last].target)
      BY <1>0, <2>2 DEF RecordInv
    <3> QED
      BY <3>1, <3>3, <3>4, <3>5 DEF RecordInv
  <2>9. ToldInv'
    BY <1>0, <1>2, <1>4, <2>1, <2>2, <2>3 DEF ToldInv, Real, LastInv
  <2> QED
    BY <2>2, <2>5, <2>6, <2>7, <2>8, <2>9
<1>5. CASE /\ Fault /\ (\E heard \in {"failed", "lost"} : tries' = Told(Last, heard))
           /\ task' = NoTask
           /\ excused' = excused \union {Last} /\ UNCHANGED installer
  <2>1. /\ tries' \in Seq(Try) /\ Last' = Last
        /\ \A b \in 1..Last :
             /\ tries'[b].target = tries[b].target /\ tries'[b].at = tries[b].at
             /\ tries'[b].result = tries[b].result
             /\ b # Last => tries'[b].told = tries[b].told
    <3>1. PICK heard \in {"failed", "lost"} : tries' = Told(Last, heard)
      BY <1>5
    <3> QED
      BY <1>0, <3>1, ToldTry DEF Outcomes, Reports
  <2>2. task' \in Task /\ task'.step = "none" /\ task'.target = 0
    BY <1>5 DEF Task, Steps, NoTask
  <2>3. faults' \in 0..MaxFaults
    BY <1>0, <1>5 DEF Fault
  <2>9. excused' \subseteq 0..Last
    <3>1. Last \in 0..Last /\ excused \subseteq 0..Last
      BY <1>0
    <3> QED
      BY <1>5, <3>1
  <2>4. TypeOK'
    <3>1. \A a \in 1..Last : tries'[a].at \in 0..clock
      BY <2>1 DEF TypeOK
    <3>2. \A a \in 1..Last :
            /\ tries'[a].target \in Versions /\ tries'[a].at \in 0..clock
            /\ tries'[a].result \in Outcomes \union {"none", "running"}
            /\ \A i \in 1..Len(tries'[a].told) : tries'[a].told[i] \in Reports
      BY <2>1, <3>1, TryTypes
    <3> QED
      BY <1>0, <1>2, <1>3, <1>5, <2>1, <2>2, <2>3, <2>9, <3>2 DEF TypeOK, Task
  <2>5. VersionInv'
    BY <1>0, <1>2, <2>1, <2>2 DEF VersionInv, TypeOK, Versions
  <2>6. LastInv'
    BY <1>0, <1>2, <1>5, <2>1, <2>2 DEF LastInv, TypeOK
  <2>7. RecordInv'
    BY <1>0, <1>2, <1>5, <1>1, <2>1, <2>2 DEF RecordInv
  <2>8. ToldInv'
    BY <1>0, <1>2, <1>5, <2>1, <2>2 DEF ToldInv, Real
  <2> QED
    BY <2>1, <2>4, <2>5, <2>6, <2>7, <2>8
<1> QED
  BY <1>4, <1>5 DEF Launch

\* The process ends, by itself or by a kill: an outcome it had taken is excused.
LEMMA EndStep ==
  ASSUME UpdateInv, Down,
         UNCHANGED <<running, installed, latest, installer, clock, tries, early>>,
         faults' \in 0..MaxFaults, record' \in {record, NoRecord},
         excused' \subseteq 0..Last, excused \subseteq excused',
         record' # record => record.id \in excused'
  PROVE  UpdateInv'
<1> USE DEF UpdateInv, Last
<1>1. {due, recent, waiting}' \subseteq BOOLEAN
  BY DEF Down
<1>2. task' \in Task /\ task'.step = "none" /\ task'.target = 0
  BY DEF Down, Task, Steps, NoTask
<1>3. NoRecord.id = 0
  BY DEF NoRecord
<1>4. record'.id \in 0..Last /\ record.id \in 0..Last /\ Last \in Nat
  BY <1>3 DEF TypeOK, Attempts
<1>5. TypeOK'
  BY <1>1, <1>2, <1>4 DEF TypeOK, Down, Task
<1>6. VersionInv'
  BY <1>2 DEF VersionInv, Down, TypeOK, Versions
<1>7. LastInv'
  BY <1>2 DEF LastInv, Down
<1>8. RecordInv'
  BY <1>2, <1>3, <1>4 DEF RecordInv, Down
<1>9. ToldInv'
  BY <1>2 DEF ToldInv, Down, Real
<1> QED
  BY <1>5, <1>6, <1>7, <1>8, <1>9

\* The installer ends: what it installs is newer than what was installed.
LEMMA InstallerStep == UpdateInv /\ (InstallerSucceeds \/ InstallerFails) => UpdateInv'
<1> SUFFICES ASSUME UpdateInv, InstallerSucceeds \/ InstallerFails PROVE UpdateInv'
  OBVIOUS
<1> DEFINE a == installer
<1>0. /\ a \in 1..Last /\ Last \in Nat /\ tries[a].result = "running"
      /\ tries[a].target > installed /\ tries[a].target \in Versions
      /\ tries \in Seq(Try) /\ installer' = 0
  BY DEF UpdateInv, TypeOK, LastInv, Last, InstallerSucceeds, InstallerFails
<1>1. PICK result \in {"completed", "failed"} :
        /\ tries' = [tries EXCEPT ![a].result = result]
        /\ result = "completed" =>
             /\ installed' = tries[a].target /\ Down
             /\ excused' = IF outcome = NoOutcome THEN excused ELSE excused \union {outcome.id}
             /\ UNCHANGED <<running, latest, record, clock, faults, early>>
        /\ result = "failed" =>
             UNCHANGED <<process, running, installed, latest, record, memory, clock,
                         faults, excused, early, waiting>>
  BY DEF InstallerSucceeds, InstallerFails
<1>2. LET t == [tries EXCEPT ![a].result = result]
      IN  /\ t \in Seq(Try) /\ Len(t) = Last
          /\ \A b \in 1..Last :
               /\ t[b].target = tries[b].target /\ t[b].at = tries[b].at
               /\ t[b].told = tries[b].told
               /\ t[b].result = IF b = a THEN result ELSE tries[b].result
  <2>1. result \in Outcomes \union {"none", "running"}
    BY DEF Outcomes
  <2> HIDE DEF a
  <2> QED
    BY <1>0, <2>1, ResultTry
<1> USE DEF UpdateInv, Last
<1>3. /\ tries' \in Seq(Try) /\ Last' = Last
      /\ \A b \in 1..Last :
           /\ tries'[b].target = tries[b].target /\ tries'[b].at = tries[b].at
           /\ tries'[b].told = tries[b].told
           /\ tries'[b].result = IF b = a THEN result ELSE tries[b].result
  BY <1>1, <1>2
<1>4. \A b \in 1..Last :
        /\ tries'[b].target \in Versions /\ tries'[b].at \in 0..clock
        /\ tries'[b].result \in Outcomes \union {"none", "running"}
        /\ \A i \in 1..Len(tries'[b].told) : tries'[b].told[i] \in Reports
  <2>1. \A b \in 1..Last : tries'[b].at \in 0..clock
    BY <1>3 DEF TypeOK
  <2> QED
    BY <1>3, <2>1, TryTypes
<1>5. record.id \in 0..Last
  BY DEF TypeOK, NoRecord, Attempts
<1>6. CASE result = "completed"
  <2>1. {due, recent, waiting}' \subseteq BOOLEAN
    BY <1>1, <1>6 DEF Down
  <2>2. task' \in Task /\ task'.step = "none" /\ task'.target = 0
    BY <1>1, <1>6 DEF Down, Task, Steps, NoTask
  <2>3. excused' \subseteq 0..Last /\ excused \subseteq excused'
    BY <1>0, <1>1, <1>6 DEF TypeOK
  <2>4. TypeOK'
    BY <1>0, <1>1, <1>3, <1>4, <1>6, <2>1, <2>2, <2>3 DEF TypeOK, Down, Task
  <2>5. VersionInv'
    <3>1. process' = "down" /\ latest' = latest
      BY <1>1, <1>6 DEF Down
    <3>2. 0 <= latest
      BY DEF TypeOK, Versions
    <3>3. \A b \in 1..Last : tries[b].target <= latest
      BY DEF VersionInv
    <3>4. \A b, c \in 1..Last :
            b <= c => tries[b].target <= tries[c].target /\ tries[b].at <= tries[c].at
      BY DEF VersionInv
    <3> QED
      BY <1>3, <2>2, <3>1, <3>2, <3>3, <3>4 DEF VersionInv
  <2>6. LastInv'
    <3>1. early' = early /\ process' = "down" /\ installed' = tries[a].target
      BY <1>1, <1>6 DEF Down
    <3>2. Last \notin early => a = Last
      BY <1>0 DEF LastInv
    <3>3. tries[a].target >= tries[a].target
      BY <1>0 DEF Versions
    <3> QED
      BY <1>0, <1>3, <1>6, <2>2, <3>1, <3>2, <3>3 DEF LastInv
  <2>7. RecordInv'
    <3>1. record' = record /\ outcome' = NoOutcome /\ process' = "down"
          /\ installed' = tries[a].target
      BY <1>1, <1>6 DEF Down
    <3>2. \A b \in 1..Last : installed >= tries[b].target => installed' >= tries[b].target
      BY <1>0, <3>1 DEF TypeOK, Versions
    <3> QED
      BY <1>0, <1>3, <1>5, <2>2, <2>3, <3>1, <3>2 DEF RecordInv
  <2>8. ToldInv'
    BY <1>0, <1>1, <1>3, <1>6, <2>2, <2>3 DEF ToldInv, Down, Real
  <2> QED
    BY <1>3, <2>4, <2>5, <2>6, <2>7, <2>8
<1>7. CASE result = "failed"
  <2>1. {due, recent, waiting}' \subseteq BOOLEAN
    BY <1>1, <1>7 DEF memory, TypeOK
  <2>2. UNCHANGED <<process, running, installed, latest, record, force_update, due,
                    recent, task, outcome, clock, faults, excused, early, waiting>>
    BY <1>1, <1>7 DEF memory
  <2>3. TypeOK'
    BY <1>0, <1>3, <1>4, <2>1, <2>2 DEF TypeOK
  <2>4. VersionInv'
    BY <1>3, <2>2 DEF VersionInv
  <2>5. LastInv'
    BY <1>0, <1>3, <1>7, <2>2 DEF LastInv, TypeOK, Versions
  <2>6. RecordInv'
    BY <1>0, <1>3, <1>5, <2>2 DEF RecordInv, Recorded, Spaced, Interactive
  <2>7. ToldInv'
    BY <1>0, <1>3, <1>7, <2>2 DEF ToldInv, Real
  <2> QED
    BY <1>3, <2>3, <2>4, <2>5, <2>6, <2>7
<1> QED
  BY <1>6, <1>7

\* The agent comes back, perhaps before the installer ended.
LEMMA StartStep == UpdateInv /\ Start => UpdateInv'
<1> SUFFICES ASSUME UpdateInv, Start PROVE UpdateInv'
  OBVIOUS
<1> USE DEF UpdateInv, Last
<1>1. UNCHANGED <<installed, latest, installer, record, force_update, due, recent,
                  task, outcome, clock, faults, tries, excused, waiting>>
  BY DEF Start, memory
<1>2. /\ process = "down" /\ process' = "starting" /\ running' = installed
      /\ task = NoTask /\ task.step = "none" /\ outcome = NoOutcome
  BY DEF Start, TypeOK, NoTask
<1>3. early' = early \union ({installer} \ {0}) /\ installer \in 0..Last /\ Last \in Nat
  BY DEF Start, TypeOK
<1>4. early' \subseteq 1..Last /\ early \subseteq early'
  BY <1>3 DEF TypeOK
<1>5. {due, recent, waiting}' \subseteq BOOLEAN
  BY <1>1 DEF TypeOK
<1>6. TypeOK'
  BY <1>1, <1>2, <1>4, <1>5 DEF TypeOK
<1>7. VersionInv'
  BY <1>1, <1>2 DEF VersionInv
<1>8. LastInv'
  BY <1>1, <1>2, <1>3 DEF LastInv
<1>9. RecordInv'
  BY <1>1, <1>2 DEF RecordInv
<1>10. ToldInv'
  BY <1>1, <1>2, <1>4 DEF ToldInv, Real
<1> QED
  BY <1>1, <1>6, <1>7, <1>8, <1>9, <1>10

\* settle_attempt: what the version tells of the last attempt is what became of it.
LEMMA TakeStep == UpdateInv /\ TakeOutcome => UpdateInv'
<1> SUFFICES ASSUME UpdateInv, TakeOutcome PROVE UpdateInv'
  OBVIOUS
<1> USE DEF UpdateInv, Last
<1>1. UNCHANGED <<process, running, installed, latest, installer, force_update, due,
                  recent, task, clock, tries, early, waiting>>
  BY DEF TakeOutcome
<1>2. /\ process = "starting" /\ running = installed /\ outcome = NoOutcome
      /\ record.id # 0 /\ ~record.reported /\ record.id \in 1..Last /\ Last \in Nat
      /\ task = NoTask /\ task.step = "none"
  BY DEF TakeOutcome, TypeOK, VersionInv, NoRecord, NoTask, Attempts
<1>3. /\ outcome'.id = record.id /\ outcome'.what = Settled
      /\ outcome' \in [id : 1..Last, what : Outcomes] /\ outcome' # NoOutcome
  BY <1>2 DEF TakeOutcome, Settled, Outcomes, NoOutcome
<1>4. /\ record' \in {record, NoRecord, [record EXCEPT !.reported = TRUE]}
      /\ \/ record' = Kept /\ excused' = excused /\ faults' = faults
         \/ /\ record' \in {record, NoRecord} /\ excused' = excused \union {record.id}
            /\ faults' \in 0..MaxFaults
  BY DEF TakeOutcome, Kept, Fault, TypeOK
<1>5. /\ record \in [id : Attempts, target : Versions, started_at : 0..MaxClock,
                     reported : BOOLEAN]
      /\ NoRecord.id = 0
  BY <1>2 DEF TypeOK, NoRecord
<1>6. /\ [record EXCEPT !.reported = TRUE].id = record.id
      /\ [record EXCEPT !.reported = TRUE].target = record.target
      /\ [record EXCEPT !.reported = TRUE].started_at = record.started_at
      /\ [record EXCEPT !.reported = TRUE].reported
      /\ [record EXCEPT !.reported = TRUE] \in
           [id : Attempts, target : Versions, started_at : 0..MaxClock, reported : BOOLEAN]
  BY <1>5
<1>7. excused \subseteq excused' /\ excused' \subseteq 0..Last /\ faults' \in 0..MaxFaults
  BY <1>2, <1>4 DEF TypeOK
<1>8. {due, recent, waiting}' \subseteq BOOLEAN
  BY <1>1 DEF TypeOK
<1>9. TypeOK'
  <2>1. record'.id <= Last
    BY <1>2, <1>4, <1>5, <1>6
  <2>2. record' \in {NoRecord} \union [id : Attempts, target : Versions,
                                      started_at : 0..MaxClock, reported : BOOLEAN]
    BY <1>4, <1>5, <1>6
  <2> QED
    BY <1>1, <1>2, <1>3, <1>7, <1>8, <2>1, <2>2 DEF TypeOK
<1>10. VersionInv'
  BY <1>1, <1>2 DEF VersionInv
<1>11. LastInv'
  BY <1>1, <1>2 DEF LastInv
<1>12. record.id \notin excused =>
         record.id = Last /\ tries[Last].told = <<>> /\ record.target = tries[Last].target
  BY <1>2 DEF RecordInv
<1>13. RecordInv'
  <2>1. record'.id # 0 => /\ record'.id = record.id
                          /\ record'.target = record.target
                          /\ record'.started_at = record.started_at
    BY <1>4, <1>5, <1>6
  <2>2. record'.id # 0 /\ ~record'.reported => record'.id \in excused'
    BY <1>2, <1>4, <1>5, <1>6 DEF Kept
  <2>3. ASSUME Last \notin excused'
        PROVE  record'.id = Last \/ (record'.id = 0 /\ installed >= tries[Last].target)
    <3>1. record.id = Last
      BY <1>2, <1>7, <2>3 DEF RecordInv
    <3>2. record' = Kept /\ record.target = tries[Last].target
      BY <1>4, <1>7, <1>12, <2>3, <3>1
    <3> QED
      BY <1>2, <1>5, <1>6, <3>1, <3>2 DEF Kept, Settled
  <2> QED
    BY <1>1, <1>2, <2>1, <2>2, <2>3 DEF RecordInv
<1>14. ToldInv'
  <2>1. ASSUME record.id \notin excused \union early
        PROVE  Settled = Real(Last) /\ installer # Last
    <3>1. record.id = Last /\ record.target = tries[Last].target
      BY <1>12, <2>1
    <3>2. installer \in {0} \union early
      BY <1>2 DEF LastInv
    <3>3. tries[Last].result = "completed" <=> installed >= tries[Last].target
      BY <1>2, <2>1, <3>1 DEF LastInv
    <3> QED
      BY <1>2, <2>1, <3>1, <3>2, <3>3 DEF Settled, Real
  <2> QED
    BY <1>1, <1>2, <1>3, <1>7, <1>12, <2>1 DEF ToldInv, Real
<1> QED
  BY <1>1, <1>9, <1>10, <1>11, <1>13, <1>14

\* The outcome taken is reported, and the main loop starts.
LEMMA ReportStep == UpdateInv /\ Report => UpdateInv'
<1> SUFFICES ASSUME UpdateInv, Report PROVE UpdateInv'
  OBVIOUS
<1>1. /\ process = "starting" /\ process' = "up" /\ outcome' = NoOutcome
      /\ task = NoTask /\ task.step = "none"
      /\ UNCHANGED <<running, installed, latest, installer, record, force_update,
                     recent, task, clock, excused, early, waiting>>
  BY DEF Report, UpdateInv, TypeOK, NoTask
<1>2. outcome = NoOutcome \/ (outcome.id \in 1..Last /\ outcome.what \in Outcomes)
  BY DEF UpdateInv, TypeOK, Last
<1>h. PICK heard \in {outcome.what, "lost"} :
        IF outcome = NoOutcome THEN tries' = tries ELSE tries' = Told(outcome.id, heard)
  BY DEF Report, Delivered, NotDelivered
<1>3. /\ tries' \in Seq(Try) /\ Len(tries') = Last
      /\ \A b \in 1..Last :
           /\ tries'[b].target = tries[b].target /\ tries'[b].at = tries[b].at
           /\ tries'[b].result = tries[b].result
           /\ tries'[b].told = IF outcome # NoOutcome /\ b = outcome.id
                               THEN Append(tries[b].told, heard)
                               ELSE tries[b].told
  <2>1. tries \in Seq(Try)
    BY DEF UpdateInv
  <2>2. CASE outcome # NoOutcome /\ tries' = Told(outcome.id, heard)
    BY <1>2, <1>h, <2>1, <2>2, ToldTry DEF Reports
  <2>3. CASE outcome = NoOutcome /\ tries' = tries
    BY <2>1, <2>3 DEF Last
  <2> QED
    BY <1>h, <2>2, <2>3
<1>4. outcome = NoOutcome => record.id = 0 \/ record.reported
  BY DEF Report
<1> USE DEF UpdateInv, Last
<1>5. TypeOK'
  <2>1. {due, recent, waiting}' \subseteq BOOLEAN
    BY <1>1 DEF TypeOK, Report
  <2>0. faults' \in 0..MaxFaults
    BY DEF TypeOK, Report, Delivered, NotDelivered, Fault
  <2>2. \A b \in 1..Last : tries'[b].at \in 0..clock
    BY <1>3 DEF TypeOK
  <2>3. \A b \in 1..Last :
          /\ tries'[b].target \in Versions /\ tries'[b].at \in 0..clock
          /\ tries'[b].result \in Outcomes \union {"none", "running"}
          /\ \A i \in 1..Len(tries'[b].told) : tries'[b].told[i] \in Reports
    BY <1>3, <2>2, TryTypes
  <2> QED
    BY <1>1, <1>3, <2>0, <2>1, <2>3 DEF TypeOK
<1>6. VersionInv'
  BY <1>1, <1>3 DEF VersionInv
<1>7. LastInv'
  BY <1>1, <1>3 DEF LastInv, TypeOK
<1>8. RecordInv'
  <2>1. record.id \in 0..Last
    BY DEF TypeOK, NoRecord, Attempts
  <2>2. record.id # 0 /\ ~record.reported => record.id \in excused
    BY <1>4 DEF RecordInv
  <2> QED
    BY <1>1, <1>3, <2>1, <2>2 DEF RecordInv
<1>9. ToldInv'
  <2>1. Append(<<>>, heard) = <<heard>> /\ <<heard>> # <<>>
    OBVIOUS
  <2>2. \A b \in 1..Last \ (excused \union early) :
          outcome # NoOutcome /\ b = outcome.id =>
            tries'[b].told \in {<<"lost">>, <<Real(b)>>} /\ installer # b
    <3> SUFFICES ASSUME NEW b \in 1..Last \ (excused \union early),
                        outcome # NoOutcome, b = outcome.id
                 PROVE  tries'[b].told \in {<<"lost">>, <<Real(b)>>} /\ installer # b
      OBVIOUS
    <3>1. /\ b = Last /\ outcome.what = Real(b)
          /\ tries[b].told = <<>> /\ installer # b
      BY DEF ToldInv
    <3>2. tries'[b].told = Append(<<>>, heard)
      BY <1>3, <3>1
    <3> QED
      BY <2>1, <3>1, <3>2
  <2> QED
    BY <1>1, <1>3, <2>2 DEF ToldInv, Real
<1> QED
  BY <1>3, <1>5, <1>6, <1>7, <1>8, <1>9

LEMMA UpdateStep == UpdateInv /\ [Next]_vars => UpdateInv'
<1> SUFFICES ASSUME UpdateInv, [Next]_vars PROVE UpdateInv'
  OBVIOUS
<1>0. /\ {due, recent, waiting} \subseteq BOOLEAN
      /\ force_update \in {"no", "person", "platform"}
      /\ clock \in 0..MaxClock /\ latest \in Versions /\ task \in Task
      /\ faults \in 0..MaxFaults /\ excused \subseteq 0..Last /\ Last \in Nat
      /\ record.id \in 0..Last /\ latest <= latest /\ clock <= clock
  BY DEF UpdateInv, TypeOK, Task, Last, NoRecord, Attempts, Versions
<1>1. CASE Ask \/ Signal
  BY <1>0, <1>1, QuietStep DEF Ask, Signal, Request
<1>2. CASE Publish
  <2>1. latest' \in Versions /\ latest' >= latest
    BY <1>0, <1>2 DEF Publish, Versions
  <2> QED
    BY <1>0, <1>2, <2>1, QuietStep DEF Publish, memory, history
<1>3. CASE Tick
  <2>1. clock' \in 0..MaxClock /\ clock' >= clock /\ due' \in BOOLEAN
    BY <1>0, <1>3 DEF Tick
  <2> QED
    BY <1>0, <1>3, <2>1, QuietStep DEF Tick, history
<1>4. CASE CoolDown
  BY <1>0, <1>4, QuietStep DEF CoolDown, history
<1>5. CASE UpdateStage
  <2>1. PICK by \in {"person", "platform", "schedule"} : Spawn(by)
    BY <1>0, <1>5 DEF UpdateStage
  <2>2. task' \in Task /\ task'.step = "check" /\ task'.target = 0 /\ task.step = "none"
    BY <1>5, <2>1 DEF Spawn, Task, Steps, UpdateStage, NoTask
  <2>3. {due', recent', waiting'} \subseteq BOOLEAN
    BY <1>0, <1>5 DEF UpdateStage
  <2> QED
    BY <1>0, <1>5, <2>2, <2>3, QuietStep DEF UpdateStage
<1>6. CASE Check
  BY <1>6, CheckStep
<1>7. CASE Refuse
  <2>1. task' = NoTask /\ task' \in Task /\ task'.step = "none" /\ task'.target = 0
    BY <1>7 DEF Refuse, NoTask, Task, Steps
  <2> QED
    BY <1>0, <1>7, <2>1, QuietStep DEF Refuse, history
<1>8. CASE RecordAttempt
  BY <1>8, RecordStep
<1>9. CASE Launch
  BY <1>9, LaunchStep
<1>10. CASE Exit
  BY <1>0, <1>10, EndStep DEF Exit
<1>11. CASE InstallerSucceeds \/ InstallerFails
  BY <1>11, InstallerStep
<1>12. CASE Start
  BY <1>12, StartStep
<1>13. CASE TakeOutcome
  BY <1>13, TakeStep
<1>14. CASE Report
  BY <1>14, ReportStep
<1>15. CASE Crash
  <2>1. outcome.id \in 0..Last
    BY DEF UpdateInv, TypeOK, Last, NoOutcome
  <2>2. excused' \subseteq 0..Last /\ excused \subseteq excused'
    BY <1>0, <1>15, <2>1 DEF Crash
  <2>3. faults' \in 0..MaxFaults
    BY <1>0, <1>15 DEF Crash, Fault
  <2>4. record' \in {record, NoRecord}
    BY <1>15 DEF Crash
  <2>5. record' # record => record.id \in excused'
    <3>1. CASE record.id # 0
      BY <1>15, <2>4, <3>1 DEF Crash, NoRecord
    <3>2. CASE record.id = 0
      BY <2>4, <3>2 DEF UpdateInv, TypeOK, Attempts
    <3> QED
      BY <3>1, <3>2
  <2> QED
    BY <1>0, <1>15, <2>2, <2>3, <2>4, <2>5, EndStep DEF Crash
<1>16. CASE UNCHANGED vars
  BY <1>0, <1>16, QuietStep DEF vars
<1> QED
  BY <1>1, <1>2, <1>3, <1>4, <1>5, <1>6, <1>7, <1>8, <1>9, <1>10, <1>11, <1>12,
     <1>13, <1>14, <1>15, <1>16
  DEF Next

-----------------------------------------------------------------------------
(* The theorems *)

\* Every reachable state is well typed; in particular a task past its check has
\* a newer version to install, and an outcome is only held during startup.
THEOREM TypeCorrect == Spec => []TypeOK
<1>1. UpdateInv => TypeOK
  BY DEF UpdateInv
<1> QED
  BY <1>1, UpdateInit, UpdateStep, PTL DEF Spec

\* settle_attempt and take_outcome: an attempt that no failure hit and whose
\* installer ended before the agent came back has its real outcome sent, and once
\* at most, be the report lost or not, for any number of restarts, releases and
\* later attempts.
THEOREM RealOutcomesOnly == Spec => []RealOutcomeOnce
<1>1. UpdateInv => RealOutcomeOnce
  BY DEF UpdateInv, ToldInv, RealOutcomeOnce, Real, Last
<1> QED
  BY <1>1, UpdateInit, UpdateStep, PTL DEF Spec

\* retry_delayed: for any delay, no scheduled check hands a version over within
\* it of an earlier attempt at that version the record still speaks for.
THEOREM RetriesSpaced == Spec => ScheduledRetriesSpaced
<1>1. UpdateInv /\ [Next]_vars =>
        [(HandedOver /\ ~Interactive) =>
           \A a \in Recorded : tries[a].target = task.target => Spaced(a)]_vars
  BY DEF UpdateInv, RecordInv, HandedOver
<1> QED
  BY <1>1, UpdateInit, UpdateStep, PTL DEF Spec, ScheduledRetriesSpaced
=============================================================================
