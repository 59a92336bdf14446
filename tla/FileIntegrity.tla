--------------------------- MODULE FileIntegrity ---------------------------
(***************************************************************************)
(* File integrity monitoring (agent-fim: lib.rs, baseline.rs, watcher.rs,  *)
(* store.rs; main_loop/fim.rs). A baseline records every watched file; a   *)
(* watcher thread and full scans read the files against it, record what    *)
(* they find and report it through a bounded channel the main loop reads.  *)
(* The baseline is saved, so that what changes while the agent is stopped  *)
(* is found at the next start. A new policy stops the watcher and the      *)
(* periodic task of one generation and starts those of the next.           *)
(*                                                                         *)
(* A file's hash, permissions and owner are one version number, drawn from *)
(* a counter of all changes; a rewrite with the same bytes, the kept       *)
(* contents of text files, files that cannot be read and the limits on the *)
(* number of files are left out. The operating system may report a change  *)
(* or not. A path whose event is debounced or came before the first scan   *)
(* ended is read later: it stays among the paths to read.                  *)
(***************************************************************************)
EXTENDS Integers, FiniteSets

CONSTANTS
  Files,
  Present,       \* the files there before the agent first starts
  Policies,      \* [roots, ignored]: the files below the watched paths, those excluded
  LocalPolicy,   \* the policy of the configuration file
  AlertCapacity, \* mpsc::channel(1000)
  MaxEvents,     \* bound: changes of files, kills and failed saves
  MaxStarts,     \* bound: starts of the engine, by a new process or a new policy
  MaxRescans,    \* bound: periodic scans
  MaxWork        \* bound: all of these together

None == -1

ASSUME FimAssumption ==
  /\ Present \subseteq Files /\ None \notin Files
  /\ Policies \subseteq [roots : SUBSET Files, ignored : SUBSET Files]
  /\ LocalPolicy \in Policies
  /\ AlertCapacity \in Nat \ {0} /\ MaxStarts \in Nat \ {0}
  /\ MaxEvents \in Nat /\ MaxRescans \in Nat /\ MaxWork \in Nat

VARIABLES
  disk,     \* each file: its version, and whether it is there
  process,  \* "up" or "down"
  caller,   \* the call of the engine under way: by the startup, then by a heartbeat
  gen,      \* the generation in force
  gens,     \* each generation: its policy, its shutdown and ready flags
  baseline, \* the version recorded of each file, or None
  unmarked, \* entries changed by a thread that has not marked the baseline yet
  dirty,    \* the baseline is marked: it changed since it was last saved
  coverage, \* the policy the baseline was built from
  watcher,  \* each generation's event loop, and the paths it has to read
  scan,     \* each generation's scan in progress
  task,     \* each generation's periodic task
  taking,   \* saves that took the mark and have not opened their file yet
  saver,    \* snapshots being saved: the caller's (0) and the periodic tasks'
  tmp,      \* the saves that opened the file now named baseline.json.tmp
  saved,    \* baseline.json
  overtaken, \* history: an older snapshot may be saved over a newer one
  sending,  \* alerts of scans waiting for room in the channel
  channel,  \* alerts the main loop has not read
  changes, starts, faults, rescans,
  told,     \* history: the newest state of each file the main loop knows
  excused   \* history: files of which a change may be lost

engine == <<caller, gen, gens>>
records == <<baseline, unmarked, dirty, coverage>>
saves == <<taking, saver, tmp, saved, overtaken>>
alerts == <<sending, channel>>
bounds == <<changes, starts, faults, rescans>>
history == <<told, excused>>
vars == <<disk, process, caller, gen, gens, baseline, unmarked, dirty, coverage,
          watcher, scan, task, taking, saver, tmp, saved, overtaken, sending,
          channel, changes, starts, faults, rescans, told, excused>>

Versions == 0..MaxEvents
Gens == 1..MaxStarts
Savers == 0..MaxStarts

FileStates == [ver : Versions, here : BOOLEAN]

\* A file of which nothing is known.
Unknown == [ver |-> None, here |-> FALSE]

NoPolicy == [roots |-> {}, ignored |-> {}]
NoCoverage == [roots |-> {None}, ignored |-> {}]
Entries == [Files -> Versions \cup {None}]
Snapshots == [coverage : Policies \cup {NoPolicy}, entries : Entries]

\* No saved baseline, or one load refuses; nothing being saved.
NoSnapshot == [coverage |-> NoCoverage, entries |-> [f \in Files |-> None]]

\* What a scan read of a file and has not recorded yet.
NotReading == [path |-> None, state |-> Unknown]

Alerts == [path : Files, state : FileStates]
Finds == [path : Files, state : FileStates, created : BOOLEAN]

\* An entry changed and not marked yet: by a watcher that read the file, by a
\* scan that did, or by one that drops the entry. gen: whose thread.
Unmarked == [by : {"watcher", "scan", "drop"}, gen : Gens, path : Files,
             state : FileStates]

\* A scan: the coverage it began with, what it has to read, met and found, and
\* the changes made before it.
Scans ==
  [step : {"idle", "waiting", "walk", "sweep"},
   previous : Policies \cup {NoPolicy, NoCoverage},
   todo : SUBSET Files, visited : SUBSET Files,
   found : SUBSET Finds, reading : Alerts \cup {NotReading},
   since : Versions]

Generations == [policy : Policies \cup {NoPolicy}, shutdown : BOOLEAN, ready : BOOLEAN]
NoGen == [policy |-> NoPolicy, shutdown |-> TRUE, ready |-> FALSE]
NoWatcher == [step |-> "none", paths |-> {}]
NoScan == [step |-> "idle", previous |-> NoCoverage, todo |-> {}, visited |-> {},
           found |-> {}, reading |-> NotReading, since |-> 0]

Covered(p) == p.roots \ p.ignored

KnewNothing(previous, now, f) == FALSE

\* Coverage::knew, for a file of a scan under policy now.
Knew(previous, now, f) ==
  previous.ignored = now.ignored /\ f \in previous.roots

\* What a baseline entry says of its file.
Entry(s) == IF s.here THEN s.ver ELSE None

SameState(s, t) == s = t \/ (~s.here /\ ~t.here)
Newer(s, t) == IF s.ver > t.ver THEN s ELSE t

Init ==
  /\ disk = [f \in Files |-> [ver |-> 0, here |-> f \in Present]]
  /\ process = "down" /\ caller = "none" /\ gen = 0
  /\ gens = [g \in Gens |-> NoGen]
  /\ baseline = [f \in Files |-> None] /\ unmarked = {} /\ dirty = FALSE
  /\ coverage = NoCoverage
  /\ watcher = [g \in Gens |-> NoWatcher]
  /\ scan = [g \in Gens |-> NoScan]
  /\ task = [g \in Gens |-> "none"]
  /\ taking = {} /\ overtaken = FALSE
  /\ saver = [s \in Savers |-> NoSnapshot] /\ tmp = {} /\ saved = NoSnapshot
  /\ sending = {} /\ channel = {}
  /\ changes = 0 /\ starts = 0 /\ faults = 0 /\ rescans = 0
  /\ told = [f \in Files |-> Unknown]
  /\ excused = {}

\* Every two of the bounded steps meet in a run, not all of them at their most:
\* starts, periodic scans, changes and faults share one bound.
MoreWork == starts + rescans + changes + faults < MaxWork

-----------------------------------------------------------------------------
(* The files, and what the operating system reports of them *)

Watching(g, f) == watcher[g].step = "loop" /\ f \in gens[g].policy.roots

\* Somebody creates, changes or removes a file. Each watch on it may get an
\* event, or not (overflow of the event queue, a path replaced as a whole).
Change(f) ==
  /\ MoreWork /\ changes + faults < MaxEvents
  /\ \E here \in BOOLEAN :
       /\ disk[f].here \/ here
       /\ disk' = [disk EXCEPT ![f] = [ver |-> changes + 1, here |-> here]]
  /\ \E seen \in SUBSET {g \in Gens : Watching(g, f)} :
       watcher' = [g \in Gens |->
         IF g \in seen THEN [watcher[g] EXCEPT !.paths = @ \cup {f}] ELSE watcher[g]]
  /\ changes' = changes + 1
  /\ UNCHANGED <<process, engine, records, scan, task, saves, alerts, starts,
                 faults, rescans, history>>

-----------------------------------------------------------------------------
(* Reading one file: BaselineManager::observe_key *)

ApplyUnlocked == TRUE

\* The apply lock: nobody is between reading a file and marking the baseline for
\* it. An entry that is only dropped is not under the lock.
ApplyFree ==
  /\ \A g \in Gens : scan[g].reading = NotReading
  /\ \A m \in unmarked : m.by = "drop"

\* Whether state s of file f differs from its entry, and the entries with it.
Differs(f, s) == Entry(s) # baseline[f]
Recorded(f, s) ==
  IF Differs(f, s) THEN [baseline EXCEPT ![f] = Entry(s)] ELSE baseline

\* The entry changes first, the mark comes later: the kept contents of the file
\* are compared and written in between, under the apply lock.
ToMark(by, g, f, s) ==
  unmarked' = unmarked \cup
    (IF Differs(f, s) THEN {[by |-> by, gen |-> g, path |-> f, state |-> s]} ELSE {})

\* What the thread of a watcher, and that of a scan, has still to mark.
NotedBy(g) == {m \in unmarked : m.by = "watcher" /\ m.gen = g}
FoundBy(g) == {m \in unmarked : m.by # "watcher" /\ m.gen = g}

-----------------------------------------------------------------------------
(* The watcher thread of a generation *)

\* watch_files has registered its watches; start spawns it, and the scan does
\* not wait for it.
WatcherStarts(g) ==
  /\ watcher[g].step = "spawned"
  /\ watcher' = [watcher EXCEPT ![g].step = "loop"]
  /\ UNCHANGED <<disk, process, engine, records, scan, task, saves, alerts,
                 bounds, history>>

\* The shutdown flag is looked at between two events.
WatcherEnds(g) ==
  /\ watcher[g].step = "loop" /\ gens[g].shutdown /\ NotedBy(g) = {}
  /\ watcher' = [watcher EXCEPT ![g] = NoWatcher]
  /\ UNCHANGED <<disk, process, engine, records, scan, task, saves, alerts,
                 bounds, history>>

\* EventLoop::handle, targets: an excluded path, or one that is not there and
\* has no entry. The entry is looked up without the apply lock.
WatcherSkips(g, f) ==
  /\ f \in watcher[g].paths /\ NotedBy(g) = {}
  /\ f \in gens[g].policy.ignored \/ (~disk[f].here /\ baseline[f] = None)
  /\ watcher' = [watcher EXCEPT ![g].paths = @ \ {f}]
  /\ UNCHANGED <<disk, process, engine, records, scan, task, saves, alerts,
                 bounds, history>>

TrySendAnyway(a) == channel' = channel \cup {a} /\ UNCHANGED excused

\* try_send: an alert that finds the channel full is dropped.
TrySend(a) ==
  IF Cardinality(channel) < AlertCapacity
  THEN channel' = channel \cup {a} /\ UNCHANGED excused
  ELSE excused' = excused \cup {a.path} /\ UNCHANGED channel

\* EventLoop::read, of an event or of a path that was waiting: the apply lock is
\* taken, the file read and its entry changed...
WatcherReads(g, f) ==
  /\ f \in watcher[g].paths \ gens[g].policy.ignored
  /\ gens[g].ready /\ ApplyFree
  /\ watcher' = [watcher EXCEPT ![g].paths = @ \ {f}]
  /\ baseline' = Recorded(f, disk[f])
  /\ ToMark("watcher", g, f, disk[f])
  /\ UNCHANGED <<disk, process, engine, dirty, coverage, scan, task, saves, alerts,
                 bounds, history>>

\* ... then the baseline marked, the lock released and the alert sent.
WatcherMarks(m) ==
  /\ m \in unmarked /\ m.by = "watcher"
  /\ unmarked' = unmarked \ {m} /\ dirty' = TRUE
  /\ TrySend([path |-> m.path, state |-> m.state])
  /\ UNCHANGED <<disk, process, engine, baseline, coverage, watcher, scan, task,
                 saves, sending, bounds, told>>

-----------------------------------------------------------------------------
(* A full scan: Scanner::scan and BaselineManager::scan *)

\* The coverage is read before the scanning lock is waited for.
StartedScan == [NoScan EXCEPT !.step = "waiting", !.previous = coverage]

ReadAll(g) == scan[g].todo = {} /\ scan[g].reading = NotReading /\ FoundBy(g) = {}
Swept(g) == scan[g].step = "sweep" /\ ReadAll(g)

\* The scanning lock is held until the sweep has nothing left to read.
ScanLock(g) ==
  /\ scan[g].step = "waiting"
  /\ \A h \in Gens : scan[h].step \in {"walk", "sweep"} => Swept(h)
  /\ scan' = [scan EXCEPT ![g].step = "walk", ![g].todo = Covered(gens[g].policy),
                          ![g].since = changes]
  /\ UNCHANGED <<disk, process, engine, records, watcher, task, saves, alerts,
                 bounds, history>>

\* The walk meets the files that are there; the sweep reads the entries of
\* watched files the walk did not meet.
ScanReads(g, f) ==
  /\ f \in scan[g].todo /\ scan[g].reading = NotReading /\ FoundBy(g) = {}
  /\ \/ scan[g].step = "walk" /\ disk[f].here
     \/ scan[g].step = "sweep" /\ f \in Covered(gens[g].policy)
  /\ ApplyFree
  /\ scan' = [scan EXCEPT ![g].todo = @ \ {f},
       ![g].visited = IF scan[g].step = "walk" THEN @ \cup {f} ELSE @,
       ![g].reading = [path |-> f, state |-> disk[f]]]
  /\ UNCHANGED <<disk, process, engine, records, watcher, task, saves, alerts,
                 bounds, history>>

WalkMisses(g, f) ==
  /\ scan[g].step = "walk" /\ f \in scan[g].todo /\ ~disk[f].here
  /\ scan[g].reading = NotReading /\ FoundBy(g) = {}
  /\ scan' = [scan EXCEPT ![g].todo = @ \ {f}]
  /\ UNCHANGED <<disk, process, engine, records, watcher, task, saves, alerts,
                 bounds, history>>

ScanRecords(g) ==
  LET f == scan[g].reading.path
      s == scan[g].reading.state IN
  /\ scan[g].reading # NotReading
  /\ baseline' = Recorded(f, s)
  /\ ToMark("scan", g, f, s)
  /\ scan' = [scan EXCEPT ![g].reading = NotReading,
       ![g].found = IF Differs(f, s)
                    THEN @ \cup {[path |-> f, state |-> s,
                                  created |-> baseline[f] = None]}
                    ELSE @]
  /\ UNCHANGED <<disk, process, engine, dirty, coverage, watcher, task, saves,
                 alerts, bounds, history>>

\* The scan marks the baseline for the entry it changed or dropped.
ScanMarks(m) ==
  /\ m \in unmarked /\ m.by # "watcher"
  /\ unmarked' = unmarked \ {m} /\ dirty' = TRUE
  /\ UNCHANGED <<disk, process, engine, baseline, coverage, watcher, scan, task,
                 saves, alerts, bounds, history>>

UnvisitedNone(g) == {}

Unvisited(g) == {f \in Files : baseline[f] # None} \ scan[g].visited

Sweep(g) ==
  /\ scan[g].step = "walk" /\ ReadAll(g)
  /\ scan' = [scan EXCEPT ![g].step = "sweep", ![g].todo = Unvisited(g),
                          ![g].visited = {}]
  /\ UNCHANGED <<disk, process, engine, records, watcher, task, saves, alerts,
                 bounds, history>>

\* The entry of a file no longer watched is dropped without a word: watched
\* again, the file is adopted as it then is. A scan of a former policy may do so
\* after the first scan of the one in force.
SweepDrops(g, f) ==
  /\ scan[g].step = "sweep" /\ f \in scan[g].todo \ Covered(gens[g].policy)
  /\ scan[g].reading = NotReading /\ FoundBy(g) = {}
  /\ baseline' = [baseline EXCEPT ![f] = None]
  /\ ToMark("drop", g, f, [disk[f] EXCEPT !.here = FALSE])
  /\ scan' = [scan EXCEPT ![g].todo = @ \ {f}]
  /\ excused' = excused \cup {f}
  /\ UNCHANGED <<disk, process, engine, dirty, coverage, watcher, task, saves,
                 alerts, bounds, told>>

\* Without a previous baseline nothing is reported; a created file is only
\* where the previous baseline looked.
Said(g) ==
  {c \in scan[g].found :
     /\ scan[g].previous # NoCoverage
     /\ c.created => Knew(scan[g].previous, gens[g].policy, c.path)}

\* History: what a scan finds where the watched paths changed, or at the first
\* baseline, is known without an alert. Under an unchanged policy it is not.
Adopted(g) ==
  IF scan[g].previous = gens[g].policy THEN {} ELSE scan[g].found \ Said(g)

\* The end of Scanner::scan. The alerts are handed to a task that waits for
\* room in the channel.
ScanReport(g) ==
  /\ Swept(g)
  /\ sending' = sending \cup {[path |-> c.path, state |-> c.state] : c \in Said(g)}
  /\ coverage' = gens[g].policy
  /\ told' = [f \in Files |->
       IF \E c \in Adopted(g) : c.path = f
       THEN Newer((CHOOSE c \in Adopted(g) : c.path = f).state, told[f])
       ELSE told[f]]
  /\ scan' = [scan EXCEPT ![g] = NoScan]

-----------------------------------------------------------------------------
(* Saving: Scanner::save_if_changed and store::save *)

Snapshot(c) == [coverage |-> IF c = NoCoverage THEN NoPolicy ELSE c,
                entries |-> baseline]

Saves(s) == s \in taking \/ saver[s] # NoSnapshot

\* take_dirty: the mark is taken...
SaveIfChanged(s) ==
  /\ taking' = IF dirty THEN taking \cup {s} ELSE taking
  /\ dirty' = FALSE
  /\ overtaken' = (overtaken /\ (dirty => \E t \in Savers : Saves(t)))
  /\ UNCHANGED <<saver, tmp>>

\* ... then the snapshot is collected, without the apply lock...
SaveCollects(s) ==
  /\ s \in taking /\ saver[s] = NoSnapshot
  /\ saver' = [saver EXCEPT ![s] = Snapshot(coverage)]
  /\ UNCHANGED <<disk, process, engine, records, watcher, scan, task, taking, tmp,
                 saved, overtaken, alerts, bounds, history>>

\* ... and the temporary file, whose name every save shares, created or truncated.
SaveOpens(s) ==
  /\ s \in taking /\ saver[s] # NoSnapshot
  /\ taking' = taking \ {s}
  /\ tmp' = tmp \cup {s}
  /\ UNCHANGED <<disk, process, engine, records, watcher, scan, task, saver, saved,
                 overtaken, alerts, bounds, history>>

Awake(g) == IF gens[g].shutdown THEN "none" ELSE "awake"
Sleeps(g) == IF gens[g].shutdown THEN "none" ELSE "sleep"

\* What follows the save of s: start spawns the periodic task, the periodic
\* task sleeps, stop returns.
AfterSave(s) ==
  /\ caller' = IF s = 0 /\ caller = "started" THEN "idle" ELSE caller
  /\ task' = CASE s # 0 -> [task EXCEPT ![s] = Sleeps(s)]
             [] s = 0 /\ caller = "started" -> [task EXCEPT ![gen] = "sleep"]
             [] OTHER -> task

\* What baseline.json holds once s moved the temporary file over it: its
\* snapshot, or, where another save was writing to the same file, either
\* snapshot or a mixture.
Installed(s) ==
  IF tmp = {s} THEN {saver[s]} ELSE {NoSnapshot} \cup {saver[t] : t \in tmp}

DirtyOnlyIfFailed == tmp = {}

\* A save that failed sets the dirty flag again; the move fails when another
\* save has moved the file already.
DirtyAfterRename == dirty \/ tmp = {}

\* History: another save has collected its snapshot and not opened the file.
Overtakes == tmp # {} /\ \E t \in taking : saver[t] # NoSnapshot

Rename(s) ==
  /\ saver[s] # NoSnapshot /\ s \notin taking
  /\ overtaken' = (overtaken \/ Overtakes)
  /\ IF tmp = {} THEN UNCHANGED saved ELSE saved' \in Installed(s)
  /\ dirty' = DirtyAfterRename
  /\ tmp' = {}
  /\ saver' = [saver EXCEPT ![s] = NoSnapshot]
  /\ AfterSave(s)
  /\ UNCHANGED <<disk, process, gen, gens, baseline, unmarked, coverage, watcher,
                 scan, taking, alerts, bounds, history>>

\* The file cannot be created or written (disk full); it is removed.
SaveFails(s) ==
  /\ saver[s] # NoSnapshot /\ MoreWork /\ changes + faults < MaxEvents
  /\ faults' = faults + 1
  /\ dirty' = TRUE
  /\ taking' = taking \ {s} /\ tmp' = {}
  /\ saver' = [saver EXCEPT ![s] = NoSnapshot]
  /\ AfterSave(s)
  /\ UNCHANGED <<disk, process, gen, gens, baseline, unmarked, coverage, watcher,
                 scan, saved, overtaken, alerts, changes, starts, rescans, history>>

-----------------------------------------------------------------------------
(* The periodic task of a generation. Whenever it wakes up or has scanned it *)
(* looks at its shutdown flag: a task stopped while it sleeps does no more,  *)
(* one stopped after it looked still saves.                                  *)

PeriodicWakes(g) ==
  /\ task[g] = "sleep"
  /\ task' = [task EXCEPT ![g] = "awake"]
  /\ UNCHANGED <<disk, process, engine, records, watcher, scan, saves, alerts,
                 bounds, history>>

PeriodicScan(g) ==
  /\ task[g] = "sleep" /\ MoreWork /\ rescans < MaxRescans
  /\ rescans' = rescans + 1
  /\ task' = [task EXCEPT ![g] = "scanning"]
  /\ scan' = [scan EXCEPT ![g] = StartedScan]
  /\ UNCHANGED <<disk, process, engine, records, watcher, saves, alerts, changes,
                 starts, faults, history>>

PeriodicScanEnds(g) ==
  /\ task[g] = "scanning" /\ ScanReport(g)
  /\ task' = [task EXCEPT ![g] = Awake(g)]
  /\ UNCHANGED <<disk, process, engine, baseline, unmarked, dirty, watcher, saves,
                 channel, bounds, excused>>

PeriodicSave(g) ==
  /\ task[g] = "awake"
  /\ task' = [task EXCEPT ![g] = IF dirty THEN "saving" ELSE Sleeps(g)]
  /\ SaveIfChanged(g)
  /\ UNCHANGED <<disk, process, engine, baseline, unmarked, coverage, watcher, scan,
                 saved, alerts, bounds, history>>

-----------------------------------------------------------------------------
(* The engine, called by the startup, the heartbeat job and the shutdown *)

\* The main loop makes its passes: after the first start, and while a heartbeat
\* applies a new policy.
LoopRuns ==
  \/ caller \in {"idle", "updating"}
  \/ caller \in {"starting", "started"} /\ gen > 1

\* FimEngine::start, up to the scan: the flags of the new generation, its
\* watcher spawned and its scan begun against the coverage known.
Start(g, policy, known) ==
  /\ MoreWork /\ starts < MaxStarts /\ starts' = starts + 1
  /\ gen' = g
  /\ gens' = [gens EXCEPT ![g] = [policy |-> policy, shutdown |-> FALSE, ready |-> FALSE]]
  /\ watcher' = [watcher EXCEPT ![g] = [NoWatcher EXCEPT !.step = "spawned"]]
  /\ scan' = [scan EXCEPT ![g] = [StartedScan EXCEPT !.previous = known]]
  /\ caller' = "starting"

\* start_fim_engine: a new process restores the saved baseline, if it can be
\* read.
StartProcess ==
  /\ process = "down" /\ process' = "up"
  /\ baseline' = saved.entries /\ coverage' = saved.coverage /\ dirty' = FALSE
  /\ Start(1, LocalPolicy, saved.coverage)
  /\ UNCHANGED <<disk, unmarked, task, saves, alerts, changes, faults, rescans, history>>

\* start, after its scan: the watcher may read, and the baseline is marked
\* whether it changed or not.
Started(g) ==
  /\ g = gen /\ caller = "starting" /\ ScanReport(g)
  /\ gens' = [gens EXCEPT ![g].ready = TRUE]
  /\ dirty' = TRUE
  /\ caller' = "started"
  /\ UNCHANGED <<disk, process, gen, baseline, unmarked, watcher, task, saves,
                 channel, bounds, excused>>

\* It is saved, unless the task of the former generation took the mark.
StartSaves ==
  /\ caller = "started" /\ ~Saves(0)
  /\ SaveIfChanged(0)
  /\ IF dirty THEN UNCHANGED <<caller, task>> ELSE AfterSave(0)
  /\ UNCHANGED <<disk, process, gen, gens, baseline, unmarked, coverage, watcher,
                 scan, saved, alerts, bounds, history>>

\* stop: the flag of the generation in force, and a save.
Stopped ==
  /\ gens' = [gens EXCEPT ![gen].shutdown = TRUE]
  /\ task' = [task EXCEPT ![gen] = IF @ = "sleep" THEN "none" ELSE @]
  /\ SaveIfChanged(0)
  /\ UNCHANGED <<disk, process, gen, baseline, unmarked, coverage, watcher, scan,
                 saved, alerts, bounds, history>>

\* update_config, with the platform's policy, changed or not: stop, then start
\* again.
UpdateConfig ==
  /\ caller = "idle" /\ starts < MaxStarts
  /\ caller' = "updating" /\ Stopped

Restart(policy) ==
  /\ caller = "updating" /\ ~Saves(0)
  /\ Start(gen + 1, policy, coverage)
  /\ UNCHANGED <<disk, process, records, task, saves, alerts, changes, faults,
                 rescans, history>>

\* shutdown_sequence, after the last pass. A heartbeat that waits for the scan
\* of a new policy is aborted: the scan goes on, and nobody gets its report.
Stop ==
  /\ \/ caller = "idle" /\ starts < MaxStarts
     \/ caller = "starting" /\ LoopRuns /\ scan[gen].step # "idle"
  /\ caller' = "exiting" /\ Stopped

\* History: a change may be lost with the process when the saved baseline is
\* not what the main loop was told.
Unsaved(f) == saved.entries[f] # Entry(told[f])

\* The end of the process, and of all its threads.
ProcessEnds ==
  /\ process' = "down" /\ caller' = "none" /\ gen' = 0
  /\ gens' = [g \in Gens |-> NoGen]
  /\ baseline' = [f \in Files |-> None] /\ unmarked' = {} /\ dirty' = FALSE
  /\ coverage' = NoCoverage
  /\ watcher' = [g \in Gens |-> NoWatcher]
  /\ scan' = [g \in Gens |-> NoScan]
  /\ task' = [g \in Gens |-> "none"]
  /\ taking' = {} /\ saver' = [s \in Savers |-> NoSnapshot] /\ tmp' = {}
  /\ overtaken' = FALSE
  /\ sending' = {} /\ channel' = {}
  /\ excused' = excused \cup {f \in Files : Unsaved(f)}
  /\ UNCHANGED <<disk, saved, changes, starts, rescans, told>>

Exit ==
  /\ caller = "exiting" /\ ~Saves(0) /\ ProcessEnds
  /\ UNCHANGED faults

Kill ==
  /\ process = "up" /\ starts < MaxStarts /\ MoreWork /\ changes + faults < MaxEvents
  /\ faults' = faults + 1
  /\ ProcessEnds

\* One alert of a scan finds room in the channel.
Deliver(a) ==
  /\ a \in sending /\ Cardinality(channel) < AlertCapacity
  /\ sending' = sending \ {a}
  /\ channel' = channel \cup {a}
  /\ UNCHANGED <<disk, process, engine, records, watcher, scan, task, saves,
                 bounds, history>>

\* drain_fim_alerts, on a pass of the main loop. Alerts are told apart by their
\* time: an older one does not hide a newer one.
Drain ==
  /\ LoopRuns /\ channel # {}
  /\ told' = [f \in Files |->
       IF \E a \in channel : a.path = f /\ a.state.ver > told[f].ver
       THEN (CHOOSE a \in channel :
               /\ a.path = f
               /\ \A b \in channel : b.path = f => b.state.ver <= a.state.ver).state
       ELSE told[f]]
  /\ channel' = {}
  /\ UNCHANGED <<disk, process, engine, records, watcher, scan, task, saves,
                 sending, bounds, excused>>

-----------------------------------------------------------------------------

WatcherStep(g) ==
  \/ WatcherStarts(g) \/ WatcherEnds(g)
  \/ \E f \in Files : WatcherSkips(g, f) \/ WatcherReads(g, f)

ScanStep(g) ==
  \/ ScanLock(g) \/ ScanRecords(g) \/ Sweep(g)
  \/ PeriodicScanEnds(g) \/ Started(g)
  \/ \E f \in Files : ScanReads(g, f) \/ WalkMisses(g, f) \/ SweepDrops(g, f)

EngineStep == StartProcess \/ StartSaves \/ Exit \/ \E p \in Policies : Restart(p)

Next ==
  \/ \E f \in Files : Change(f)
  \/ \E g \in Gens : WatcherStep(g) \/ ScanStep(g)
  \/ \E m \in unmarked : WatcherMarks(m) \/ ScanMarks(m)
  \/ \E g \in Gens : PeriodicWakes(g) \/ PeriodicScan(g) \/ PeriodicSave(g)
  \/ \E s \in Savers : SaveCollects(s) \/ SaveOpens(s) \/ Rename(s) \/ SaveFails(s)
  \/ EngineStep \/ UpdateConfig \/ Stop \/ Kill
  \/ \E a \in sending : Deliver(a)
  \/ Drain

Spec == Init /\ [][Next]_vars

-----------------------------------------------------------------------------
(* Properties *)

FilesType ==
  /\ disk \in [Files -> FileStates] /\ told \in [Files -> FileStates \cup {Unknown}]
  /\ excused \subseteq Files

EngineType ==
  /\ process \in {"up", "down"}
  /\ caller \in {"none", "starting", "started", "idle", "updating", "exiting"}
  /\ gen \in 0..MaxStarts
  /\ gens \in [Gens -> Generations]
  /\ watcher \in [Gens -> [step : {"none", "spawned", "loop"}, paths : SUBSET Files]]
  /\ task \in [Gens -> {"none", "sleep", "awake", "scanning", "saving"}]

RecordsType ==
  /\ baseline \in Entries /\ dirty \in BOOLEAN /\ unmarked \subseteq Unmarked
  /\ coverage \in Policies \cup {NoPolicy, NoCoverage}

ScanType == scan \in [Gens -> Scans]

SavesType ==
  /\ taking \subseteq Savers
  /\ saver \in [Savers -> Snapshots \cup {NoSnapshot}]
  /\ tmp \subseteq Savers /\ saved \in Snapshots \cup {NoSnapshot}
  /\ overtaken \in BOOLEAN

AlertsType ==
  /\ channel \cup sending \subseteq Alerts
  /\ Cardinality(channel) <= AlertCapacity

BoundsType ==
  /\ {changes, starts, faults, rescans} \subseteq Nat
  /\ changes + faults <= MaxEvents /\ starts <= MaxStarts

\* Type invariant; the channel holds no more than its capacity.
TypeOK ==
  /\ FilesType /\ EngineType /\ RecordsType /\ ScanType /\ SavesType
  /\ AlertsType /\ BoundsType

\* What is recorded of a file never goes back to an earlier version of it
\* while the process runs, whichever of the watcher and the scans reads it:
\* no change is reported that was not made, and none twice.
NeverBackwards ==
  [][\A f \in Files :
       (process = "up" /\ baseline[f] # None /\ baseline'[f] # None)
         => baseline'[f] >= baseline[f]]_vars

\* What watchers have recorded, and report once they have marked it.
Noted == {m \in unmarked : m.by = "watcher"}

\* What the baseline holds of a watched file has been told to the main loop or
\* is on its way in an alert, whoever read it: the watcher, a scan for what the
\* system did not report, or the first scan for what changed while the agent
\* was stopped. The exceptions are the alerts that found the channel full, what
\* the process took with it and the entries a scan dropped because its policy
\* did not watch the file.
NothingUnsaid ==
  process = "up" =>
    \A f \in Covered(gens[gen].policy) \ excused :
      \/ baseline[f] = Entry(told[f])
      \/ \E a \in channel \cup sending \cup Noted \cup UNION {scan[g].found : g \in Gens} :
           a.path = f /\ Entry(a.state) = baseline[f]

\* A scan leaves no watched file that differs from its entry, apart from those
\* changed since it began: it repairs every event lost before it, removals
\* included.
ScanFindsAll ==
  [][\A g \in Gens : (~Swept(g) /\ Swept(g)') =>
       \A f \in Covered(gens[g].policy) :
         baseline'[f] = Entry(disk'[f]) \/ disk'[f].ver > scan'[g].since]_vars

\* Whose entry is changed and not yet marked.
MarkDue == {m.path : m \in unmarked}

\* An entry that differs from the saved one is not forgotten: unless the baseline
\* is marked, or a save that took the mark is still at work, only the thread that
\* has just changed the entry, and is about to mark it, knows of it. The entries
\* are changed without the mark, the mark is taken before the snapshot, and
\* several saves may write to the same temporary file. The exception: a save
\* that is overtaken by another between its snapshot and its file.
SavedUnlessDirty ==
  (process = "up" /\ ~dirty /\ ~overtaken /\ \A s \in Savers : ~Saves(s))
    => \A f \in Files \ MarkDue : saved.entries[f] = baseline[f]

-----------------------------------------------------------------------------
(* Inductive invariants: why the properties hold *)

\* A scan with something left to read holds the scanning lock.
Busy(g) == scan[g].step \in {"walk", "sweep"} /\ ~Swept(g)

Saving == {s \in Savers : saver[s] # NoSnapshot}

\* Which of the caller, the periodic tasks and the scans can be at work
\* together: nothing while the process is down; a scan only where the caller
\* starts a generation or its periodic task scans; one save of each at a time.
StageInv ==
  /\ IsFiniteSet(channel)
  /\ process = "down" <=> caller = "none"
  /\ process = "down" =>
       /\ gen = 0 /\ Saving = {} /\ channel = {} /\ sending = {}
       /\ unmarked = {} /\ taking = {}
       /\ \A g \in Gens : scan[g] = NoScan /\ task[g] = "none"
  /\ process = "up" => gen \in Gens
  /\ gen <= starts
  /\ \A g \in Gens : g > gen => scan[g] = NoScan /\ task[g] = "none" /\ gens[g] = NoGen
  /\ \A g \in Gens :
       /\ task[g] \in {"sleep", "awake", "saving"} => scan[g] = NoScan
       /\ Saves(g) => task[g] = "saving"
  /\ caller \in {"starting", "started"} => task[gen] = "none"
  /\ caller = "started" => scan[gen] = NoScan
  /\ caller \in {"starting", "idle"} => ~Saves(0)

\* A scan: a path is read once, met or still to read, and belongs to what is
\* watched; what it found, it read before.
ScanShape(g) ==
  /\ scan[g].step = "idle" => scan[g] = NoScan
  /\ scan[g].step = "waiting" =>
       /\ scan[g].todo = {} /\ scan[g].visited = {} /\ scan[g].found = {}
       /\ scan[g].reading = NotReading
  /\ scan[g].since <= changes
  /\ \A c, d \in scan[g].found : c.path = d.path => c = d
  /\ \A c \in scan[g].found :
       /\ c.path \in Covered(gens[g].policy) \ scan[g].todo
       /\ scan[g].step = "walk" => c.path \in scan[g].visited
       /\ c.path # scan[g].reading.path
  /\ scan[g].step = "walk" =>
       /\ scan[g].todo \cap scan[g].visited = {}
       /\ scan[g].todo \cup scan[g].visited \subseteq Covered(gens[g].policy)
  /\ scan[g].reading # NotReading =>
       /\ scan[g].reading.path \in Covered(gens[g].policy) \ scan[g].todo
       /\ scan[g].step = "walk" => scan[g].reading.path \in scan[g].visited

\* Only one scan at a time has anything to read.
ScanInv ==
  /\ \A g \in Gens : ScanShape(g)
  /\ \A g, h \in Gens : Busy(g) /\ Busy(h) => g = h

\* No entry, recorded, being saved or saved, is of a later version than its
\* file; a reading is between the two.
VersionInv ==
  /\ \A f \in Files :
       /\ disk[f].ver <= changes
       /\ baseline[f] <= disk[f].ver
       /\ saved.entries[f] <= disk[f].ver
       /\ \A s \in Savers : saver[s].entries[f] <= disk[f].ver
  /\ \A g \in Gens : scan[g].reading # NotReading =>
       LET r == scan[g].reading IN
       /\ baseline[r.path] <= r.state.ver
       /\ r.state.ver <= disk[r.path].ver
       /\ r.state # disk[r.path] => /\ r.state.ver < disk[r.path].ver
                                    /\ disk[r.path].ver > scan[g].since

\* An entry not marked as changed, nor about to be, is the saved one, or that of
\* the only snapshot being saved when no other save wrote to the temporary file.
SavedInv ==
  /\ tmp \subseteq Saving \ taking
  /\ (process = "up" /\ ~dirty /\ ~overtaken /\ taking \subseteq Saving) =>
       \A f \in Files \ MarkDue :
         /\ Saving = {} => saved.entries[f] = baseline[f]
         /\ \A s \in Savers : (Saving = {s} /\ (s \in taking \/ tmp = {s}))
              => saver[s].entries[f] = baseline[f]

\* What a scan at work still owes of a watched file that differs from its entry
\* and has not changed since it began.
Settled(g, f) == baseline[f] = Entry(disk[f]) \/ disk[f].ver > scan[g].since
Owed(g, f) ==
  \/ f \in scan[g].todo
  \/ scan[g].reading = [path |-> f, state |-> disk[f]]
  \/ scan[g].step = "walk" /\ f \notin scan[g].visited /\ ~disk[f].here
FindInv ==
  \A g \in Gens : Busy(g) =>
    \A f \in Covered(gens[g].policy) : Settled(g, f) \/ Owed(g, f)

FimInv == TypeOK /\ StageInv /\ ScanInv /\ VersionInv /\ SavedInv /\ FindInv

\* All that was said of a file: to the main loop, in an alert, or in what a scan
\* has found.
SaidOf(f) ==
  {told[f]} \cup {a.state : a \in {b \in channel \cup sending \cup Noted : b.path = f}}
    \cup {c.state : c \in {b \in UNION {scan[g].found : g \in Gens} : b.path = f}}

\* Nothing said is of a later version than the file, or than a reading of it not
\* yet recorded.
SaidBefore(f) ==
  \A r \in SaidOf(f) :
    /\ r.ver <= disk[f].ver
    /\ r.ver = disk[f].ver => r = disk[f]
    /\ \A g \in Gens : scan[g].reading.path = f =>
         /\ r.ver <= scan[g].reading.state.ver
         /\ r.ver = scan[g].reading.state.ver => r = scan[g].reading.state

\* The newest thing said of a file is what its entry holds.
NewestRecorded(f) ==
  \A r \in SaidOf(f) : (\A q \in SaidOf(f) : q.ver <= r.ver) => Entry(r) = baseline[f]

\* While the process is down the same is so of the saved entries.
SaidInv ==
  /\ process = "down" => \A f \in Files \ excused : saved.entries[f] = Entry(told[f])
  /\ \A f \in Files : SaidBefore(f)
  /\ process = "up" => \A f \in Files \ excused : NewestRecorded(f)

=============================================================================
