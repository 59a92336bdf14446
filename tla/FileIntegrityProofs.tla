------------------------ MODULE FileIntegrityProofs ------------------------
(***************************************************************************)
(* Theorems about FileIntegrity, for any files and policies, any capacity  *)
(* of the channel, and any number of changes, kills, failed saves, starts  *)
(* and periodic scans.                                                     *)
(***************************************************************************)
EXTENDS FileIntegrity, FiniteSetTheorems, WellFoundedInduction, TLAPS

USE FimAssumption DEF None

-----------------------------------------------------------------------------
(* Operators *)

\* Of some things with versions, one is the newest.
LEMMA Newest ==
  ASSUME NEW N \in Nat, NEW S, S # {}, NEW ver \in [S -> -1 .. N]
  PROVE  \E r \in S : \A q \in S : ver[q] <= ver[r]
<1> DEFINE T == {N - ver[q] : q \in S}
           R == OpToRel(<, Nat)
<1>1. T \subseteq Nat /\ T # {}
  OBVIOUS
<1>2. PICK x \in T : \A y \in T : ~(<<y, x>> \in R)
  BY <1>1, NatLessThanWellFounded, WFMin, Zenon
<1>3. \A y \in T : ~(y < x)
  <2> SUFFICES ASSUME NEW y \in T, y < x PROVE FALSE
    OBVIOUS
  <2>1. <<y, x>> \in Nat \X Nat /\ <<y, x>>[1] = y /\ <<y, x>>[2] = x
    BY <1>1
  <2>2. <<y, x>> \in R
    BY <2>1 DEF OpToRel
  <2> QED
    BY <1>2, <2>2
<1>4. PICK r \in S : x = N - ver[r]
  OBVIOUS
<1>5. ASSUME NEW q \in S PROVE ver[q] <= ver[r]
  BY <1>3, <1>4
<1> QED
  BY <1>5

\* What an entry may hold.
LEMMA EntryType ==
  ASSUME NEW s \in FileStates
  PROVE  /\ Entry(s) \in Versions \cup {None} /\ Entry(s) <= s.ver
         /\ s.ver \in Nat /\ s.ver <= MaxEvents
  BY DEF Entry, FileStates, Versions

\* Nothing a policy may watch looks like "no coverage" (Coverage::knew).
LEMMA SnapshotIsOne ==
  ASSUME NEW c \in Policies \cup {NoPolicy, NoCoverage}, baseline \in Entries
  PROVE  /\ Snapshot(c) \in Snapshots /\ Snapshot(c) # NoSnapshot
         /\ Snapshot(c).entries = baseline
<1>1. NoCoverage \notin Policies \cup {NoPolicy}
  BY DEF NoCoverage, NoPolicy
<1>2. Snapshot(c) \in Snapshots /\ Snapshot(c).entries = baseline
  BY DEF Snapshot, Snapshots
<1>3. Snapshot(c).coverage \in Policies \cup {NoPolicy}
  BY <1>2 DEF Snapshots
<1> QED
  BY <1>1, <1>2, <1>3 DEF NoSnapshot

LEMMA RecordedType ==
  ASSUME baseline \in Entries, NEW f \in Files, NEW s \in FileStates
  PROVE  /\ Recorded(f, s) \in Entries
         /\ Recorded(f, s) = [baseline EXCEPT ![f] = Entry(s)]
  BY EntryType DEF Recorded, Differs, Entries

\* What a scan says and adopts is what it found.
LEMMA FoundParts ==
  ASSUME NEW g \in Gens
  PROVE  Said(g) \subseteq scan[g].found /\ Adopted(g) \subseteq scan[g].found
  BY DEF Said, Adopted

LEMMA NoThings ==
  /\ NoScan \in Scans
  /\ NoGen \in Generations
  /\ NoSnapshot.entries \in Entries
  /\ NoWatcher \in [step : {"none", "spawned", "loop"}, paths : SUBSET Files]
  BY DEF NoScan, Scans, NotReading, NoGen, Generations, NoSnapshot, Entries, NoWatcher, Versions

LEMMA SnapshotParts ==
  ASSUME NEW s \in Snapshots \cup {NoSnapshot}
  PROVE  s.entries \in Entries /\ s.coverage \in Policies \cup {NoPolicy, NoCoverage}
  BY NoThings DEF Snapshots, NoSnapshot

-----------------------------------------------------------------------------
(* Types *)

LEMMA TypeInit == Init => TypeOK /\ IsFiniteSet(channel)
<1> SUFFICES ASSUME Init PROVE TypeOK /\ IsFiniteSet(channel)
  OBVIOUS
<1>1. Cardinality(channel) = 0 /\ IsFiniteSet(channel)
  BY FS_EmptySet DEF Init
<1>2. scan \in [Gens -> Scans] /\ saved \in Snapshots \cup {NoSnapshot}
      /\ saver \in [Savers -> Snapshots \cup {NoSnapshot}]
  BY NoThings DEF Init
<1>3. disk \in [Files -> FileStates] /\ told \in [Files -> FileStates \cup {Unknown}]
  BY DEF Init, FileStates, Versions
<1>4. /\ gens \in [Gens -> Generations]
      /\ watcher \in [Gens -> [step : {"none", "spawned", "loop"}, paths : SUBSET Files]]
      /\ baseline \in Entries /\ dirty \in BOOLEAN
  BY NoThings DEF Init, Entries
<1>5. FilesType /\ EngineType
  BY <1>3, <1>4 DEF Init, FilesType, EngineType
<1>6. RecordsType /\ ScanType /\ SavesType
  BY <1>2, <1>4 DEF Init, RecordsType, ScanType, SavesType
<1>7. AlertsType /\ BoundsType
  BY <1>1, FimAssumption DEF Init, AlertsType, BoundsType
<1> QED
  BY <1>1, <1>5, <1>6, <1>7 DEF TypeOK

LEMMA CoveredFiles ==
  ASSUME NEW c \in Policies \cup {NoPolicy}
  PROVE  Covered(c) \subseteq Files
  BY DEF Covered, NoPolicy

LEMMA CollectType ==
  ASSUME TypeOK, NEW s \in Savers
  PROVE  [saver EXCEPT ![s] = Snapshot(coverage)] \in [Savers -> Snapshots \cup {NoSnapshot}]
<1>1. Snapshot(coverage) \in Snapshots
  BY SnapshotIsOne DEF TypeOK, RecordsType
<1> QED
  BY <1>1 DEF TypeOK, SavesType

LEMMA MayTakeType ==
  ASSUME TypeOK, NEW s \in Savers, SaveIfChanged(s)
  PROVE  /\ taking' \subseteq Savers /\ dirty' \in BOOLEAN
         /\ saver' = saver /\ tmp' = tmp /\ overtaken' \in BOOLEAN
  BY DEF SaveIfChanged, TypeOK, RecordsType, SavesType

\* Whoever changes an entry is among those who have still to mark the baseline.
LEMMA ToMarkType ==
  ASSUME unmarked \subseteq Unmarked, NEW by \in {"watcher", "scan", "drop"},
         NEW g \in Gens, NEW f \in Files, NEW s \in FileStates, ToMark(by, g, f, s)
  PROVE  unmarked' \subseteq Unmarked
  BY DEF ToMark, Unmarked

\* A new alert, in a channel with room.
LEMMA ChannelType ==
  ASSUME TypeOK, IsFiniteSet(channel), NEW a \in Alerts,
         Cardinality(channel) < AlertCapacity
  PROVE  /\ channel \cup {a} \subseteq Alerts
         /\ Cardinality(channel \cup {a}) <= AlertCapacity
         /\ IsFiniteSet(channel \cup {a})
<1>1. /\ Cardinality(channel) \in Nat /\ IsFiniteSet(channel \cup {a})
      /\ \/ Cardinality(channel \cup {a}) = Cardinality(channel)
         \/ Cardinality(channel \cup {a}) = Cardinality(channel) + 1
  BY FS_AddElement, FS_CardinalityType
<1>2. Cardinality(channel \cup {a}) \in Nat
  BY <1>1, FS_CardinalityType
<1> QED
  BY <1>1, <1>2 DEF TypeOK, AlertsType

LEMMA StartedScanType ==
  ASSUME TypeOK, NEW c \in Policies \cup {NoPolicy, NoCoverage}
  PROVE  /\ StartedScan \in Scans /\ [StartedScan EXCEPT !.previous = c] \in Scans
         /\ StartedScan.step = "waiting" /\ StartedScan.found = {}
         /\ StartedScan.reading = NotReading /\ StartedScan.visited = {}
         /\ StartedScan.todo = {} /\ StartedScan.since = 0
  BY NoThings DEF StartedScan, NoScan, Scans, TypeOK, RecordsType, NotReading

LEMMA AfterSaveType ==
  ASSUME TypeOK, NEW s \in Savers, AfterSave(s), s = 0 /\ caller = "started" => gen \in Gens
  PROVE  /\ caller' \in {"none", "starting", "started", "idle", "updating", "exiting"}
         /\ task' \in [Gens -> {"none", "sleep", "awake", "scanning", "saving"}]
<1>1. caller' \in {"none", "starting", "started", "idle", "updating", "exiting"}
  BY DEF TypeOK, EngineType, AfterSave
<1>2. CASE s # 0
  BY <1>2 DEF TypeOK, EngineType, AfterSave, Sleeps, Savers, Gens
<1>3. CASE s = 0
  BY <1>3 DEF TypeOK, EngineType, AfterSave
<1> QED
  BY <1>1, <1>2, <1>3

\* What a scan tells and hands over is what it found.
LEMMA ScanReportType ==
  ASSUME TypeOK, NEW g \in Gens, ScanReport(g)
  PROVE  /\ told' \in [Files -> FileStates \cup {Unknown}]
         /\ coverage' \in Policies \cup {NoPolicy, NoCoverage}
         /\ sending' \subseteq Alerts
         /\ scan' \in [Gens -> Scans]
<1>1. \A c \in scan[g].found : c.path \in Files /\ c.state \in FileStates
  BY DEF TypeOK, ScanType, Scans, Finds
<1>2. ASSUME NEW f \in Files, \E c \in Adopted(g) : c.path = f
      PROVE  (CHOOSE c \in Adopted(g) : c.path = f).state \in FileStates
  BY <1>1, <1>2, FoundParts
<1>3. \A f \in Files : told[f] \in FileStates \cup {Unknown}
  BY DEF TypeOK, FilesType
<1>4. \A f \in Files : told'[f] \in FileStates \cup {Unknown}
  BY <1>2, <1>3 DEF ScanReport, Newer
<1>5. sending' \subseteq Alerts
  BY <1>1, FoundParts DEF ScanReport, TypeOK, AlertsType, Alerts
<1>6. scan' \in [Gens -> Scans]
  BY NoThings DEF ScanReport, TypeOK, ScanType
<1>7. coverage' \in Policies \cup {NoPolicy, NoCoverage}
  BY DEF ScanReport, TypeOK, EngineType, Generations
<1>8. told' = [f \in Files |-> told'[f]]
  BY DEF ScanReport
<1> QED
  BY <1>4, <1>5, <1>6, <1>7, <1>8

LEMMA StoppedType ==
  ASSUME TypeOK, Stopped, gen \in Gens, caller' \in {"updating", "exiting"}
  PROVE  TypeOK'
<1>1. EngineType'
  <2>1. gens[gen] \in Generations
    BY DEF TypeOK, EngineType
  <2>2. [gens[gen] EXCEPT !.shutdown = TRUE] \in Generations
    BY <2>1 DEF Generations
  <2>3. gens' \in [Gens -> Generations]
    BY <2>2 DEF Stopped, TypeOK, EngineType
  <2>4. task' \in [Gens -> {"none", "sleep", "awake", "scanning", "saving"}]
    BY DEF Stopped, TypeOK, EngineType
  <2> QED
    BY <2>3, <2>4 DEF Stopped, TypeOK, EngineType
<1>2. RecordsType' /\ SavesType'
  BY MayTakeType DEF Stopped, TypeOK, RecordsType, SavesType, Savers
<1>3. FilesType' /\ ScanType' /\ AlertsType' /\ BoundsType'
  BY DEF Stopped, TypeOK, FilesType, ScanType, AlertsType, BoundsType, alerts, bounds, history
<1> QED
  BY <1>1, <1>2, <1>3 DEF TypeOK

LEMMA StartType ==
  ASSUME TypeOK, NEW g \in Gens, NEW p \in Policies,
         NEW known \in Policies \cup {NoPolicy, NoCoverage}, Start(g, p, known),
         UNCHANGED <<task, changes, faults, rescans>>, process' \in {"up", "down"}
  PROVE  EngineType' /\ ScanType' /\ BoundsType'
<1>1. [StartedScan EXCEPT !.previous = known] \in Scans
  BY StartedScanType
<1>2. ScanType'
  BY <1>1 DEF Start, TypeOK, ScanType
<1>3. [NoWatcher EXCEPT !.step = "spawned"] \in
        [step : {"none", "spawned", "loop"}, paths : SUBSET Files]
  BY DEF NoWatcher
<1>4. watcher' \in [Gens -> [step : {"none", "spawned", "loop"}, paths : SUBSET Files]]
  BY <1>3 DEF Start, TypeOK, EngineType
<1>5. gens' \in [Gens -> Generations]
  BY DEF Start, TypeOK, EngineType, Generations
<1>6. gen' \in 0..MaxStarts /\ caller' = "starting"
  BY DEF Start, Gens
<1>7. EngineType'
  BY <1>4, <1>5, <1>6 DEF TypeOK, EngineType
<1>8. BoundsType'
  BY DEF Start, TypeOK, BoundsType
<1> QED
  BY <1>2, <1>8, <1>7

LEMMA ProcessEndsType ==
  ASSUME TypeOK, ProcessEnds
  PROVE  /\ FilesType' /\ EngineType' /\ RecordsType' /\ ScanType' /\ SavesType' /\ AlertsType'
         /\ IsFiniteSet(channel')
<1>1. FilesType' /\ RecordsType'
  BY DEF ProcessEnds, TypeOK, FilesType, RecordsType, Entries
<1>2. EngineType' /\ ScanType'
  BY NoThings DEF ProcessEnds, TypeOK, EngineType, ScanType
<1>3. SavesType'
  BY DEF ProcessEnds, TypeOK, SavesType
<1>4. AlertsType' /\ IsFiniteSet(channel')
  BY FS_EmptySet DEF ProcessEnds, AlertsType
<1> QED
  BY <1>1, <1>2, <1>3, <1>4


\* The alert the main loop takes for the state of a file is the newest of them.
LEMMA NewestAlert ==
  ASSUME TypeOK, NEW f \in Files, NEW d \in channel, d.path = f
  PROVE  \E a \in channel : /\ a.path = f /\ a.state \in FileStates
                            /\ \A b \in channel : b.path = f => b.state.ver <= a.state.ver
<1> DEFINE S == {a \in channel : a.path = f}
           ver == [a \in S |-> a.state.ver]
<1>1. \A a \in S : a.state \in FileStates
  BY DEF TypeOK, AlertsType, Alerts
<1>2. ver \in [S -> -1 .. MaxEvents]
  BY <1>1 DEF FileStates, Versions
<1>3. PICK a \in S : \A b \in S : ver[b] <= ver[a]
  <2>1. S # {} /\ MaxEvents \in Nat
    OBVIOUS
  <2> HIDE DEF S, ver
  <2> QED
    BY <1>2, <2>1, Newest
<1> QED
  BY <1>1, <1>3

LEMMA TypeStep ==
  ASSUME TypeOK, StageInv, [Next]_vars
  PROVE  TypeOK'
<1> USE DEF engine, records, saves, alerts, bounds, history
<1>0. IsFiniteSet(channel)
  BY DEF StageInv
<1>1. ASSUME NEW f \in Files, Change(f) PROVE TypeOK'
  <2>1. FilesType'
    BY <1>1 DEF Change, TypeOK, FilesType, FileStates, Versions, BoundsType
  <2>2. EngineType'
    BY <1>1 DEF Change, TypeOK, EngineType
  <2>3. BoundsType'
    BY <1>1 DEF Change, TypeOK, BoundsType
  <2>4. RecordsType' /\ ScanType' /\ SavesType' /\ AlertsType'
    BY <1>1 DEF Change, TypeOK, RecordsType, ScanType, SavesType, AlertsType
  <2> QED
    BY <2>1, <2>2, <2>3, <2>4 DEF TypeOK
<1>2. ASSUME NEW g \in Gens, WatcherStarts(g) PROVE TypeOK'
  <2>1. EngineType'
    BY <1>2 DEF WatcherStarts, TypeOK, EngineType
  <2>2. FilesType' /\ RecordsType' /\ ScanType' /\ SavesType' /\ AlertsType' /\ BoundsType'
    BY <1>2 DEF WatcherStarts, TypeOK, FilesType, RecordsType, ScanType, SavesType, AlertsType, BoundsType
  <2> QED
    BY <2>1, <2>2 DEF TypeOK
<1>3. ASSUME NEW g \in Gens, WatcherEnds(g) PROVE TypeOK'
  <2>1. EngineType'
    BY <1>3, NoThings DEF WatcherEnds, TypeOK, EngineType
  <2>2. FilesType' /\ RecordsType' /\ ScanType' /\ SavesType' /\ AlertsType' /\ BoundsType'
    BY <1>3 DEF WatcherEnds, TypeOK, FilesType, RecordsType, ScanType, SavesType, AlertsType, BoundsType
  <2> QED
    BY <2>1, <2>2 DEF TypeOK
<1>4. ASSUME NEW g \in Gens, NEW f \in Files, WatcherSkips(g, f) PROVE TypeOK'
  <2>1. EngineType'
    BY <1>4 DEF WatcherSkips, TypeOK, EngineType
  <2>2. FilesType' /\ RecordsType' /\ ScanType' /\ SavesType' /\ AlertsType' /\ BoundsType'
    BY <1>4 DEF WatcherSkips, TypeOK, FilesType, RecordsType, ScanType, SavesType, AlertsType, BoundsType
  <2> QED
    BY <2>1, <2>2 DEF TypeOK
<1>5. ASSUME NEW g \in Gens, NEW f \in Files, WatcherReads(g, f) PROVE TypeOK'
  <2>1. disk[f] \in FileStates
    BY DEF TypeOK, FilesType
  <2>2. EngineType'
    BY <1>5 DEF WatcherReads, TypeOK, EngineType
  <2>3. unmarked' \subseteq Unmarked
    BY <1>5, <2>1, ToMarkType DEF WatcherReads, TypeOK, RecordsType
  <2>4. RecordsType'
    BY <1>5, <2>1, <2>3, RecordedType DEF WatcherReads, TypeOK, RecordsType
  <2>5. FilesType' /\ ScanType' /\ SavesType' /\ AlertsType' /\ BoundsType'
    BY <1>5 DEF WatcherReads, TypeOK, FilesType, ScanType, SavesType, AlertsType, BoundsType
  <2> QED
    BY <2>2, <2>4, <2>5 DEF TypeOK
<1>6. ASSUME NEW m \in unmarked, WatcherMarks(m) PROVE TypeOK'
  <2> DEFINE a == [path |-> m.path, state |-> m.state]
  <2>1. a \in Alerts /\ a.path \in Files
    BY DEF TypeOK, RecordsType, Unmarked, Alerts
  <2>2. TrySend(a)
    BY <1>6 DEF WatcherMarks
  <2> HIDE DEF a
  <2>3. FilesType'
    BY <1>6, <2>1, <2>2 DEF WatcherMarks, TypeOK, FilesType, TrySend
  <2>4. AlertsType'
    BY <1>6, <1>0, <2>1, <2>2, ChannelType DEF WatcherMarks, TypeOK, AlertsType, TrySend
  <2>5. RecordsType'
    BY <1>6 DEF WatcherMarks, TypeOK, RecordsType
  <2>6. EngineType' /\ ScanType' /\ SavesType' /\ BoundsType'
    BY <1>6 DEF WatcherMarks, TypeOK, EngineType, ScanType, SavesType, BoundsType
  <2> QED
    BY <2>3, <2>4, <2>5, <2>6 DEF TypeOK
<1>7. ASSUME NEW m \in unmarked, ScanMarks(m) PROVE TypeOK'
  <2>1. RecordsType'
    BY <1>7 DEF ScanMarks, TypeOK, RecordsType
  <2>2. FilesType' /\ EngineType' /\ ScanType' /\ SavesType' /\ AlertsType' /\ BoundsType'
    BY <1>7 DEF ScanMarks, TypeOK, FilesType, EngineType, ScanType, SavesType, AlertsType, BoundsType
  <2> QED
    BY <2>1, <2>2 DEF TypeOK
<1>8. ASSUME NEW g \in Gens, ScanLock(g) PROVE TypeOK'
  <2>1. [scan[g] EXCEPT !.step = "walk", !.todo = Covered(gens[g].policy),
                      !.since = changes] \in Scans
    <3>1. changes \in Versions
      BY DEF TypeOK, BoundsType, Versions
    <3>2. Covered(gens[g].policy) \subseteq Files
      BY CoveredFiles DEF TypeOK, EngineType, Generations
    <3> QED
      BY <3>1, <3>2 DEF TypeOK, ScanType, Scans
  <2>2. ScanType'
    BY <1>8, <2>1 DEF ScanLock, TypeOK, ScanType
  <2>3. FilesType' /\ EngineType' /\ RecordsType' /\ SavesType' /\ AlertsType' /\ BoundsType'
    BY <1>8 DEF ScanLock, TypeOK, FilesType, EngineType, RecordsType, SavesType, AlertsType, BoundsType
  <2> QED
    BY <2>2, <2>3 DEF TypeOK
<1>9. ASSUME NEW g \in Gens, ScanRecords(g) PROVE TypeOK'
  <2>1. scan[g].reading.path \in Files /\ scan[g].reading.state \in FileStates
    BY <1>9 DEF ScanRecords, TypeOK, ScanType, Scans, Alerts
  <2>2. \A d \in Finds :
          /\ [scan[g] EXCEPT !.reading = NotReading, !.found = @] \in Scans
          /\ [scan[g] EXCEPT !.reading = NotReading, !.found = @ \cup {d}] \in Scans
    BY DEF TypeOK, ScanType, Scans
  <2>3. [path |-> scan[g].reading.path, state |-> scan[g].reading.state,
         created |-> baseline[scan[g].reading.path] = None] \in Finds
    BY <2>1 DEF Finds
  <2>7. unmarked' \subseteq Unmarked
    BY <1>9, <2>1, ToMarkType DEF ScanRecords, TypeOK, RecordsType
  <2>4. RecordsType'
    BY <1>9, <2>1, <2>7, RecordedType DEF ScanRecords, TypeOK, RecordsType
  <2>5. ScanType'
    BY <1>9, <2>2, <2>3 DEF ScanRecords, TypeOK, ScanType
  <2>6. FilesType' /\ EngineType' /\ SavesType' /\ AlertsType' /\ BoundsType'
    BY <1>9 DEF ScanRecords, TypeOK, FilesType, EngineType, SavesType, AlertsType, BoundsType
  <2> QED
    BY <2>4, <2>5, <2>6 DEF TypeOK
<1>10. ASSUME NEW g \in Gens, Sweep(g) PROVE TypeOK'
  <2>1. [scan[g] EXCEPT !.step = "sweep", !.todo = Unvisited(g), !.visited = {}] \in Scans
    BY DEF TypeOK, ScanType, Scans, Unvisited
  <2>2. ScanType'
    BY <1>10, <2>1 DEF Sweep, TypeOK, ScanType
  <2>3. FilesType' /\ EngineType' /\ RecordsType' /\ SavesType' /\ AlertsType' /\ BoundsType'
    BY <1>10 DEF Sweep, TypeOK, FilesType, EngineType, RecordsType, SavesType, AlertsType, BoundsType
  <2> QED
    BY <2>2, <2>3 DEF TypeOK
<1>11. ASSUME NEW g \in Gens, PeriodicScanEnds(g) PROVE TypeOK'
  <2>1. FilesType'
    BY <1>11, ScanReportType DEF PeriodicScanEnds, TypeOK, FilesType
  <2>2. EngineType'
    BY <1>11 DEF PeriodicScanEnds, TypeOK, EngineType, Awake
  <2>3. RecordsType'
    BY <1>11, ScanReportType DEF PeriodicScanEnds, TypeOK, RecordsType
  <2>4. ScanType'
    BY <1>11, ScanReportType DEF PeriodicScanEnds, TypeOK, ScanType
  <2>5. AlertsType'
    BY <1>11, ScanReportType DEF PeriodicScanEnds, TypeOK, AlertsType
  <2>6. SavesType' /\ BoundsType'
    BY <1>11 DEF PeriodicScanEnds, TypeOK, SavesType, BoundsType, ScanReport
  <2> QED
    BY <2>1, <2>2, <2>3, <2>4, <2>5, <2>6 DEF TypeOK
<1>12. ASSUME NEW g \in Gens, Started(g) PROVE TypeOK'
  <2>1. [gens[g] EXCEPT !.ready = TRUE] \in Generations
    <3>1. gens[g] \in Generations
      BY DEF TypeOK, EngineType
    <3> QED
      BY <3>1 DEF Generations
  <2>2. FilesType'
    BY <1>12, ScanReportType DEF Started, TypeOK, FilesType
  <2>3. EngineType'
    BY <1>12, <2>1 DEF Started, TypeOK, EngineType
  <2>4. RecordsType'
    BY <1>12, ScanReportType DEF Started, TypeOK, RecordsType
  <2>5. ScanType'
    BY <1>12, ScanReportType DEF Started, TypeOK, ScanType
  <2>6. SavesType'
    BY <1>12 DEF Started, TypeOK, SavesType
  <2>7. AlertsType'
    BY <1>12, ScanReportType DEF Started, TypeOK, AlertsType
  <2>8. BoundsType'
    BY <1>12 DEF Started, TypeOK, BoundsType, ScanReport
  <2> QED
    BY <2>2, <2>3, <2>4, <2>5, <2>6, <2>7, <2>8 DEF TypeOK
<1>13. ASSUME NEW g \in Gens, NEW f \in Files, ScanReads(g, f) PROVE TypeOK'
  <2>1. [scan[g] EXCEPT !.todo = @ \ {f},
                      !.visited = IF scan[g].step = "walk" THEN @ \cup {f} ELSE @,
                      !.reading = [path |-> f, state |-> disk[f]]] \in Scans
    <3>1. [path |-> f, state |-> disk[f]] \in Alerts
      BY DEF TypeOK, FilesType, Alerts
    <3> QED
      BY <3>1 DEF TypeOK, ScanType, Scans
  <2>2. ScanType'
    BY <1>13, <2>1 DEF ScanReads, TypeOK, ScanType
  <2>3. FilesType' /\ EngineType' /\ RecordsType' /\ SavesType' /\ AlertsType' /\ BoundsType'
    BY <1>13 DEF ScanReads, TypeOK, FilesType, EngineType, RecordsType, SavesType, AlertsType, BoundsType
  <2> QED
    BY <2>2, <2>3 DEF TypeOK
<1>14. ASSUME NEW g \in Gens, NEW f \in Files, WalkMisses(g, f) PROVE TypeOK'
  <2>1. ScanType'
    BY <1>14 DEF WalkMisses, TypeOK, ScanType, Scans
  <2>2. FilesType' /\ EngineType' /\ RecordsType' /\ SavesType' /\ AlertsType' /\ BoundsType'
    BY <1>14 DEF WalkMisses, TypeOK, FilesType, EngineType, RecordsType, SavesType, AlertsType, BoundsType
  <2> QED
    BY <2>1, <2>2 DEF TypeOK
<1>15. ASSUME NEW g \in Gens, NEW f \in Files, SweepDrops(g, f) PROVE TypeOK'
  <2>1. FilesType'
    BY <1>15 DEF SweepDrops, TypeOK, FilesType
  <2>5. [disk[f] EXCEPT !.here = FALSE] \in FileStates
    BY DEF TypeOK, FilesType, FileStates
  <2>6. unmarked' \subseteq Unmarked
    BY <1>15, <2>5, ToMarkType DEF SweepDrops, TypeOK, RecordsType
  <2>2. RecordsType'
    BY <1>15, <2>6 DEF SweepDrops, TypeOK, RecordsType, Entries
  <2>3. ScanType'
    BY <1>15 DEF SweepDrops, TypeOK, ScanType, Scans
  <2>4. EngineType' /\ SavesType' /\ AlertsType' /\ BoundsType'
    BY <1>15 DEF SweepDrops, TypeOK, EngineType, SavesType, AlertsType, BoundsType
  <2> QED
    BY <2>1, <2>2, <2>3, <2>4 DEF TypeOK
<1>16. ASSUME NEW g \in Gens, PeriodicScan(g) PROVE TypeOK'
  <2>1. EngineType'
    BY <1>16 DEF PeriodicScan, TypeOK, EngineType
  <2>2. ScanType'
    BY <1>16, StartedScanType DEF PeriodicScan, TypeOK, ScanType
  <2>3. BoundsType'
    BY <1>16 DEF PeriodicScan, TypeOK, BoundsType
  <2>4. FilesType' /\ RecordsType' /\ SavesType' /\ AlertsType'
    BY <1>16 DEF PeriodicScan, TypeOK, FilesType, RecordsType, SavesType, AlertsType
  <2> QED
    BY <2>1, <2>2, <2>3, <2>4 DEF TypeOK
<1>17. ASSUME NEW g \in Gens, PeriodicSave(g) PROVE TypeOK'
  <2>0. g \in Savers
    BY DEF Gens, Savers
  <2>1. EngineType'
    BY <1>17 DEF PeriodicSave, TypeOK, EngineType, Sleeps
  <2>2. RecordsType' /\ SavesType'
    BY <1>17, <2>0, MayTakeType DEF PeriodicSave, TypeOK, RecordsType, SavesType
  <2>4. FilesType' /\ ScanType' /\ AlertsType' /\ BoundsType'
    BY <1>17 DEF PeriodicSave, TypeOK, FilesType, ScanType, AlertsType, BoundsType
  <2> QED
    BY <2>1, <2>2, <2>4 DEF TypeOK
<1>18. ASSUME NEW g \in Gens, PeriodicWakes(g) PROVE TypeOK'
  <2>1. EngineType'
    BY <1>18 DEF PeriodicWakes, TypeOK, EngineType
  <2>2. FilesType' /\ RecordsType' /\ ScanType' /\ SavesType' /\ AlertsType' /\ BoundsType'
    BY <1>18 DEF PeriodicWakes, TypeOK, FilesType, RecordsType, ScanType, SavesType, AlertsType, BoundsType
  <2> QED
    BY <2>1, <2>2 DEF TypeOK
<1>19. ASSUME NEW s \in Savers, SaveCollects(s) \/ SaveOpens(s) PROVE TypeOK'
  <2>1. CASE SaveCollects(s)
    <3>1. SavesType'
      BY <2>1, CollectType DEF SaveCollects, TypeOK, SavesType
    <3>2. FilesType' /\ EngineType' /\ RecordsType' /\ ScanType' /\ AlertsType' /\ BoundsType'
      BY <2>1 DEF SaveCollects, TypeOK, FilesType, EngineType, RecordsType, ScanType, AlertsType, BoundsType
    <3> QED
      BY <3>1, <3>2 DEF TypeOK
  <2>2. CASE SaveOpens(s)
    <3>1. SavesType'
      BY <2>2 DEF SaveOpens, TypeOK, SavesType
    <3>2. FilesType' /\ EngineType' /\ RecordsType' /\ ScanType' /\ AlertsType' /\ BoundsType'
      BY <2>2 DEF SaveOpens, TypeOK, FilesType, EngineType, RecordsType, ScanType, AlertsType, BoundsType
    <3> QED
      BY <3>1, <3>2 DEF TypeOK
  <2> QED
    BY <1>19, <2>1, <2>2
<1>20. ASSUME StartSaves PROVE TypeOK'
  <2>0. 0 \in Savers /\ gen \in Gens
    BY <1>20 DEF Savers, StartSaves, StageInv, TypeOK, EngineType
  <2>1. EngineType'
    BY <1>20, <2>0, AfterSaveType DEF StartSaves, TypeOK, EngineType
  <2>2. RecordsType' /\ SavesType'
    BY <1>20, <2>0, MayTakeType DEF StartSaves, TypeOK, RecordsType, SavesType
  <2>3. FilesType' /\ ScanType' /\ AlertsType' /\ BoundsType'
    BY <1>20 DEF StartSaves, TypeOK, FilesType, ScanType, AlertsType, BoundsType
  <2> QED
    BY <2>1, <2>2, <2>3 DEF TypeOK
<1>21. ASSUME NEW s \in Savers, Rename(s) PROVE TypeOK'
  <2>1. s = 0 /\ caller = "started" => gen \in Gens
    BY DEF StageInv, TypeOK, EngineType
  <2>2. EngineType'
    BY <1>21, <2>1, AfterSaveType DEF Rename, TypeOK, EngineType
  <2>3. RecordsType'
    BY <1>21 DEF Rename, TypeOK, RecordsType, DirtyAfterRename
  <2>4. SavesType'
    BY <1>21 DEF Rename, TypeOK, SavesType, Installed
  <2>5. FilesType' /\ ScanType' /\ AlertsType' /\ BoundsType'
    BY <1>21 DEF Rename, TypeOK, FilesType, ScanType, AlertsType, BoundsType
  <2> QED
    BY <2>2, <2>3, <2>4, <2>5 DEF TypeOK
<1>22. ASSUME NEW s \in Savers, SaveFails(s) PROVE TypeOK'
  <2>1. s = 0 /\ caller = "started" => gen \in Gens
    BY DEF StageInv, TypeOK, EngineType
  <2>2. EngineType'
    BY <1>22, <2>1, AfterSaveType DEF SaveFails, TypeOK, EngineType
  <2>3. RecordsType'
    BY <1>22 DEF SaveFails, TypeOK, RecordsType
  <2>4. SavesType'
    BY <1>22 DEF SaveFails, TypeOK, SavesType
  <2>5. BoundsType'
    BY <1>22 DEF SaveFails, TypeOK, BoundsType
  <2>6. FilesType' /\ ScanType' /\ AlertsType'
    BY <1>22 DEF SaveFails, TypeOK, FilesType, ScanType, AlertsType
  <2> QED
    BY <2>2, <2>3, <2>4, <2>5, <2>6 DEF TypeOK
<1>23. ASSUME StartProcess PROVE TypeOK'
  <2>1. saved.entries \in Entries /\ saved.coverage \in Policies \cup {NoPolicy, NoCoverage}
    BY SnapshotParts DEF TypeOK, SavesType
  <2>2. 1 \in Gens /\ LocalPolicy \in Policies
    BY DEF Gens
  <2>3. EngineType' /\ ScanType' /\ BoundsType'
    BY <1>23, <2>1, <2>2, StartType DEF StartProcess
  <2>4. RecordsType'
    BY <1>23, <2>1 DEF StartProcess, RecordsType, TypeOK
  <2>5. FilesType' /\ SavesType' /\ AlertsType'
    BY <1>23 DEF StartProcess, TypeOK, FilesType, SavesType, AlertsType
  <2> QED
    BY <2>3, <2>4, <2>5 DEF TypeOK
<1>24. ASSUME Exit PROVE TypeOK'
  <2>1. ProcessEnds /\ BoundsType'
    BY <1>24 DEF Exit, ProcessEnds, TypeOK, BoundsType
  <2> QED
    BY <2>1, ProcessEndsType DEF TypeOK
<1>25. ASSUME NEW p \in Policies, Restart(p) PROVE TypeOK'
  <2>1. gen + 1 \in Gens
    BY <1>25 DEF Restart, Start, TypeOK, EngineType, BoundsType, StageInv, Gens
  <2>2. EngineType' /\ ScanType' /\ BoundsType'
    BY <1>25, <2>1, StartType DEF Restart, TypeOK, EngineType, RecordsType
  <2>3. FilesType' /\ RecordsType' /\ SavesType' /\ AlertsType'
    BY <1>25 DEF Restart, TypeOK, FilesType, RecordsType, SavesType, AlertsType
  <2> QED
    BY <2>2, <2>3 DEF TypeOK
<1>26. ASSUME UpdateConfig PROVE TypeOK'
  <2>1. gen \in Gens
    BY <1>26 DEF UpdateConfig, StageInv, TypeOK, EngineType
  <2> QED
    BY <1>26, <2>1, StoppedType DEF UpdateConfig
<1>27. ASSUME Stop PROVE TypeOK'
  <2>1. gen \in Gens
    BY <1>27 DEF Stop, StageInv, TypeOK, EngineType
  <2> QED
    BY <1>27, <2>1, StoppedType DEF Stop
<1>28. ASSUME Kill PROVE TypeOK'
  <2>1. ProcessEnds /\ BoundsType'
    BY <1>28 DEF Kill, ProcessEnds, TypeOK, BoundsType
  <2> QED
    BY <2>1, ProcessEndsType DEF TypeOK
<1>29. ASSUME NEW a \in sending, Deliver(a) PROVE TypeOK'
  <2>1. AlertsType'
    BY <1>29, <1>0, ChannelType DEF Deliver, TypeOK, AlertsType
  <2>2. FilesType' /\ EngineType' /\ RecordsType' /\ ScanType' /\ SavesType' /\ BoundsType'
    BY <1>29 DEF Deliver, TypeOK, FilesType, EngineType, RecordsType, ScanType, SavesType, BoundsType
  <2> QED
    BY <2>1, <2>2 DEF TypeOK
<1>30. ASSUME Drain PROVE TypeOK'
  <2>1. ASSUME NEW f \in Files, \E a \in channel : a.path = f /\ a.state.ver > told[f].ver
        PROVE  (CHOOSE a \in channel :
                  /\ a.path = f
                  /\ \A b \in channel : b.path = f => b.state.ver <= a.state.ver).state
                 \in FileStates
    <3>1. \E a \in channel : /\ a.path = f
                              /\ \A b \in channel : b.path = f => b.state.ver <= a.state.ver
      BY <2>1, NewestAlert
    <3>2. (CHOOSE a \in channel :
             /\ a.path = f
             /\ \A b \in channel : b.path = f => b.state.ver <= a.state.ver) \in channel
      BY <3>1
    <3> QED
      BY <3>2 DEF TypeOK, AlertsType, Alerts
  <2>2. \A f \in Files : told'[f] \in FileStates \cup {Unknown}
    BY <1>30, <2>1 DEF Drain, TypeOK, FilesType
  <2>3. told' = [f \in Files |-> told'[f]]
    BY <1>30 DEF Drain
  <2>4. FilesType'
    BY <1>30, <2>2, <2>3 DEF Drain, TypeOK, FilesType
  <2>5. AlertsType'
    BY <1>30, FS_EmptySet DEF Drain, TypeOK, AlertsType
  <2>6. EngineType' /\ RecordsType' /\ ScanType' /\ SavesType' /\ BoundsType'
    BY <1>30 DEF Drain, TypeOK, EngineType, RecordsType, ScanType, SavesType, BoundsType
  <2> QED
    BY <2>4, <2>5, <2>6 DEF TypeOK
<1>31. ASSUME UNCHANGED vars PROVE TypeOK'
  BY <1>31 DEF vars, TypeOK, FilesType, EngineType, RecordsType, ScanType, SavesType, AlertsType, BoundsType
<1> QED
  BY <1>1, <1>2, <1>3, <1>4, <1>5, <1>6, <1>7, <1>8, <1>9, <1>10, <1>11, <1>12, <1>13, <1>14,
     <1>15, <1>16, <1>17, <1>18, <1>19, <1>20, <1>21, <1>22, <1>23, <1>24, <1>25, <1>26,
     <1>27, <1>28, <1>29, <1>30, <1>31 DEF Next, WatcherStep, ScanStep, EngineStep

-----------------------------------------------------------------------------
(* Who can be at work together *)

LEMMA StageInit == Init => StageInv
<1> SUFFICES ASSUME Init PROVE StageInv
  OBVIOUS
<1>1. IsFiniteSet(channel)
  BY TypeInit
<1>2. Saving = {} /\ \A s \in Savers : ~Saves(s)
  BY DEF Init, Saving, Saves
<1> QED
  BY <1>1, <1>2 DEF Init, StageInv, Gens, Savers

\* A step of a scan already at work.
LEMMA ScanMovesStage ==
  ASSUME TypeOK, StageInv, NEW g \in Gens, scan[g] # NoScan,
         \A h \in Gens : h # g => scan'[h] = scan[h],
         UNCHANGED <<process, engine, starts, saver, taking, task, channel, sending>>
  PROVE  StageInv'
<1>1. Saving' = Saving /\ \A s \in Savers : Saves(s)' <=> Saves(s)
  BY DEF Saving, Saves
<1>2. /\ process = "up" /\ gen \in Gens /\ ~(g > gen)
      /\ task[g] \notin {"sleep", "awake", "saving"}
      /\ ~(caller = "started" /\ gen = g)
  BY DEF StageInv, TypeOK, EngineType
<1>3. UNCHANGED <<process, caller, gen, gens, starts, saver, taking, task, channel, sending>>
  BY DEF engine
<1>4. 0 \in Savers /\ \A h \in Gens : h \in Savers
  BY DEF Gens, Savers
<1> QED
  BY <1>1, <1>2, <1>3, <1>4 DEF StageInv

\* The end of a save: one saver less, and its task or caller goes on.
LEMMA AfterSaveStage ==
  ASSUME TypeOK, StageInv, process = "up", NEW s \in Savers, s # 0 => Saves(s), AfterSave(s),
         ~Saves(s)', \A t \in Savers : t # s => (Saves(t)' <=> Saves(t)),
         UNCHANGED <<process, gen, gens, starts, scan, channel, sending>>
  PROVE  StageInv'
<1>2. gen \in Gens /\ task \in [Gens -> {"none", "sleep", "awake", "scanning", "saving"}]
  BY DEF StageInv, TypeOK, EngineType
<1>3. Gens \subseteq Savers /\ 0 \in Savers /\ 0 \notin Gens
      /\ \A t \in Savers : t # 0 => t \in Gens
  BY DEF Gens, Savers
<1>4. CASE s # 0
  <2>1. /\ caller' = caller /\ task[s] = "saving" /\ scan[s] = NoScan
        /\ task'[s] \in {"none", "sleep"} /\ ~(s > gen)
        /\ \A h \in Gens : h # s => task'[h] = task[h]
    <3>1. s \in Gens
      BY <1>3, <1>4
    <3>2. task[s] = "saving" /\ scan[s] = NoScan /\ ~(s > gen)
      BY <1>4, <3>1 DEF StageInv
    <3>3. caller' = caller /\ task' = [task EXCEPT ![s] = Sleeps(s)]
      BY <1>4 DEF AfterSave
    <3> QED
      BY <1>2, <3>1, <3>2, <3>3 DEF Sleeps
  <2> QED
    BY <1>2, <1>3, <1>4, <2>1 DEF StageInv
<1>5. CASE s = 0 /\ caller = "started"
  <2>1. /\ caller' = "idle" /\ task'[gen] = "sleep" /\ scan[gen] = NoScan
        /\ \A h \in Gens : h # gen => task'[h] = task[h]
    BY <1>2, <1>5 DEF AfterSave, StageInv
  <2>2. ~Saves(gen)
    BY <1>2, <1>5 DEF StageInv
  <2>3. \A h \in Gens : h > gen => h # gen
    BY DEF Gens
  <2> QED
    BY <1>2, <1>3, <1>5, <2>1, <2>2, <2>3 DEF StageInv
<1>6. CASE s = 0 /\ caller # "started"
  <2>1. caller' = caller /\ task' = task
    BY <1>6 DEF AfterSave
  <2> QED
    BY <1>2, <1>3, <1>6, <2>1 DEF StageInv
<1> QED
  BY <1>4, <1>5, <1>6

\* The mark is taken by a saver that has no save under way, or is not set.
LEMMA MayTake ==
  ASSUME TypeOK, NEW s \in Savers, SaveIfChanged(s), ~Saves(s)
  PROVE  /\ \A t \in Savers : t # s => (Saves(t)' <=> Saves(t))
         /\ Saves(s)' <=> dirty
         /\ Saving' = Saving
  BY DEF SaveIfChanged, TypeOK, SavesType, Saves, Saving

\* The snapshot of a save that took the mark.
LEMMA Collects ==
  ASSUME TypeOK, StageInv, NEW s \in Savers, SaveCollects(s)
  PROVE  /\ saver'[s] # NoSnapshot /\ saver'[s].entries = baseline
         /\ \A t \in Savers : t # s => saver'[t] = saver[t]
         /\ Saving' = Saving \cup {s} /\ s \notin Saving
         /\ taking' = taking /\ s \in taking /\ tmp' = tmp
         /\ \A t \in Savers : Saves(t)' <=> Saves(t)
<1>1. Snapshot(coverage) # NoSnapshot /\ Snapshot(coverage).entries = baseline
  BY SnapshotIsOne DEF TypeOK, RecordsType
<1>2. /\ saver' = [saver EXCEPT ![s] = Snapshot(coverage)]
      /\ taking' = taking /\ s \in taking /\ tmp' = tmp /\ saver[s] = NoSnapshot
  BY DEF SaveCollects
<1>3. saver \in [Savers -> Snapshots \cup {NoSnapshot}]
  BY DEF TypeOK, SavesType
<1> QED
  BY <1>1, <1>2, <1>3 DEF Saving, Saves

LEMMA StoppedStage ==
  ASSUME TypeOK, StageInv, Stopped, gen \in Gens, process = "up", ~Saves(0),
         caller' \in {"updating", "exiting"}, starts' = starts
  PROVE  StageInv'
<1>1. \A t \in Savers : t # 0 => (Saves(t)' <=> Saves(t))
  BY MayTake DEF Stopped, Savers, StageInv, TypeOK, SavesType
<1>2. /\ gens' = [gens EXCEPT ![gen].shutdown = TRUE]
      /\ task' = [task EXCEPT ![gen] = IF @ = "sleep" THEN "none" ELSE @]
      /\ UNCHANGED <<process, gen, scan, starts, channel, sending>>
  BY DEF Stopped, alerts
<1>3. \A g \in Gens : g \in Savers /\ g # 0
  BY DEF Gens, Savers
<1>4. /\ \A g \in Gens : g # gen => gens'[g] = gens[g] /\ task'[g] = task[g]
      /\ task'[gen] = IF task[gen] = "sleep" THEN "none" ELSE task[gen]
      /\ \A g \in Gens : ~(g > gen /\ g = gen)
  BY <1>2 DEF TypeOK, EngineType, Gens
<1> QED
  BY <1>1, <1>2, <1>3, <1>4 DEF StageInv

LEMMA StartStage ==
  ASSUME TypeOK, StageInv, NEW g \in Gens, g = gen + 1, NEW p \in Policies,
         NEW known \in Policies \cup {NoPolicy, NoCoverage}, Start(g, p, known),
         process' = "up", ~Saves(0),
         UNCHANGED <<task, taking, saver, channel, sending>>
  PROVE  StageInv'
<1>1. /\ gens' = [gens EXCEPT ![g] = [policy |-> p, shutdown |-> FALSE, ready |-> FALSE]]
      /\ scan' = [scan EXCEPT ![g] = [StartedScan EXCEPT !.previous = known]]
      /\ gen' = g /\ caller' = "starting" /\ starts' = starts + 1
  BY DEF Start
<1>2. \A h \in Gens : h # g => gens'[h] = gens[h] /\ scan'[h] = scan[h]
  BY <1>1 DEF TypeOK, EngineType, ScanType
<1>3. /\ gen \in Nat /\ starts \in Nat /\ gen <= starts
      /\ \A h \in Gens : h > gen' => h # g /\ h > gen
  <2>1. gen \in Nat /\ starts \in Nat
    BY FimAssumption DEF TypeOK, EngineType, BoundsType
  <2>2. gen <= starts
    BY DEF StageInv
  <2> QED
    BY <1>1, <2>1, <2>2 DEF Gens
<1>4. task[g] = "none" /\ g > gen
  BY <1>3 DEF StageInv
<1>5. gen' <= starts'
  BY <1>1, <1>3
<1>6. /\ \A s \in Savers : Saves(s)' <=> Saves(s)
      /\ 0 \in Savers /\ \A h \in Gens : h \in Savers
  BY DEF Saves, Gens, Savers
<1> QED
  BY <1>1, <1>2, <1>3, <1>4, <1>5, <1>6 DEF StageInv

LEMMA ProcessEndsStage ==
  ASSUME TypeOK, StageInv, ProcessEnds
  PROVE  StageInv'
<1>1. IsFiniteSet(channel')
  BY ProcessEndsType
<1>2. Saving' = {} /\ \A s \in Savers : ~Saves(s)'
  BY DEF ProcessEnds, Saving, Saves
<1>3. 0 <= starts' /\ 0 \in Savers /\ \A g \in Gens : g \in Savers
  BY DEF ProcessEnds, TypeOK, BoundsType, Gens, Savers
<1> QED
  BY <1>1, <1>2, <1>3 DEF ProcessEnds, StageInv

\* The report of a scan at work, by the caller or the periodic task.
LEMMA ScanReportStage ==
  ASSUME TypeOK, StageInv, NEW g \in Gens, ScanReport(g)
  PROVE  /\ scan[g] # NoScan /\ process = "up" /\ g <= gen /\ scan'[g] = NoScan
         /\ \A h \in Gens : h # g => scan'[h] = scan[h]
         /\ task[g] \notin {"sleep", "awake", "saving"} /\ ~Saves(g)
<1>1. scan[g] # NoScan
  BY DEF ScanReport, Swept, NoScan
<1>2. scan' = [scan EXCEPT ![g] = NoScan]
  BY DEF ScanReport
<1>3. gen \in Nat /\ g \in Nat
  BY DEF TypeOK, EngineType, Gens
<1> QED
  BY <1>1, <1>2, <1>3 DEF StageInv, TypeOK, EngineType, ScanType

LEMMA StageStep ==
  ASSUME TypeOK, StageInv, [Next]_vars
  PROVE  StageInv'
<1> USE DEF engine, records, saves, alerts, bounds, history
<1>0. 0 \in Savers /\ 0 \notin Gens /\ \A g \in Gens : g \in Savers
  BY DEF Gens, Savers
<1>1. ASSUME NEW f \in Files, Change(f) PROVE StageInv'
  BY <1>1 DEF Change, StageInv, Saving, Saves
<1>2. ASSUME NEW g \in Gens, WatcherStarts(g) \/ WatcherEnds(g) PROVE StageInv'
  BY <1>2 DEF WatcherStarts, WatcherEnds, StageInv, Saving, Saves
<1>3. ASSUME NEW g \in Gens, NEW f \in Files, WatcherSkips(g, f) PROVE StageInv'
  BY <1>3 DEF WatcherSkips, StageInv, Saving, Saves
<1>4. ASSUME NEW g \in Gens, NEW f \in Files, WatcherReads(g, f) PROVE StageInv'
  <2>1. gens[g] # NoGen /\ process = "up"
    BY <1>4 DEF WatcherReads, NoGen, StageInv, TypeOK, EngineType, Gens
  <2> QED
    BY <1>4, <2>1 DEF WatcherReads, StageInv, Saving, Saves
<1>5. ASSUME NEW m \in unmarked, WatcherMarks(m) PROVE StageInv'
  <2> DEFINE a == [path |-> m.path, state |-> m.state]
  <2>1. process = "up"
    BY DEF StageInv, TypeOK, EngineType
  <2>2. IsFiniteSet(channel')
    <3>1. channel' = channel \/ channel' = channel \cup {a}
      BY <1>5 DEF WatcherMarks, TrySend
    <3>2. IsFiniteSet(channel) /\ IsFiniteSet(channel \cup {a})
      BY FS_AddElement DEF StageInv
    <3> QED
      BY <3>1, <3>2
  <2> QED
    BY <1>5, <2>1, <2>2 DEF WatcherMarks, StageInv, Saving, Saves
<1>6. ASSUME NEW m \in unmarked, ScanMarks(m) PROVE StageInv'
  <2>1. process = "up"
    BY DEF StageInv, TypeOK, EngineType
  <2> QED
    BY <1>6, <2>1 DEF ScanMarks, StageInv, Saving, Saves
<1>7. ASSUME NEW g \in Gens, ScanLock(g) \/ ScanRecords(g) \/ Sweep(g) PROVE StageInv'
  <2>1. scan[g] # NoScan
    BY <1>7 DEF ScanLock, ScanRecords, Sweep, NoScan
  <2>2. /\ \A h \in Gens : h # g => scan'[h] = scan[h]
        /\ UNCHANGED <<process, engine, starts, saver, taking, task, channel, sending>>
    BY <1>7 DEF ScanLock, ScanRecords, Sweep, TypeOK, ScanType
  <2> QED
    BY <2>1, <2>2, ScanMovesStage
<1>8. ASSUME NEW g \in Gens, NEW f \in Files,
             ScanReads(g, f) \/ WalkMisses(g, f) \/ SweepDrops(g, f)
      PROVE  StageInv'
  <2>1. scan[g] # NoScan
    BY <1>8 DEF ScanReads, WalkMisses, SweepDrops, NoScan
  <2>2. /\ \A h \in Gens : h # g => scan'[h] = scan[h]
        /\ UNCHANGED <<process, engine, starts, saver, taking, task, channel, sending>>
    BY <1>8 DEF ScanReads, WalkMisses, SweepDrops, TypeOK, ScanType
  <2> QED
    BY <2>1, <2>2, ScanMovesStage
<1>9. ASSUME NEW g \in Gens, PeriodicScanEnds(g) PROVE StageInv'
  <2>1. ScanReport(g) /\ UNCHANGED <<process, engine, starts, saver, taking, channel>>
    BY <1>9 DEF PeriodicScanEnds
  <2>2. /\ task'[g] \in {"none", "awake"} /\ task[g] = "scanning"
        /\ \A h \in Gens : h # g => task'[h] = task[h]
    BY <1>9 DEF PeriodicScanEnds, Awake, TypeOK, EngineType
  <2>3. \A s \in Savers : Saves(s)' <=> Saves(s)
    BY <2>1 DEF Saves
  <2>4. gen \in Gens /\ ~(g > gen) /\ (caller \in {"starting", "started"} => gen # g)
    BY <2>1, <2>2, ScanReportStage DEF StageInv, TypeOK, EngineType, Gens
  <2> QED
    BY <1>0, <2>1, <2>2, <2>3, <2>4, ScanReportStage DEF StageInv
<1>10. ASSUME NEW g \in Gens, Started(g) PROVE StageInv'
  <2>1. /\ ScanReport(g) /\ g = gen /\ caller = "starting" /\ caller' = "started"
        /\ UNCHANGED <<process, gen, starts, task, saver, taking, channel>>
    BY <1>10 DEF Started
  <2>2. \A h \in Gens : h # g => gens'[h] = gens[h]
    BY <1>10 DEF Started, TypeOK, EngineType
  <2>3. \A s \in Savers : Saves(s)' <=> Saves(s)
    BY <2>1 DEF Saves
  <2>5. \A h \in Gens : h > gen => h # g
    BY <2>1 DEF Gens
  <2> QED
    BY <1>0, <2>1, <2>2, <2>3, <2>5, ScanReportStage DEF StageInv
<1>11. ASSUME NEW g \in Gens, PeriodicScan(g) PROVE StageInv'
  <2>1. /\ task[g] = "sleep" /\ task'[g] = "scanning"
        /\ \A h \in Gens : h # g => task'[h] = task[h] /\ scan'[h] = scan[h]
        /\ UNCHANGED <<process, engine, starts, saver, taking, channel, sending>>
    BY <1>11 DEF PeriodicScan, TypeOK, EngineType, ScanType
  <2>2. process = "up" /\ gen \in Gens /\ ~(g > gen)
        /\ (caller \in {"starting", "started"} => gen # g)
    BY <2>1 DEF StageInv, TypeOK, EngineType
  <2>3. \A s \in Savers : Saves(s)' <=> Saves(s)
    BY <2>1 DEF Saves
  <2> QED
    BY <1>0, <2>1, <2>2, <2>3 DEF StageInv
<1>12. ASSUME NEW g \in Gens, PeriodicSave(g) PROVE StageInv'
  <2>1. /\ task[g] = "awake" /\ task'[g] = IF dirty THEN "saving" ELSE Sleeps(g)
        /\ \A h \in Gens : h # g => task'[h] = task[h]
        /\ UNCHANGED <<process, engine, starts, scan, channel, sending>>
    BY <1>12 DEF PeriodicSave, TypeOK, EngineType
  <2>2. process = "up" /\ gen \in Gens /\ ~(g > gen) /\ scan[g] = NoScan /\ ~Saves(g)
        /\ (caller \in {"starting", "started"} => gen # g)
    BY <2>1 DEF StageInv, TypeOK, EngineType
  <2>3. /\ \A t \in Savers : t # g => (Saves(t)' <=> Saves(t))
        /\ Saves(g)' <=> dirty
    BY <1>0, <1>12, <2>2, MayTake DEF PeriodicSave, StageInv, TypeOK, SavesType
  <2>4. Sleeps(g) \in {"none", "sleep"}
    BY DEF Sleeps
  <2> QED
    BY <1>0, <2>1, <2>2, <2>3, <2>4 DEF StageInv
<1>13. ASSUME NEW g \in Gens, PeriodicWakes(g) PROVE StageInv'
  <2>1. /\ task[g] = "sleep" /\ task'[g] = "awake"
        /\ \A h \in Gens : h # g => task'[h] = task[h]
        /\ UNCHANGED <<process, engine, starts, scan, saver, taking, channel, sending>>
    BY <1>13 DEF PeriodicWakes, TypeOK, EngineType
  <2>2. process = "up" /\ gen \in Gens /\ ~(g > gen) /\ scan[g] = NoScan
        /\ (caller \in {"starting", "started"} => gen # g)
    BY <2>1 DEF StageInv, TypeOK, EngineType
  <2>3. \A s \in Savers : Saves(s)' <=> Saves(s)
    BY <2>1 DEF Saves
  <2> QED
    BY <1>0, <2>1, <2>2, <2>3 DEF StageInv
<1>14. ASSUME NEW s \in Savers, SaveCollects(s) \/ SaveOpens(s) PROVE StageInv'
  <2>1. /\ process = "up"
        /\ UNCHANGED <<process, engine, starts, scan, task, channel, sending>>
    BY <1>14 DEF SaveCollects, SaveOpens, StageInv, TypeOK, EngineType
  <2>2. \A t \in Savers : Saves(t)' <=> Saves(t)
    BY <1>14, Collects DEF SaveOpens, Saves
  <2> QED
    BY <1>0, <2>1, <2>2 DEF StageInv
<1>15. ASSUME StartSaves PROVE StageInv'
  <2>1. /\ process = "up" /\ caller = "started" /\ ~Saves(0)
        /\ UNCHANGED <<process, gen, gens, starts, scan, channel, sending>>
        /\ IF dirty THEN UNCHANGED <<caller, task>> ELSE AfterSave(0)
    BY <1>15 DEF StartSaves, StageInv, TypeOK, EngineType
  <2>2. /\ \A t \in Savers : t # 0 => (Saves(t)' <=> Saves(t))
        /\ Saves(0)' <=> dirty
    BY <1>0, <1>15, <2>1, MayTake DEF StartSaves, StageInv, TypeOK, SavesType
  <2>3. CASE dirty
    BY <1>0, <2>1, <2>2, <2>3 DEF StageInv
  <2>4. CASE ~dirty
    BY <1>0, <2>1, <2>2, <2>4, AfterSaveStage
  <2> QED
    BY <2>3, <2>4
<1>16. ASSUME NEW s \in Savers, Rename(s) \/ SaveFails(s) PROVE StageInv'
  <2>1. /\ saver[s] # NoSnapshot /\ saver' = [saver EXCEPT ![s] = NoSnapshot]
        /\ AfterSave(s)
        /\ taking' = taking \ {s}
        /\ UNCHANGED <<process, gen, gens, starts, scan, channel, sending>>
    BY <1>16 DEF Rename, SaveFails
  <2>2. process = "up"
    BY <2>1 DEF StageInv, Saving, TypeOK, EngineType
  <2>3. ~Saves(s)' /\ Saves(s) /\ \A t \in Savers : t # s => (Saves(t)' <=> Saves(t))
    BY <2>1 DEF Saves, TypeOK, SavesType
  <2> QED
    BY <2>1, <2>2, <2>3, AfterSaveStage
<1>17. ASSUME StartProcess PROVE StageInv'
  <2>1. saved.coverage \in Policies \cup {NoPolicy, NoCoverage}
    BY SnapshotParts DEF TypeOK, SavesType
  <2>2. 1 \in Gens /\ LocalPolicy \in Policies
    BY DEF Gens
  <2>3. gen = 0 /\ ~Saves(0)
    BY <1>0, <1>17 DEF StartProcess, StageInv, Saving, Saves
  <2> QED
    BY <1>17, <2>1, <2>2, <2>3, StartStage DEF StartProcess
<1>18. ASSUME NEW p \in Policies, Restart(p) PROVE StageInv'
  <2>1. gen + 1 \in Gens /\ process = "up"
    BY <1>18 DEF Restart, Start, TypeOK, EngineType, BoundsType, StageInv, Gens
  <2>2. coverage \in Policies \cup {NoPolicy, NoCoverage}
    BY DEF TypeOK, RecordsType
  <2> QED
    BY <1>18, <2>1, <2>2, StartStage DEF Restart
<1>19. ASSUME UpdateConfig \/ Stop PROVE StageInv'
  <2>1. gen \in Gens /\ process = "up"
    BY <1>19 DEF UpdateConfig, Stop, StageInv, TypeOK, EngineType
  <2>2. Stopped /\ caller' \in {"updating", "exiting"} /\ starts' = starts /\ ~Saves(0)
    BY <1>19 DEF UpdateConfig, Stop, Stopped, StageInv
  <2> QED
    BY <2>1, <2>2, StoppedStage
<1>20. ASSUME Exit \/ Kill PROVE StageInv'
  BY <1>20, ProcessEndsStage DEF Exit, Kill
<1>21. ASSUME NEW a \in sending, Deliver(a) PROVE StageInv'
  <2>1. IsFiniteSet(channel')
    BY <1>21, FS_AddElement DEF Deliver, StageInv
  <2>2. process = "up"
    BY DEF StageInv, TypeOK, EngineType
  <2> QED
    BY <1>21, <2>1, <2>2 DEF Deliver, StageInv, Saving, Saves
<1>22. ASSUME Drain PROVE StageInv'
  <2>1. IsFiniteSet(channel') /\ channel' = {}
    BY <1>22, FS_EmptySet DEF Drain
  <2> QED
    BY <1>22, <2>1 DEF Drain, StageInv, Saving, Saves
<1>23. ASSUME UNCHANGED vars PROVE StageInv'
  BY <1>23 DEF vars, StageInv, Saving, Saves
<1> QED
  BY <1>1, <1>2, <1>3, <1>4, <1>5, <1>6, <1>7, <1>8, <1>9, <1>10, <1>11, <1>12, <1>13,
     <1>14, <1>15, <1>16, <1>17, <1>18, <1>19, <1>20, <1>21, <1>22, <1>23 DEF Next, WatcherStep, ScanStep, EngineStep

-----------------------------------------------------------------------------
(* The scans *)

\* A scan no step touched, but for a mark it had to make.
LEMMA ScanKept ==
  ASSUME NEW g \in Gens, ScanShape(g), TypeOK, TypeOK', scan'[g] = scan[g],
         FoundBy(g)' \subseteq FoundBy(g),
         changes' >= changes, scan[g] # NoScan => gens'[g].policy = gens[g].policy
  PROVE  ScanShape(g)' /\ (Busy(g)' => Busy(g))
<1>1. Busy(g)' => Busy(g)
  BY DEF Busy, Swept, ReadAll
<1>2. scan[g].since \in Nat /\ changes \in Nat /\ changes' \in Nat
  BY DEF TypeOK, BoundsType, ScanType, Scans, Versions
<1>3. CASE scan[g] = NoScan
  BY <1>1, <1>2, <1>3 DEF ScanShape, NoScan
<1>4. CASE scan[g] # NoScan
  BY <1>1, <1>2, <1>4 DEF ScanShape
<1> QED
  BY <1>3, <1>4

\* A scan that is not at work, or has just begun.
LEMMA ScanAtRest ==
  ASSUME NEW g \in Gens, TypeOK',
         \/ scan'[g] = NoScan
         \/ \E known : scan'[g] = [StartedScan EXCEPT !.previous = known]
         \/ scan'[g] = StartedScan
  PROVE  ScanShape(g)' /\ ~Busy(g)'
<1>0. \A known : LET s == [StartedScan EXCEPT !.previous = known] IN
        /\ s.todo = {} /\ s.visited = {} /\ s.found = {} /\ s.reading = NotReading
        /\ s.since = 0 /\ s.step = "waiting"
  BY NoThings DEF StartedScan, NoScan, Scans
<1>1. /\ scan'[g].todo = {} /\ scan'[g].visited = {} /\ scan'[g].found = {}
      /\ scan'[g].reading = NotReading /\ scan'[g].since = 0
      /\ scan'[g].step \in {"idle", "waiting"}
      /\ scan'[g].step = "idle" => scan'[g] = NoScan
  <2>1. CASE scan'[g] = NoScan
    BY <2>1 DEF NoScan
  <2>2. CASE \E known : scan'[g] = [StartedScan EXCEPT !.previous = known]
    BY <1>0, <2>2
  <2>3. CASE scan'[g] = StartedScan
    BY <2>3, NoThings DEF StartedScan, NoScan, Scans
  <2> QED
    BY <2>1, <2>2, <2>3
<1>2. changes' \in Nat
  BY DEF TypeOK, BoundsType
<1> QED
  BY <1>1, <1>2 DEF ScanShape, Busy

\* All scans are as they were, or at rest.
LEMMA ScansAtRest ==
  ASSUME ScanInv, TypeOK, TypeOK', changes' >= changes,
         \A m \in unmarked' : m \in unmarked \/ m.by = "watcher",
         \A g \in Gens :
           \/ /\ scan'[g] = scan[g]
              /\ scan[g] # NoScan => gens'[g].policy = gens[g].policy
           \/ scan'[g] = NoScan
           \/ \E known : scan'[g] = [StartedScan EXCEPT !.previous = known]
           \/ scan'[g] = StartedScan
  PROVE  ScanInv'
<1>0. \A g \in Gens : FoundBy(g)' \subseteq FoundBy(g)
  BY DEF FoundBy
<1>1. \A g \in Gens : ScanShape(g)' /\ (Busy(g)' => Busy(g))
  BY <1>0, ScanKept, ScanAtRest DEF ScanInv
<1> QED
  BY <1>1 DEF ScanInv

\* One scan moves, and only its own step makes it hold the lock.
LEMMA OneScanMoves ==
  ASSUME ScanInv, TypeOK, TypeOK', NEW g \in Gens, UNCHANGED <<changes, gens>>,
         ScanShape(g)', \A h \in Gens : h # g => scan'[h] = scan[h],
         \A h \in Gens : h # g => FoundBy(h)' \subseteq FoundBy(h),
         Busy(g) \/ \A h \in Gens : ~Busy(h)
  PROVE  ScanInv'
<1>1. \A h \in Gens : h # g => ScanShape(h)' /\ (Busy(h)' => Busy(h))
  BY ScanKept DEF ScanInv, TypeOK, BoundsType
<1> QED
  BY <1>1 DEF ScanInv

LEMMA ScanInit == Init => ScanInv
<1> SUFFICES ASSUME Init PROVE ScanInv
  OBVIOUS
<1>1. \A g \in Gens : ScanShape(g) /\ ~Busy(g)
  BY DEF Init, ScanShape, Busy, NoScan
<1> QED
  BY <1>1 DEF ScanInv

\* Reading, missing, recording and dropping a file, and the two phases.
LEMMA ScanStepShape ==
  ASSUME TypeOK, ScanInv, NEW g \in Gens, NEW f,
         \/ ScanLock(g) \/ ScanRecords(g) \/ Sweep(g)
         \/ ScanReads(g, f) \/ WalkMisses(g, f) \/ SweepDrops(g, f)
  PROVE  ScanShape(g)'
<1> DEFINE s == scan[g]
<1>0. /\ s.since \in Nat /\ changes \in Nat /\ s.todo \subseteq Files
      /\ ScanShape(g) /\ scan \in [Gens -> Scans]
  BY DEF TypeOK, BoundsType, ScanType, Scans, Versions, ScanInv
<1>1. CASE ScanLock(g)
  <2>1. scan'[g] = [s EXCEPT !.step = "walk", !.todo = Covered(gens[g].policy), !.since = changes]
        /\ s.step = "waiting" /\ UNCHANGED <<changes, gens>>
    BY <1>0, <1>1 DEF ScanLock, engine, bounds
  <2>2. s.visited = {} /\ s.found = {} /\ s.reading = NotReading
    BY <1>0, <2>1 DEF ScanShape
  <2>3. /\ scan'[g].step = "walk" /\ scan'[g].todo = Covered(gens[g].policy)
        /\ scan'[g].since = changes /\ scan'[g].visited = {} /\ scan'[g].found = {}
        /\ scan'[g].reading = NotReading
    BY <1>0, <2>1, <2>2 DEF Scans
  <2> QED
    BY <1>0, <2>1, <2>3 DEF ScanShape
<1>2. CASE ScanRecords(g)
  <2> DEFINE c == [path |-> s.reading.path, state |-> s.reading.state,
                   created |-> baseline[s.reading.path] = None]
  <2>1. /\ s.reading # NotReading /\ UNCHANGED <<changes, gens>>
        /\ scan'[g].step = s.step /\ scan'[g].todo = s.todo /\ scan'[g].visited = s.visited
        /\ scan'[g].reading = NotReading /\ scan'[g].since = s.since
        /\ scan'[g].found = s.found \/ scan'[g].found = s.found \cup {c}
    BY <1>0, <1>2 DEF ScanRecords, engine, bounds, Scans
  <2>2. /\ s.reading.path \in Covered(gens[g].policy) \ s.todo
        /\ s.step = "walk" => s.reading.path \in s.visited
        /\ s.step \notin {"idle", "waiting"} /\ s.reading.path \in Files
    BY <1>0, <2>1 DEF ScanShape, NoScan, Scans, Alerts
  <2>3. \A d \in s.found : d.path # s.reading.path
    BY <1>0 DEF ScanShape
  <2>4. c.path = s.reading.path /\ NotReading.path = None
    BY DEF NotReading
  <2>5. \A d \in s.found : d.path \in Files
    BY <1>0 DEF Scans, Finds
  <2>6. \A d \in scan'[g].found :
          /\ d.path \in Covered(gens[g].policy) \ s.todo
          /\ s.step = "walk" => d.path \in s.visited
          /\ d.path # None
    BY <1>0, <2>1, <2>2, <2>4, <2>5 DEF ScanShape
  <2>7. \A d, e \in scan'[g].found : d.path = e.path => d = e
    BY <1>0, <2>1, <2>3, <2>4 DEF ScanShape
  <2> HIDE DEF c
  <2> QED
    BY <1>0, <2>1, <2>2, <2>4, <2>6, <2>7 DEF ScanShape
<1>3. CASE Sweep(g)
  <2>1. /\ s.step = "walk" /\ s.todo = {} /\ s.reading = NotReading
        /\ scan'[g].step = "sweep" /\ scan'[g].todo = Unvisited(g)
        /\ scan'[g].found = s.found /\ scan'[g].reading = NotReading
        /\ scan'[g].since = s.since /\ UNCHANGED <<changes, gens>>
    BY <1>0, <1>3 DEF Sweep, ReadAll, engine, bounds, Scans
  <2>2. \A d \in s.found : d.path \notin Unvisited(g)
    BY <1>0, <2>1 DEF ScanShape, Unvisited
  <2> QED
    BY <1>0, <2>1, <2>2 DEF ScanShape
<1>4. CASE ScanReads(g, f)
  <2>1. /\ f \in s.todo /\ s.reading = NotReading
        /\ s.step = "walk" \/ (s.step = "sweep" /\ f \in Covered(gens[g].policy))
        /\ scan'[g].step = s.step /\ scan'[g].todo = s.todo \ {f}
        /\ scan'[g].visited = (IF s.step = "walk" THEN s.visited \cup {f} ELSE s.visited)
        /\ scan'[g].reading = [path |-> f, state |-> disk[f]]
        /\ scan'[g].found = s.found /\ scan'[g].since = s.since
        /\ UNCHANGED <<changes, gens>>
    BY <1>0, <1>4 DEF ScanReads, engine, bounds, Scans
  <2>2. f \in Covered(gens[g].policy) /\ \A d \in s.found : d.path # f
    BY <1>0, <2>1 DEF ScanShape
  <2> QED
    BY <1>0, <2>1, <2>2 DEF ScanShape
<1>5. CASE WalkMisses(g, f)
  <2>1. /\ s.step = "walk" /\ scan'[g].step = "walk" /\ scan'[g].todo = s.todo \ {f}
        /\ scan'[g].visited = s.visited /\ scan'[g].reading = s.reading
        /\ scan'[g].found = s.found /\ scan'[g].since = s.since
        /\ UNCHANGED <<changes, gens>>
    BY <1>0, <1>5 DEF WalkMisses, engine, bounds, Scans
  <2> QED
    BY <1>0, <2>1 DEF ScanShape
<1>6. CASE SweepDrops(g, f)
  <2>1. /\ s.step = "sweep" /\ scan'[g].step = "sweep" /\ scan'[g].todo = s.todo \ {f}
        /\ scan'[g].visited = s.visited /\ scan'[g].reading = s.reading
        /\ scan'[g].found = s.found /\ scan'[g].since = s.since
        /\ UNCHANGED <<changes, gens>>
    BY <1>0, <1>6 DEF SweepDrops, engine, bounds, Scans
  <2> QED
    BY <1>0, <2>1 DEF ScanShape
<1> QED
  BY <1>1, <1>2, <1>3, <1>4, <1>5, <1>6

LEMMA ScanStepInv ==
  ASSUME TypeOK, TypeOK', StageInv, ScanInv, [Next]_vars
  PROVE  ScanInv'
<1> USE DEF engine, records, saves, alerts, bounds, history
<1>0. changes \in Nat
  BY DEF TypeOK, BoundsType
<1>1. ASSUME NEW f \in Files, Change(f) PROVE ScanInv'
  BY <1>0, <1>1, ScansAtRest DEF Change
<1>2. ASSUME NEW g \in Gens, WatcherStarts(g) \/ WatcherEnds(g) PROVE ScanInv'
  BY <1>0, <1>2, ScansAtRest DEF WatcherStarts, WatcherEnds
<1>3. ASSUME NEW g \in Gens, NEW f \in Files, WatcherSkips(g, f) \/ WatcherReads(g, f)
      PROVE  ScanInv'
  BY <1>0, <1>3, ScansAtRest DEF WatcherSkips, WatcherReads, ToMark
<1>4. ASSUME NEW m \in unmarked, WatcherMarks(m) \/ ScanMarks(m) PROVE ScanInv'
  BY <1>0, <1>4, ScansAtRest DEF WatcherMarks, ScanMarks
<1>5. ASSUME NEW g \in Gens, ScanLock(g) PROVE ScanInv'
  <2>1. /\ \A h \in Gens : h # g => scan'[h] = scan[h]
        /\ \A h \in Gens : FoundBy(h)' \subseteq FoundBy(h)
        /\ UNCHANGED <<changes, gens>>
    BY <1>5 DEF ScanLock, TypeOK, ScanType, FoundBy
  <2>2. \A h \in Gens : ~Busy(h)
    BY <1>5 DEF ScanLock, Busy
  <2>4. ScanShape(g)'
    BY <1>5, ScanStepShape
  <2> QED
    BY <2>1, <2>2, <2>4, OneScanMoves
<1>6. ASSUME NEW g \in Gens, ScanRecords(g) \/ Sweep(g) PROVE ScanInv'
  <2>1. /\ \A h \in Gens : h # g => scan'[h] = scan[h]
        /\ \A h \in Gens : h # g => FoundBy(h)' \subseteq FoundBy(h)
        /\ UNCHANGED <<changes, gens>>
    BY <1>6 DEF ScanRecords, Sweep, TypeOK, ScanType, FoundBy, ToMark
  <2>2. Busy(g)
    BY <1>6 DEF ScanRecords, Sweep, Busy, Swept, ReadAll, ScanInv, ScanShape, NoScan, TypeOK, ScanType, Scans
  <2>3. ScanShape(g)'
    BY <1>6, ScanStepShape
  <2> QED
    BY <2>1, <2>2, <2>3, OneScanMoves
<1>7. ASSUME NEW g \in Gens, NEW f \in Files,
             ScanReads(g, f) \/ WalkMisses(g, f) \/ SweepDrops(g, f)
      PROVE  ScanInv'
  <2>1. /\ \A h \in Gens : h # g => scan'[h] = scan[h]
        /\ \A h \in Gens : h # g => FoundBy(h)' \subseteq FoundBy(h)
        /\ UNCHANGED <<changes, gens>>
    BY <1>7 DEF ScanReads, WalkMisses, SweepDrops, TypeOK, ScanType, FoundBy, ToMark
  <2>2. Busy(g)
    BY <1>7 DEF ScanReads, WalkMisses, SweepDrops, Busy, Swept, ReadAll
  <2>3. ScanShape(g)'
    BY <1>7, ScanStepShape
  <2> QED
    BY <2>1, <2>2, <2>3, OneScanMoves
<1>8. ASSUME NEW g \in Gens, PeriodicScanEnds(g) \/ Started(g) PROVE ScanInv'
  <2>1. /\ ScanReport(g) /\ UNCHANGED <<changes, unmarked>>
        /\ \A h \in Gens : gens'[h].policy = gens[h].policy
    BY <1>8 DEF PeriodicScanEnds, Started, TypeOK, EngineType, Generations
  <2>2. scan'[g] = NoScan /\ \A h \in Gens : h # g => scan'[h] = scan[h]
    BY <2>1, ScanReportStage
  <2> QED
    BY <1>0, <2>1, <2>2, ScansAtRest
<1>9. ASSUME NEW g \in Gens, PeriodicScan(g) PROVE ScanInv'
  <2>1. /\ scan'[g] = StartedScan /\ UNCHANGED <<changes, gens, unmarked>>
        /\ \A h \in Gens : h # g => scan'[h] = scan[h]
    BY <1>9 DEF PeriodicScan, TypeOK, ScanType
  <2> QED
    BY <1>0, <2>1, ScansAtRest
<1>10. ASSUME NEW g \in Gens, PeriodicSave(g) \/ PeriodicWakes(g) PROVE ScanInv'
  BY <1>0, <1>10, ScansAtRest DEF PeriodicSave, PeriodicWakes
<1>11. ASSUME NEW s \in Savers, SaveCollects(s) \/ SaveOpens(s) \/ Rename(s) \/ SaveFails(s) PROVE ScanInv'
  BY <1>0, <1>11, ScansAtRest DEF SaveCollects, SaveOpens, Rename, SaveFails
<1>12. ASSUME StartSaves PROVE ScanInv'
  BY <1>0, <1>12, ScansAtRest DEF StartSaves
<1>13. ASSUME StartProcess \/ \E p \in Policies : Restart(p) PROVE ScanInv'
  <2>0. PICK g \in Gens, p \in Policies :
          \E known : /\ Start(g, p, known) /\ scan[g] = NoScan
                     /\ UNCHANGED <<changes, unmarked>>
    <3>1. CASE StartProcess
      <4>1. 1 \in Gens /\ \A h \in Gens : scan[h] = NoScan
        BY <3>1 DEF StartProcess, StageInv, Gens
      <4> QED
        BY <3>1, <4>1 DEF StartProcess
    <3>2. CASE \E p \in Policies : Restart(p)
      <4>1. PICK p \in Policies : Restart(p)
        BY <3>2
      <4>2. gen + 1 \in Gens /\ gen + 1 > gen
        BY <4>1 DEF Restart, Start, TypeOK, EngineType, BoundsType, StageInv, Gens
      <4> QED
        BY <4>1, <4>2 DEF Restart, StageInv
    <3> QED
      BY <1>13, <3>1, <3>2
  <2>1. PICK known : /\ Start(g, p, known) /\ scan[g] = NoScan
                     /\ UNCHANGED <<changes, unmarked>>
    BY <2>0
  <2>2. /\ scan'[g] = [StartedScan EXCEPT !.previous = known]
        /\ \A h \in Gens : h # g => scan'[h] = scan[h] /\ gens'[h] = gens[h]
    BY <2>1 DEF Start, TypeOK, ScanType, EngineType
  <2>3. \A h \in Gens :
          \/ /\ scan'[h] = scan[h]
             /\ scan[h] # NoScan => gens'[h].policy = gens[h].policy
          \/ scan'[h] = NoScan
          \/ \E k : scan'[h] = [StartedScan EXCEPT !.previous = k]
          \/ scan'[h] = StartedScan
    BY <2>2
  <2>4. changes' >= changes /\ \A m \in unmarked' : m \in unmarked
    BY <1>0, <2>1
  <2> QED
    BY <2>3, <2>4, ScansAtRest, Zenon
<1>14. ASSUME UpdateConfig \/ Stop PROVE ScanInv'
  <2>1. Stopped
    BY <1>14 DEF UpdateConfig, Stop
  <2>2. /\ UNCHANGED <<scan, changes, unmarked>>
        /\ \A h \in Gens : gens'[h].policy = gens[h].policy
    BY <2>1 DEF Stopped, TypeOK, EngineType, Generations
  <2> QED
    BY <1>0, <2>2, ScansAtRest
<1>15. ASSUME Exit \/ Kill PROVE ScanInv'
  <2>1. changes' = changes /\ unmarked' = {} /\ \A h \in Gens : scan'[h] = NoScan
    BY <1>15 DEF Exit, Kill, ProcessEnds
  <2> QED
    BY <1>0, <2>1, ScansAtRest
<1>16. ASSUME NEW a \in sending, Deliver(a) PROVE ScanInv'
  BY <1>0, <1>16, ScansAtRest DEF Deliver
<1>17. ASSUME Drain PROVE ScanInv'
  BY <1>0, <1>17, ScansAtRest DEF Drain
<1>18. ASSUME UNCHANGED vars PROVE ScanInv'
  BY <1>0, <1>18, ScansAtRest DEF vars
<1> QED
  BY <1>1, <1>2, <1>3, <1>4, <1>5, <1>6, <1>7, <1>8, <1>9, <1>10, <1>11, <1>12, <1>13,
     <1>14, <1>15, <1>16, <1>17, <1>18 DEF Next, WatcherStep, ScanStep, EngineStep

-----------------------------------------------------------------------------
(* Versions *)

LEMMA VersionTypes ==
  ASSUME TypeOK
  PROVE  /\ changes \in Nat
         /\ \A f \in Files : disk[f] \in FileStates /\ disk[f].ver \in Nat
                             /\ baseline[f] \in Int /\ saved.entries[f] \in Int
                             /\ \A s \in Savers : saver[s].entries[f] \in Int
         /\ \A g \in Gens : scan[g].since \in Nat
         /\ \A g \in Gens : scan[g].reading # NotReading =>
              /\ scan[g].reading.path \in Files /\ scan[g].reading.state \in FileStates
              /\ scan[g].reading.state.ver \in Nat
<1>1. changes \in Nat
  BY DEF TypeOK, BoundsType
<1>2. \A f \in Files : disk[f] \in FileStates /\ disk[f].ver \in Nat
  BY DEF TypeOK, FilesType, FileStates, Versions
<1>3. \A s \in Savers : saver[s].entries \in Entries
  BY SnapshotParts DEF TypeOK, SavesType
<1>4. saved.entries \in Entries /\ baseline \in Entries
  BY SnapshotParts DEF TypeOK, SavesType, RecordsType
<1>5. \A e \in Entries, f \in Files : e[f] \in Int
  BY DEF Entries, Versions
<1>6. \A g \in Gens : scan[g].since \in Nat
  BY DEF TypeOK, ScanType, Scans, Versions
<1>7. ASSUME NEW g \in Gens, scan[g].reading # NotReading
      PROVE  scan[g].reading \in Alerts
  BY <1>7 DEF TypeOK, ScanType, Scans
<1>8. \A r \in Alerts : r.path \in Files /\ r.state \in FileStates /\ r.state.ver \in Nat
  BY DEF Alerts, FileStates, Versions
<1> QED
  BY <1>1, <1>2, <1>3, <1>4, <1>5, <1>6, <1>7, <1>8

LEMMA VersionInit == Init => VersionInv
<1> SUFFICES ASSUME Init PROVE VersionInv
  OBVIOUS
<1>1. \A f \in Files : disk[f].ver = 0 /\ baseline[f] = -1
  BY DEF Init
<1>2. \A f \in Files : saved.entries[f] = -1 /\ \A s \in Savers : saver[s].entries[f] = -1
  BY DEF Init, NoSnapshot
<1>3. changes = 0 /\ \A g \in Gens : scan[g].reading = NotReading
  BY DEF Init, NoScan
<1> QED
  BY <1>1, <1>2, <1>3 DEF VersionInv

\* Neither a file nor an entry changes, no scan reads more than it did, and a
\* snapshot is one there was or the baseline.
LEMMA VersionKept ==
  ASSUME VersionInv, UNCHANGED <<disk, changes, baseline>>,
         \/ saved' = saved \/ saved' = NoSnapshot
         \/ \E s \in Savers : saved' = saver[s],
         \A s \in Savers : saver'[s] = saver[s] \/ saver'[s].entries = baseline
                           \/ saver'[s] = NoSnapshot,
         \A g \in Gens : \/ scan'[g].reading = NotReading
                         \/ /\ scan'[g].reading = scan[g].reading
                            /\ scan'[g].since = scan[g].since,
         TypeOK
  PROVE  VersionInv'
<1>1. \A f \in Files : NoSnapshot.entries[f] <= disk[f].ver
  BY VersionTypes DEF NoSnapshot
<1>2. \A f \in Files : saved'.entries[f] <= disk[f].ver
  BY <1>1 DEF VersionInv
<1>3. \A f \in Files, s \in Savers : saver'[s].entries[f] <= disk[f].ver
  BY <1>1 DEF VersionInv
<1> QED
  BY <1>2, <1>3 DEF VersionInv

\* Whoever records what it read of one file under the apply lock.
LEMMA VersionRecords ==
  ASSUME TypeOK, VersionInv, NEW f \in Files, NEW v \in Int,
         v <= disk[f].ver, baseline' = [baseline EXCEPT ![f] = v],
         UNCHANGED <<disk, changes, saved, saver>>,
         \A g \in Gens : \/ scan'[g].reading = NotReading
                         \/ /\ scan'[g].reading = scan[g].reading
                            /\ scan'[g].since = scan[g].since
                            /\ scan[g].reading.path = f => v <= scan[g].reading.state.ver
  PROVE  VersionInv'
<1>1. baseline'[f] = v /\ \A h \in Files : h # f => baseline'[h] = baseline[h]
  BY DEF TypeOK, RecordsType, Entries
<1>2. \A h \in Files : baseline'[h] <= disk[h].ver
  BY <1>1 DEF VersionInv
<1>3. ASSUME NEW g \in Gens, scan'[g].reading # NotReading
      PROVE  /\ scan'[g].reading = scan[g].reading /\ scan'[g].since = scan[g].since
             /\ scan[g].reading.path \in Files
             /\ baseline'[scan[g].reading.path] <= scan[g].reading.state.ver
  <2>1. scan[g].reading.path \in Files /\ scan'[g].reading = scan[g].reading
    BY <1>3, VersionTypes
  <2> QED
    BY <1>1, <1>3, <2>1 DEF VersionInv
<1> QED
  BY <1>2, <1>3 DEF VersionInv

\* A scan that has read a file holds the lock, so there is one.
LEMMA OneReading ==
  ASSUME TypeOK, ScanInv, NEW g \in Gens, scan[g].reading # NotReading
  PROVE  /\ Busy(g) /\ scan[g] # NoScan
         /\ \A h \in Gens : h # g => scan[h].reading = NotReading
<1>1. \A h \in Gens : scan[h].reading # NotReading => Busy(h)
  BY DEF ScanInv, ScanShape, NoScan, Busy, Swept, ReadAll, TypeOK, ScanType, Scans
<1> QED
  BY <1>1 DEF ScanInv, NoScan

\* A scan that ends or begins has read nothing it has not recorded; the others
\* are untouched.
LEMMA ReadingsStart ==
  ASSUME TypeOK, NEW g \in Gens, NEW p, NEW known, Start(g, p, known)
  PROVE  \A h \in Gens : \/ scan'[h].reading = NotReading
                         \/ scan'[h] = scan[h]
<1>1. [StartedScan EXCEPT !.previous = known].reading = NotReading
  BY NoThings DEF StartedScan, NoScan, Scans
<1> QED
  BY <1>1 DEF Start, TypeOK, ScanType

LEMMA ReadingsReport ==
  ASSUME TypeOK, NEW g \in Gens, ScanReport(g)
  PROVE  \A h \in Gens : \/ scan'[h].reading = NotReading
                         \/ scan'[h] = scan[h]
  BY DEF ScanReport, NoScan, TypeOK, ScanType

LEMMA VersionStep ==
  ASSUME TypeOK, StageInv, ScanInv, VersionInv, [Next]_vars
  PROVE  VersionInv'
<1> USE DEF engine, records, saves, alerts, bounds, history
<1>1. ASSUME NEW f \in Files, Change(f) PROVE VersionInv'
  <2>1. /\ disk'[f].ver = changes + 1 /\ changes' = changes + 1
        /\ \A h \in Files : h # f => disk'[h] = disk[h]
        /\ UNCHANGED <<baseline, saved, saver, scan>>
    BY <1>1 DEF Change, TypeOK, FilesType
  <2>2. \A g \in Gens : scan[g].since <= changes
    BY DEF ScanInv, ScanShape
  <2>3. \A h \in Files : disk[h].ver <= disk'[h].ver /\ disk'[h].ver <= changes'
                         /\ disk'[h].ver \in Nat
    BY <2>1, VersionTypes DEF VersionInv
  <2>4. \A h \in Files :
          /\ baseline[h] <= disk'[h].ver /\ saved.entries[h] <= disk'[h].ver
          /\ \A s \in Savers : saver[s].entries[h] <= disk'[h].ver
    BY <2>3, VersionTypes DEF VersionInv
  <2>5. ASSUME NEW g \in Gens, scan[g].reading # NotReading
        PROVE  LET r == scan[g].reading IN
               /\ baseline[r.path] <= r.state.ver
               /\ r.state.ver <= disk'[r.path].ver
               /\ r.state # disk'[r.path] => /\ r.state.ver < disk'[r.path].ver
                                             /\ disk'[r.path].ver > scan[g].since
    <3> DEFINE r == scan[g].reading
    <3>1. r.path \in Files /\ r.state.ver \in Nat /\ scan[g].since \in Nat /\ changes \in Nat
      BY <2>5, VersionTypes
    <3>2. /\ baseline[r.path] <= r.state.ver /\ r.state.ver <= disk[r.path].ver
          /\ r.state # disk[r.path] => /\ r.state.ver < disk[r.path].ver
                                       /\ disk[r.path].ver > scan[g].since
          /\ disk[r.path].ver <= changes
      BY <2>5, <3>1 DEF VersionInv
    <3>3. disk[r.path].ver \in Nat
      BY <3>1, VersionTypes
    <3>4. scan[g].since <= changes
      BY <2>2
    <3>5. CASE r.path = f
      <4>1. /\ disk'[r.path].ver > r.state.ver /\ disk'[r.path].ver > scan[g].since
            /\ r.state.ver <= disk'[r.path].ver
        BY <2>1, <3>1, <3>2, <3>3, <3>4, <3>5
      <4> QED
        BY <3>2, <4>1
    <3>6. CASE r.path # f
      <4>1. disk'[r.path] = disk[r.path]
        BY <2>1, <3>1, <3>6
      <4> QED
        BY <3>2, <4>1
    <3> QED
      BY <3>5, <3>6
  <2> QED
    BY <2>1, <2>3, <2>4, <2>5 DEF VersionInv
<1>2. ASSUME NEW g \in Gens, WatcherStarts(g) \/ WatcherEnds(g) PROVE VersionInv'
  BY <1>2, VersionKept DEF WatcherStarts, WatcherEnds
<1>3. ASSUME NEW g \in Gens, NEW f \in Files, WatcherSkips(g, f) PROVE VersionInv'
  BY <1>3, VersionKept DEF WatcherSkips
<1>4. ASSUME NEW g \in Gens, NEW f \in Files, WatcherReads(g, f) PROVE VersionInv'
  <2>1. /\ baseline' = [baseline EXCEPT ![f] = Entry(disk[f])]
        /\ \A h \in Gens : scan[h].reading = NotReading
        /\ UNCHANGED <<disk, changes, saved, saver, scan>>
    BY <1>4, RecordedType, VersionTypes DEF WatcherReads, ApplyFree, TypeOK, RecordsType
  <2>2. Entry(disk[f]) \in Int /\ Entry(disk[f]) <= disk[f].ver
    BY EntryType, VersionTypes DEF Versions
  <2> QED
    BY <2>1, <2>2, VersionRecords
<1>5. ASSUME NEW m \in unmarked, WatcherMarks(m) \/ ScanMarks(m) PROVE VersionInv'
  BY <1>5, VersionKept DEF WatcherMarks, ScanMarks
<1>6. ASSUME NEW g \in Gens, ScanLock(g) \/ Sweep(g) PROVE VersionInv'
  <2>1. \A h \in Gens : \/ scan'[h].reading = NotReading
                        \/ /\ scan'[h].reading = scan[h].reading
                           /\ scan'[h].since = scan[h].since
    <3>1. ASSUME ScanLock(g) PROVE scan[g].reading = NotReading /\ scan'[g].reading = scan[g].reading
      BY <3>1 DEF ScanLock, ScanInv, ScanShape, TypeOK, ScanType, Scans
    <3>2. ASSUME Sweep(g) PROVE scan'[g].reading = scan[g].reading /\ scan'[g].since = scan[g].since
      BY <3>2 DEF Sweep, TypeOK, ScanType, Scans
    <3>3. \A h \in Gens : h # g => scan'[h] = scan[h]
      BY <1>6 DEF ScanLock, Sweep, TypeOK, ScanType
    <3> QED
      BY <1>6, <3>1, <3>2, <3>3
  <2> QED
    BY <1>6, <2>1, VersionKept DEF ScanLock, Sweep
<1>7. ASSUME NEW g \in Gens, ScanRecords(g) PROVE VersionInv'
  <2> DEFINE f == scan[g].reading.path
             s == scan[g].reading.state
  <2>1. scan[g].reading # NotReading /\ f \in Files /\ s \in FileStates
    BY <1>7, VersionTypes DEF ScanRecords
  <2>2. baseline' = [baseline EXCEPT ![f] = Entry(s)]
    BY <1>7, <2>1, RecordedType DEF ScanRecords, TypeOK, RecordsType
  <2>3. Entry(s) \in Int /\ Entry(s) <= s.ver /\ s.ver <= disk[f].ver /\ s.ver \in Nat
    BY <2>1, EntryType DEF Versions, VersionInv
  <2>4. \A h \in Gens : scan'[h].reading = NotReading
    BY <1>7, <2>1, OneReading DEF ScanRecords, TypeOK, ScanType, Scans
  <2>5. UNCHANGED <<disk, changes, saved, saver>> /\ disk[f].ver \in Nat
    BY <1>7, <2>1, VersionTypes DEF ScanRecords
  <2>6. Entry(s) <= disk[f].ver
    BY <2>3, <2>5
  <2> HIDE DEF f, s
  <2> QED
    BY <2>1, <2>2, <2>3, <2>4, <2>5, <2>6, VersionRecords
<1>8. ASSUME NEW g \in Gens, NEW f \in Files, ScanReads(g, f) PROVE VersionInv'
  <2>1. /\ scan'[g].reading = [path |-> f, state |-> disk[f]]
        /\ \A h \in Gens : h # g => scan'[h] = scan[h]
        /\ UNCHANGED <<disk, changes, baseline, saved, saver>>
    BY <1>8 DEF ScanReads, TypeOK, ScanType, Scans
  <2>2. f \in Files /\ baseline[f] <= disk[f].ver /\ disk[f].ver <= disk[f].ver
    BY VersionTypes DEF VersionInv
  <2>3. ASSUME NEW h \in Gens, scan'[h].reading # NotReading
        PROVE  LET r == scan'[h].reading IN
               /\ baseline[r.path] <= r.state.ver /\ r.state.ver <= disk[r.path].ver
               /\ r.state # disk[r.path] => /\ r.state.ver < disk[r.path].ver
                                            /\ disk[r.path].ver > scan'[h].since
    <3>1. CASE h = g
      BY <2>1, <2>2, <3>1
    <3>2. CASE h # g
      BY <2>1, <2>3, <3>2 DEF VersionInv
    <3> QED
      BY <3>1, <3>2
  <2> QED
    BY <2>1, <2>3 DEF VersionInv
<1>9. ASSUME NEW g \in Gens, NEW f \in Files, WalkMisses(g, f) PROVE VersionInv'
  <2>1. \A h \in Gens : scan'[h].reading = scan[h].reading /\ scan'[h].since = scan[h].since
    BY <1>9 DEF WalkMisses, TypeOK, ScanType, Scans
  <2> QED
    BY <1>9, <2>1, VersionKept DEF WalkMisses
<1>10. ASSUME NEW g \in Gens, NEW f \in Files, SweepDrops(g, f) PROVE VersionInv'
  <2>1. \A h \in Gens : scan'[h].reading = scan[h].reading /\ scan'[h].since = scan[h].since
    BY <1>10 DEF SweepDrops, TypeOK, ScanType, Scans
  <2>2. \A h \in Files : baseline'[h] = baseline[h] \/ baseline'[h] = -1
    BY <1>10 DEF SweepDrops, TypeOK, RecordsType, Entries
  <2>3. UNCHANGED <<disk, changes, saved, saver>>
    BY <1>10 DEF SweepDrops
  <2>4. \A h \in Files : baseline'[h] <= disk[h].ver
    BY <2>2, VersionTypes DEF VersionInv
  <2>5. \A h \in Gens : scan[h].reading # NotReading =>
          baseline'[scan[h].reading.path] <= scan[h].reading.state.ver
    BY <2>2, VersionTypes DEF VersionInv
  <2> QED
    BY <2>1, <2>3, <2>4, <2>5 DEF VersionInv
<1>11. ASSUME NEW g \in Gens, PeriodicScanEnds(g) \/ Started(g) PROVE VersionInv'
  <2>1. ScanReport(g) /\ UNCHANGED <<disk, changes, baseline, saved, saver>>
    BY <1>11 DEF PeriodicScanEnds, Started
  <2> QED
    BY <2>1, ReadingsReport, VersionKept
<1>12. ASSUME NEW g \in Gens, PeriodicScan(g) PROVE VersionInv'
  <2>1. StartedScan.reading = NotReading
    BY StartedScanType DEF TypeOK, RecordsType
  <2>2. \A h \in Gens : scan'[h].reading = NotReading \/ scan'[h] = scan[h]
    BY <1>12, <2>1 DEF PeriodicScan, TypeOK, ScanType
  <2> QED
    BY <1>12, <2>2, VersionKept DEF PeriodicScan
<1>13. ASSUME NEW g \in Gens, PeriodicSave(g) \/ PeriodicWakes(g) PROVE VersionInv'
  BY <1>13, VersionKept DEF PeriodicSave, PeriodicWakes, SaveIfChanged
<1>14. ASSUME StartSaves PROVE VersionInv'
  BY <1>14, VersionKept DEF StartSaves, SaveIfChanged
<1>15. ASSUME NEW s \in Savers, SaveCollects(s) \/ SaveOpens(s) PROVE VersionInv'
  <2>1. \A t \in Savers : saver'[t] = saver[t] \/ saver'[t].entries = baseline
    BY <1>15, Collects DEF SaveOpens
  <2> QED
    BY <1>15, <2>1, VersionKept DEF SaveCollects, SaveOpens
<1>16. ASSUME NEW s \in Savers, Rename(s) \/ SaveFails(s) PROVE VersionInv'
  <2>1. saver' = [saver EXCEPT ![s] = NoSnapshot]
    BY <1>16 DEF Rename, SaveFails
  <2>2. saved' = saved \/ saved' = NoSnapshot \/ \E t \in Savers : saved' = saver[t]
    BY <1>16 DEF Rename, SaveFails, Installed, TypeOK, SavesType
  <2>3. UNCHANGED <<disk, changes, baseline, scan>>
    BY <1>16 DEF Rename, SaveFails
  <2>4. \A t \in Savers : saver'[t] = saver[t] \/ saver'[t] = NoSnapshot
    BY <2>1 DEF TypeOK, SavesType
  <2> QED
    BY <2>2, <2>3, <2>4, VersionKept
<1>17. ASSUME StartProcess PROVE VersionInv'
  <2>1. 1 \in Gens /\ \A h \in Gens : scan[h] = NoScan
    BY <1>17 DEF StartProcess, StageInv, Gens
  <2>2. \A h \in Gens : scan'[h].reading = NotReading
    BY <1>17, <2>1, ReadingsStart DEF StartProcess, NoScan
  <2>3. UNCHANGED <<disk, changes, saved, saver>> /\ baseline' = saved.entries
    BY <1>17 DEF StartProcess
  <2> QED
    BY <2>2, <2>3 DEF VersionInv
<1>18. ASSUME NEW p \in Policies, Restart(p) PROVE VersionInv'
  <2>1. gen + 1 \in Gens
    BY <1>18 DEF Restart, Start, TypeOK, EngineType, BoundsType, StageInv, Gens
  <2>2. \A h \in Gens : scan'[h].reading = NotReading \/ scan'[h] = scan[h]
    BY <1>18, <2>1, ReadingsStart DEF Restart
  <2> QED
    BY <1>18, <2>2, VersionKept DEF Restart
<1>19. ASSUME UpdateConfig \/ Stop PROVE VersionInv'
  BY <1>19, VersionKept DEF UpdateConfig, Stop, Stopped, SaveIfChanged
<1>20. ASSUME Exit \/ Kill PROVE VersionInv'
  <2>1. ProcessEnds
    BY <1>20 DEF Exit, Kill
  <2>2. /\ UNCHANGED <<disk, changes, saved>>
        /\ \A f \in Files : baseline'[f] = -1
        /\ \A s \in Savers, f \in Files : saver'[s].entries[f] = -1
        /\ \A h \in Gens : scan'[h].reading = NotReading
    BY <2>1 DEF ProcessEnds, NoSnapshot, NoScan
  <2> QED
    BY <2>2, VersionTypes DEF VersionInv
<1>21. ASSUME NEW a \in sending, Deliver(a) PROVE VersionInv'
  BY <1>21, VersionKept DEF Deliver
<1>22. ASSUME Drain PROVE VersionInv'
  BY <1>22, VersionKept DEF Drain
<1>23. ASSUME UNCHANGED vars PROVE VersionInv'
  BY <1>23, VersionKept DEF vars
<1> QED
  BY <1>1, <1>2, <1>3, <1>4, <1>5, <1>6, <1>7, <1>8, <1>9, <1>10, <1>11, <1>12, <1>13, <1>14,
     <1>15, <1>16, <1>17, <1>18, <1>19, <1>20, <1>21, <1>22, <1>23
  DEF Next, WatcherStep, ScanStep, EngineStep

-----------------------------------------------------------------------------
(* Saving *)

LEMMA SavedInit == Init => SavedInv
  BY DEF Init, SavedInv, Saving

\* A step that does not save: where the flag stays down, an entry changes only if
\* whoever changed it has still to mark it.
LEMMA SavedKept ==
  ASSUME SavedInv, UNCHANGED <<taking, saver, tmp, saved, overtaken>>,
         process' = "up" => process = "up",
         ~dirty' => /\ ~dirty
                    /\ \A f \in Files \ MarkDue' : f \notin MarkDue /\ baseline'[f] = baseline[f]
  PROVE  SavedInv'
<1>1. Saving' = Saving
  BY DEF Saving
<1> QED
  BY <1>1 DEF SavedInv

\* observe_key: the entry of f changes, and f is to be marked.
LEMMA RecordSaved ==
  ASSUME TypeOK, SavedInv, NEW f \in Files, NEW by, NEW g, NEW s, NEW v,
         Differs(f, s) \/ v = baseline[f],
         baseline' = [baseline EXCEPT ![f] = v], ToMark(by, g, f, s),
         UNCHANGED <<process, dirty, taking, saver, tmp, saved, overtaken>>
  PROVE  SavedInv'
<1>1. \A h \in Files : h # f => baseline'[h] = baseline[h]
  BY DEF TypeOK, RecordsType, Entries
<1> DEFINE m == [by |-> by, gen |-> g, path |-> f, state |-> s]
<1>2. MarkDue \subseteq MarkDue' /\ (Differs(f, s) => f \in MarkDue')
  <2>1. m.path = f
    OBVIOUS
  <2>2. unmarked' = unmarked \cup (IF Differs(f, s) THEN {m} ELSE {})
    BY DEF ToMark
  <2> HIDE DEF m
  <2>3. unmarked \subseteq unmarked' /\ (Differs(f, s) => m \in unmarked')
    BY <2>2
  <2> QED
    BY <2>1, <2>3 DEF MarkDue
<1>3. Differs(f, s) \/ baseline'[f] = baseline[f]
  BY DEF TypeOK, RecordsType, Entries
<1> QED
  BY <1>1, <1>2, <1>3, SavedKept

\* take_dirty: a mark taken is a save that has still to collect its snapshot.
LEMMA MayTakeSaved ==
  ASSUME SavedInv, NEW s \in Savers, ~Saves(s), SaveIfChanged(s),
         UNCHANGED <<process, unmarked, saved, baseline>>
  PROVE  SavedInv'
<1>1. MarkDue' = MarkDue /\ Saving' = Saving /\ tmp' = tmp
  BY DEF MarkDue, SaveIfChanged, Saving
<1>2. CASE dirty
  <2>1. s \notin Saving /\ taking' = taking \cup {s}
    BY <1>2 DEF Saves, Saving, SaveIfChanged
  <2> QED
    BY <1>1, <2>1 DEF SavedInv
<1>3. CASE ~dirty
  BY <1>1, <1>3, SavedKept DEF SaveIfChanged, SavedInv
<1> QED
  BY <1>2, <1>3

\* entries: the snapshot is the baseline as it is when it is collected, with the
\* entries not marked yet.
LEMMA CollectsSaved ==
  ASSUME TypeOK, StageInv, SavedInv, NEW s \in Savers, SaveCollects(s)
  PROVE  SavedInv'
<1>1. /\ saver'[s].entries = baseline /\ Saving' = Saving \cup {s}
      /\ UNCHANGED <<taking, tmp, baseline>>
  BY Collects DEF SaveCollects, records
<1>2. tmp' \subseteq Saving' \ taking' /\ Saving' # {}
  BY <1>1 DEF SavedInv
<1>3. ASSUME NEW t \in Savers, Saving' = {t} PROVE saver'[t].entries = baseline'
  BY <1>1, <1>3
<1> QED
  BY <1>2, <1>3 DEF SavedInv

\* create_private: the file of the only snapshot is the one that was due.
LEMMA OpensSaved ==
  ASSUME SavedInv, NEW s \in Savers, SaveOpens(s)
  PROVE  SavedInv'
<1>1. /\ s \in Saving /\ s \in taking /\ Saving' = Saving /\ MarkDue' = MarkDue
      /\ taking' = taking \ {s} /\ tmp' = tmp \cup {s}
      /\ UNCHANGED <<process, baseline, dirty, saver, saved, overtaken>>
  BY DEF SaveOpens, Saving, MarkDue, records
<1>2. tmp' \subseteq Saving' \ taking' /\ Saving' # {}
  BY <1>1 DEF SavedInv
<1>3. taking' \subseteq Saving' => taking \subseteq Saving
  BY <1>1
<1>4. \A t \in Savers : Saving' = {t} => Saving = {t} /\ t \in taking
  BY <1>1
<1> QED
  BY <1>1, <1>2, <1>3, <1>4 DEF SavedInv

\* The move of the temporary file: where no other save wrote to it or is about
\* to, and the flag stays down, what is installed is the snapshot, and nobody
\* else is saving.
LEMMA RenameSaved ==
  ASSUME TypeOK, SavedInv, NEW s \in Savers, Rename(s)
  PROVE  SavedInv'
<1>1. /\ saver[s] # NoSnapshot /\ s \in Saving /\ s \notin taking
      /\ saver' = [saver EXCEPT ![s] = NoSnapshot] /\ tmp' = {}
      /\ dirty' = (dirty \/ tmp = {}) /\ UNCHANGED <<process, baseline, unmarked, taking>>
      /\ overtaken' = (overtaken \/ (tmp # {} /\ \E t \in taking : saver[t] # NoSnapshot))
      /\ tmp # {} => saved' \in Installed(s)
  BY DEF Rename, DirtyAfterRename, Saving, Overtakes
<1>2. Saving' = Saving \ {s} /\ MarkDue' = MarkDue
  BY <1>1 DEF Saving, TypeOK, SavesType, MarkDue
<1>3. ASSUME process' = "up", ~dirty', ~overtaken', taking' \subseteq Saving'
      PROVE  /\ taking = {} /\ tmp # {} /\ ~dirty /\ ~overtaken
             /\ Saving' = {} => tmp = {s} /\ Saving = {s}
  <2>1. tmp # {} /\ ~dirty /\ ~overtaken /\ \A t \in taking : saver[t] = NoSnapshot
    BY <1>1, <1>3
  <2>2. taking = {}
    BY <1>1, <1>2, <1>3, <2>1 DEF Saving
  <2>3. Saving' = {} => Saving = {s}
    BY <1>1, <1>2
  <2>4. tmp \subseteq Saving
    BY DEF SavedInv
  <2> QED
    BY <2>1, <2>2, <2>3, <2>4
<1>4. ASSUME process' = "up", ~dirty', ~overtaken', taking' \subseteq Saving', Saving' = {},
             NEW f \in Files \ MarkDue'
      PROVE  saved'.entries[f] = baseline'[f]
  <2>1. saved' = saver[s]
    BY <1>1, <1>3, <1>4 DEF Installed
  <2>2. saver[s].entries[f] = baseline[f]
    BY <1>1, <1>2, <1>3, <1>4 DEF SavedInv
  <2> QED
    BY <1>1, <2>1, <2>2
<1>5. ASSUME process' = "up", ~dirty', ~overtaken', taking' \subseteq Saving',
             NEW t \in Savers
      PROVE  ~(t \in taking' \/ tmp' = {t})
  BY <1>1, <1>3, <1>5
<1> QED
  BY <1>1, <1>4, <1>5 DEF SavedInv

LEMMA SavedStep ==
  ASSUME TypeOK, StageInv, SavedInv, [Next]_vars
  PROVE  SavedInv'
<1> USE DEF engine, records, saves, alerts, bounds, history
<1>0. unmarked' = unmarked => MarkDue' = MarkDue
  BY DEF MarkDue
<1>1. ASSUME NEW f \in Files, Change(f) PROVE SavedInv'
  BY <1>0, <1>1, SavedKept DEF Change
<1>2. ASSUME NEW g \in Gens, WatcherStarts(g) \/ WatcherEnds(g) PROVE SavedInv'
  BY <1>0, <1>2, SavedKept DEF WatcherStarts, WatcherEnds
<1>3. ASSUME NEW g \in Gens, NEW f \in Files, WatcherSkips(g, f) PROVE SavedInv'
  BY <1>0, <1>3, SavedKept DEF WatcherSkips
<1>4. ASSUME NEW g \in Gens, NEW f \in Files, WatcherReads(g, f) PROVE SavedInv'
  <2>1. disk[f] \in FileStates
    BY DEF TypeOK, FilesType
  <2>2. baseline' = [baseline EXCEPT ![f] = Entry(disk[f])]
    BY <1>4, <2>1, RecordedType DEF WatcherReads, TypeOK, RecordsType
  <2>3. Differs(f, disk[f]) \/ Entry(disk[f]) = baseline[f]
    BY DEF Differs
  <2>4. /\ ToMark("watcher", g, f, disk[f])
        /\ UNCHANGED <<process, dirty, taking, saver, tmp, saved, overtaken>>
    BY <1>4 DEF WatcherReads
  <2> QED
    BY <2>2, <2>3, <2>4, RecordSaved
<1>5. ASSUME NEW m \in unmarked, WatcherMarks(m) \/ ScanMarks(m) PROVE SavedInv'
  BY <1>5, SavedKept DEF WatcherMarks, ScanMarks
<1>6. ASSUME NEW g \in Gens, ScanLock(g) \/ Sweep(g) PROVE SavedInv'
  BY <1>0, <1>6, SavedKept DEF ScanLock, Sweep
<1>7. ASSUME NEW g \in Gens, ScanRecords(g) PROVE SavedInv'
  <2>1. scan[g].reading.path \in Files /\ scan[g].reading.state \in FileStates
    BY <1>7, VersionTypes DEF ScanRecords
  <2> DEFINE f == scan[g].reading.path
             s == scan[g].reading.state
  <2>2. baseline' = [baseline EXCEPT ![f] = Entry(s)]
    BY <1>7, <2>1, RecordedType DEF ScanRecords, TypeOK, RecordsType
  <2>3. Differs(f, s) \/ Entry(s) = baseline[f]
    BY DEF Differs
  <2>4. /\ ToMark("scan", g, f, s)
        /\ UNCHANGED <<process, dirty, taking, saver, tmp, saved, overtaken>>
    BY <1>7 DEF ScanRecords
  <2>5. f \in Files
    BY <2>1
  <2> HIDE DEF f, s
  <2> QED
    BY <2>2, <2>3, <2>4, <2>5, RecordSaved
<1>8. ASSUME NEW g \in Gens, NEW f \in Files, ScanReads(g, f) \/ WalkMisses(g, f)
      PROVE  SavedInv'
  BY <1>0, <1>8, SavedKept DEF ScanReads, WalkMisses
<1>9. ASSUME NEW g \in Gens, NEW f \in Files, SweepDrops(g, f) PROVE SavedInv'
  <2> DEFINE s == [disk[f] EXCEPT !.here = FALSE]
  <2>1. /\ baseline' = [baseline EXCEPT ![f] = None] /\ ToMark("drop", g, f, s)
        /\ UNCHANGED <<process, dirty, taking, saver, tmp, saved, overtaken>>
    BY <1>9 DEF SweepDrops
  <2>2. Entry(s) = None
    <3>1. disk[f] \in FileStates
      BY DEF TypeOK, FilesType
    <3> QED
      BY <3>1 DEF Entry, FileStates
  <2>3. Differs(f, s) \/ None = baseline[f]
    BY <2>2 DEF Differs
  <2> HIDE DEF s
  <2> QED
    BY <2>1, <2>3, RecordSaved
<1>10. ASSUME NEW g \in Gens, PeriodicScanEnds(g) \/ Started(g) PROVE SavedInv'
  BY <1>0, <1>10, SavedKept DEF PeriodicScanEnds, Started
<1>11. ASSUME NEW g \in Gens, PeriodicWakes(g) \/ PeriodicScan(g) PROVE SavedInv'
  BY <1>0, <1>11, SavedKept DEF PeriodicWakes, PeriodicScan
<1>12. ASSUME NEW g \in Gens, PeriodicSave(g) PROVE SavedInv'
  <2>1. g \in Savers /\ ~Saves(g)
    BY <1>12 DEF PeriodicSave, StageInv, Gens, Savers
  <2> QED
    BY <1>12, <2>1, MayTakeSaved DEF PeriodicSave
<1>13. ASSUME NEW s \in Savers, Rename(s) PROVE SavedInv'
  BY <1>13, RenameSaved
<1>14. ASSUME NEW s \in Savers, SaveFails(s) PROVE SavedInv'
  BY <1>14 DEF SaveFails, SavedInv
<1>15. ASSUME NEW s \in Savers, SaveCollects(s) \/ SaveOpens(s) PROVE SavedInv'
  BY <1>15, CollectsSaved, OpensSaved
<1>16. ASSUME StartProcess PROVE SavedInv'
  <2>1. Saving = {} /\ Saving' = {}
    BY <1>16 DEF StartProcess, StageInv, Saving
  <2> QED
    BY <1>16, <2>1 DEF StartProcess, SavedInv
<1>17. ASSUME StartSaves PROVE SavedInv'
  <2>1. 0 \in Savers
    BY DEF Savers
  <2> QED
    BY <1>17, <2>1, MayTakeSaved DEF StartSaves
<1>18. ASSUME NEW p \in Policies, Restart(p) PROVE SavedInv'
  <2>1. process = "up"
    BY <1>18 DEF Restart, StageInv, TypeOK, EngineType
  <2> QED
    BY <1>0, <1>18, <2>1, SavedKept DEF Restart
<1>19. ASSUME UpdateConfig \/ Stop PROVE SavedInv'
  <2>1. 0 \in Savers /\ ~Saves(0)
    BY <1>19 DEF UpdateConfig, Stop, StageInv, Savers
  <2> QED
    BY <1>19, <2>1, MayTakeSaved DEF UpdateConfig, Stop, Stopped
<1>20. ASSUME Exit \/ Kill PROVE SavedInv'
  <2>1. process' = "down" /\ tmp' = {}
    BY <1>20 DEF Exit, Kill, ProcessEnds
  <2> QED
    BY <2>1 DEF SavedInv
<1>21. ASSUME NEW a \in sending, Deliver(a) PROVE SavedInv'
  BY <1>0, <1>21, SavedKept DEF Deliver
<1>22. ASSUME Drain PROVE SavedInv'
  BY <1>0, <1>22, SavedKept DEF Drain
<1>23. ASSUME UNCHANGED vars PROVE SavedInv'
  BY <1>0, <1>23, SavedKept DEF vars
<1> QED
  BY <1>1, <1>2, <1>3, <1>4, <1>5, <1>6, <1>7, <1>8, <1>9, <1>10, <1>11, <1>12, <1>13, <1>14,
     <1>15, <1>16, <1>17, <1>18, <1>19, <1>20, <1>21, <1>22, <1>23
  DEF Next, WatcherStep, ScanStep, EngineStep

-----------------------------------------------------------------------------
(* What a scan finds *)

LEMMA BusyScan ==
  ASSUME TypeOK, StageInv, NEW g \in Gens, Busy(g)
  PROVE  /\ scan[g] # NoScan /\ process = "up" /\ ~(g > gen)
         /\ scan[g].step \notin {"idle", "waiting"}
         /\ task[g] \notin {"sleep", "awake", "saving"} /\ ~Swept(g)
<1>1. scan[g] # NoScan /\ scan[g].step \notin {"idle", "waiting"}
  BY DEF Busy, NoScan
<1>2. process \in {"up", "down"}
  BY DEF TypeOK, EngineType
<1> QED
  BY <1>1, <1>2 DEF StageInv, Busy

LEMMA FoundKept ==
  ASSUME NEW g \in Gens, NEW f \in Files, Settled(g, f) \/ Owed(g, f),
         scan'[g] = scan[g], disk'[f] = disk[f],
         baseline'[f] = baseline[f] \/ baseline'[f] = Entry(disk[f])
  PROVE  Settled(g, f)' \/ Owed(g, f)'
  BY DEF Settled, Owed, Entry

\* A step of the scan that holds the lock.
LEMMA FoundByScan ==
  ASSUME TypeOK, ScanInv, VersionInv, NEW g \in Gens, Busy(g), NEW h,
         \/ ScanRecords(g) \/ Sweep(g)
         \/ ScanReads(g, h) \/ WalkMisses(g, h) \/ SweepDrops(g, h),
         NEW f \in Files, f \in Covered(gens[g].policy), Settled(g, f) \/ Owed(g, f)
  PROVE  Settled(g, f)' \/ Owed(g, f)'
<1> DEFINE s == scan[g]
<1>0. /\ scan \in [Gens -> Scans] /\ ScanShape(g) /\ s \in Scans
      /\ disk' = disk
  BY DEF TypeOK, ScanType, ScanInv, ScanRecords, Sweep, ScanReads, WalkMisses, SweepDrops
<1>1. CASE ScanRecords(g)
  <2>1. /\ s.reading # NotReading /\ scan'[g].step = s.step /\ scan'[g].todo = s.todo
        /\ scan'[g].visited = s.visited /\ scan'[g].since = s.since
    BY <1>0, <1>1 DEF ScanRecords, Scans
  <2>2. s.reading.path \in Files /\ s.reading.state \in FileStates
    BY <2>1, VersionTypes
  <2>3. baseline' = [baseline EXCEPT ![s.reading.path] = Entry(s.reading.state)]
    BY <1>1, <2>2, RecordedType DEF ScanRecords, TypeOK, RecordsType
  <2>4. CASE s.reading.path = f
    <3>1. s.reading.state = disk[f] \/ disk[f].ver > s.since
      BY <2>1, <2>4 DEF VersionInv
    <3>2. baseline'[f] = Entry(s.reading.state)
      BY <2>2, <2>3, <2>4 DEF TypeOK, RecordsType, Entries
    <3> QED
      BY <1>0, <2>1, <3>1, <3>2 DEF Settled, Entry
  <2>5. CASE s.reading.path # f
    <3>1. baseline'[f] = baseline[f]
      BY <2>3, <2>5 DEF TypeOK, RecordsType, Entries
    <3>2. s.reading # [path |-> f, state |-> disk[f]]
      BY <2>5
    <3> QED
      BY <1>0, <2>1, <3>1, <3>2 DEF Settled, Owed, Entry
  <2> QED
    BY <2>4, <2>5
<1>2. CASE Sweep(g)
  <2>1. /\ s.step = "walk" /\ s.todo = {} /\ s.reading = NotReading
        /\ scan'[g].todo = Unvisited(g) /\ scan'[g].since = s.since
        /\ baseline' = baseline
    BY <1>0, <1>2 DEF Sweep, ReadAll, Scans, records
  <2>2. CASE Settled(g, f)
    BY <1>0, <2>1, <2>2 DEF Settled, Entry
  <2>3. CASE ~Settled(g, f)
    <3>1. f \notin s.visited /\ ~disk[f].here
      BY <2>1, <2>3 DEF Owed, NotReading
    <3>2. baseline[f] # None
      BY <2>3, <3>1 DEF Settled, Entry
    <3> QED
      BY <2>1, <3>1, <3>2 DEF Owed, Unvisited
  <2> QED
    BY <2>2, <2>3
<1>3. CASE ScanReads(g, h)
  <2>1. /\ s.reading = NotReading /\ scan'[g].step = s.step /\ scan'[g].todo = s.todo \ {h}
        /\ scan'[g].visited = (IF s.step = "walk" THEN s.visited \cup {h} ELSE s.visited)
        /\ scan'[g].reading = [path |-> h, state |-> disk[h]]
        /\ scan'[g].since = s.since /\ baseline' = baseline
    BY <1>0, <1>3 DEF ScanReads, Scans, records
  <2>2. CASE h = f
    BY <1>0, <2>1, <2>2 DEF Owed
  <2>3. CASE h # f
    <3>1. s.reading # [path |-> f, state |-> disk[f]]
      BY <2>1 DEF NotReading
    <3> QED
      BY <1>0, <2>1, <2>3, <3>1 DEF Settled, Owed, Entry
  <2> QED
    BY <2>2, <2>3
<1>4. CASE WalkMisses(g, h)
  <2>1. /\ s.step = "walk" /\ h \in s.todo /\ ~disk[h].here
        /\ scan'[g].step = "walk" /\ scan'[g].todo = s.todo \ {h}
        /\ scan'[g].visited = s.visited /\ scan'[g].reading = s.reading
        /\ scan'[g].since = s.since /\ baseline' = baseline
    BY <1>0, <1>4 DEF WalkMisses, Scans, records
  <2>2. h \notin s.visited
    BY <1>0, <2>1 DEF ScanShape
  <2> QED
    BY <1>0, <2>1, <2>2 DEF Settled, Owed, Entry
<1>5. CASE SweepDrops(g, h)
  <2>1. /\ s.step = "sweep" /\ h \notin Covered(gens[g].policy)
        /\ scan'[g].step = "sweep" /\ scan'[g].todo = s.todo \ {h}
        /\ scan'[g].visited = s.visited /\ scan'[g].reading = s.reading
        /\ scan'[g].since = s.since
    BY <1>0, <1>5 DEF SweepDrops, Scans
  <2>2. baseline'[f] = baseline[f]
    BY <1>5, <2>1 DEF SweepDrops, TypeOK, RecordsType, Entries
  <2> QED
    BY <1>0, <2>1, <2>2 DEF Settled, Owed, Entry
<1> QED
  BY <1>1, <1>2, <1>3, <1>4, <1>5

LEMMA FoundStep ==
  ASSUME TypeOK, StageInv, ScanInv, VersionInv, FindInv, [Next]_vars,
         NEW g \in Gens, Busy(g), scan'[g].step \notin {"idle", "waiting"},
         NEW f \in Covered(gens[g].policy)
  PROVE  Settled(g, f)' \/ Owed(g, f)'
<1> USE DEF engine, records, saves, alerts, bounds, history
<1>0. /\ f \in Files /\ (Settled(g, f) \/ Owed(g, f)) /\ scan[g] # NoScan
      /\ scan[g].step \notin {"idle", "waiting"} /\ ~Swept(g)
  BY CoveredFiles, BusyScan DEF FindInv, TypeOK, EngineType, Generations
<1>1. ASSUME NEW h \in Files, Change(h) PROVE Settled(g, f)' \/ Owed(g, f)'
  <2>1. CASE h = f
    <3>1. disk'[f].ver = changes + 1 /\ scan'[g].since = scan[g].since
      BY <1>0, <1>1, <2>1 DEF Change, TypeOK, FilesType
    <3>2. scan[g].since <= changes /\ scan[g].since \in Nat /\ changes \in Nat
      BY VersionTypes DEF ScanInv, ScanShape
    <3> QED
      BY <3>1, <3>2 DEF Settled
  <2>2. CASE h # f
    <3>1. disk'[f] = disk[f] /\ scan' = scan /\ baseline' = baseline
      BY <1>0, <1>1, <2>2 DEF Change, TypeOK, FilesType
    <3> QED
      BY <1>0, <3>1, FoundKept
  <2> QED
    BY <2>1, <2>2
<1>2. ASSUME NEW k \in Gens, WatcherStarts(k) \/ WatcherEnds(k)
      PROVE  Settled(g, f)' \/ Owed(g, f)'
  BY <1>0, <1>2, FoundKept DEF WatcherStarts, WatcherEnds
<1>3. ASSUME NEW k \in Gens, NEW h \in Files, WatcherSkips(k, h)
      PROVE  Settled(g, f)' \/ Owed(g, f)'
  BY <1>0, <1>3, FoundKept DEF WatcherSkips
<1>4. ASSUME NEW k \in Gens, NEW h \in Files, WatcherReads(k, h)
      PROVE  Settled(g, f)' \/ Owed(g, f)'
  <2>1. baseline' = [baseline EXCEPT ![h] = Entry(disk[h])] /\ UNCHANGED <<disk, scan>>
    BY <1>4, RecordedType, VersionTypes DEF WatcherReads, TypeOK, RecordsType
  <2>2. baseline'[f] = baseline[f] \/ baseline'[f] = Entry(disk[f])
    BY <1>0, <2>1 DEF TypeOK, RecordsType, Entries
  <2> QED
    BY <1>0, <2>1, <2>2, FoundKept
<1>5. ASSUME NEW m \in unmarked, WatcherMarks(m) \/ ScanMarks(m)
       PROVE  Settled(g, f)' \/ Owed(g, f)'
  BY <1>0, <1>5, FoundKept DEF WatcherMarks, ScanMarks
<1>6. ASSUME NEW k \in Gens, ScanLock(k) PROVE Settled(g, f)' \/ Owed(g, f)'
  <2>1. k # g /\ scan'[g] = scan[g] /\ UNCHANGED <<disk, baseline>>
    BY <1>0, <1>6 DEF ScanLock, TypeOK, ScanType
  <2> QED
    BY <1>0, <2>1, FoundKept
<1>7. ASSUME NEW k \in Gens, ScanRecords(k) \/ Sweep(k) PROVE Settled(g, f)' \/ Owed(g, f)'
  <2>1. Busy(k)
    BY <1>7, OneReading DEF ScanRecords, Sweep, Busy, Swept
  <2>2. k = g
    BY <2>1 DEF ScanInv
  <2> QED
    BY <1>0, <1>7, <2>2, FoundByScan
<1>8. ASSUME NEW k \in Gens, NEW h \in Files,
             ScanReads(k, h) \/ WalkMisses(k, h) \/ SweepDrops(k, h)
      PROVE  Settled(g, f)' \/ Owed(g, f)'
  <2>1. Busy(k)
    BY <1>8 DEF ScanReads, WalkMisses, SweepDrops, Busy, Swept, ReadAll
  <2>2. k = g
    BY <2>1 DEF ScanInv
  <2> QED
    BY <1>0, <1>8, <2>2, FoundByScan
<1>9. ASSUME NEW k \in Gens, PeriodicScanEnds(k) \/ Started(k)
      PROVE  Settled(g, f)' \/ Owed(g, f)'
  <2>1. ScanReport(k) /\ UNCHANGED <<disk, baseline>>
    BY <1>9 DEF PeriodicScanEnds, Started
  <2>2. k # g
    BY <1>0, <2>1 DEF ScanReport
  <2> QED
    BY <1>0, <2>1, <2>2, ScanReportStage, FoundKept
<1>10. ASSUME NEW k \in Gens, PeriodicScan(k) PROVE Settled(g, f)' \/ Owed(g, f)'
  <2>1. k # g
    BY <1>10, BusyScan DEF PeriodicScan
  <2>2. scan'[g] = scan[g] /\ UNCHANGED <<disk, baseline>>
    BY <1>10, <2>1 DEF PeriodicScan, TypeOK, ScanType
  <2> QED
    BY <1>0, <2>2, FoundKept
<1>11. ASSUME NEW k \in Gens, PeriodicSave(k) \/ PeriodicWakes(k)
       PROVE  Settled(g, f)' \/ Owed(g, f)'
  BY <1>0, <1>11, FoundKept DEF PeriodicSave, PeriodicWakes
<1>12. ASSUME NEW s \in Savers, SaveCollects(s) \/ SaveOpens(s) \/ Rename(s) \/ SaveFails(s)
       PROVE  Settled(g, f)' \/ Owed(g, f)'
  BY <1>0, <1>12, FoundKept DEF SaveCollects, SaveOpens, Rename, SaveFails
<1>13. ASSUME StartSaves PROVE Settled(g, f)' \/ Owed(g, f)'
  BY <1>0, <1>13, FoundKept DEF StartSaves
<1>14. ASSUME StartProcess PROVE Settled(g, f)' \/ Owed(g, f)'
  BY <1>14, BusyScan DEF StartProcess
<1>15. ASSUME NEW p \in Policies, Restart(p) PROVE Settled(g, f)' \/ Owed(g, f)'
  <2>1. gen + 1 # g
    BY BusyScan DEF TypeOK, EngineType, Gens
  <2>2. scan'[g] = scan[g] /\ UNCHANGED <<disk, baseline>>
    BY <1>15, <2>1 DEF Restart, Start, TypeOK, ScanType
  <2> QED
    BY <1>0, <2>2, FoundKept
<1>16. ASSUME UpdateConfig \/ Stop PROVE Settled(g, f)' \/ Owed(g, f)'
  BY <1>0, <1>16, FoundKept DEF UpdateConfig, Stop, Stopped
<1>17. ASSUME Exit \/ Kill PROVE Settled(g, f)' \/ Owed(g, f)'
  BY <1>17 DEF Exit, Kill, ProcessEnds, NoScan
<1>18. ASSUME NEW a \in sending, Deliver(a) PROVE Settled(g, f)' \/ Owed(g, f)'
  BY <1>0, <1>18, FoundKept DEF Deliver
<1>19. ASSUME Drain PROVE Settled(g, f)' \/ Owed(g, f)'
  BY <1>0, <1>19, FoundKept DEF Drain
<1>20. ASSUME UNCHANGED vars PROVE Settled(g, f)' \/ Owed(g, f)'
  BY <1>0, <1>20, FoundKept DEF vars
<1> QED
  BY <1>1, <1>2, <1>3, <1>4, <1>5, <1>6, <1>7, <1>8, <1>9, <1>10, <1>11, <1>12, <1>13, <1>14,
     <1>15, <1>16, <1>17, <1>18, <1>19, <1>20 DEF Next, WatcherStep, ScanStep, EngineStep

-----------------------------------------------------------------------------
(* What is said *)

LEMMA SaidMembers ==
  ASSUME NEW f \in Files
  PROVE  \A r : r \in SaidOf(f) <=>
           \/ r = told[f]
           \/ \E a \in channel \cup sending : a.path = f /\ a.state = r
           \/ \E m \in unmarked : m.by = "watcher" /\ m.path = f /\ m.state = r
           \/ \E g \in Gens : \E c \in scan[g].found : c.path = f /\ c.state = r
  BY DEF SaidOf, Noted

LEMMA SaidMembersNext ==
  ASSUME NEW f \in Files
  PROVE  \A r : r \in SaidOf(f)' <=>
           \/ r = told'[f]
           \/ \E a \in channel' \cup sending' : a.path = f /\ a.state = r
           \/ \E m \in unmarked' : m.by = "watcher" /\ m.path = f /\ m.state = r
           \/ \E g \in Gens : \E c \in scan'[g].found : c.path = f /\ c.state = r
  BY DEF SaidOf, Noted

LEMMA SaidType ==
  ASSUME TypeOK, NEW f \in Files, NEW r \in SaidOf(f)
  PROVE  r \in FileStates \cup {Unknown} /\ r.ver \in Int /\ r.ver \in -1 .. MaxEvents
<1>1. told[f] \in FileStates \cup {Unknown}
  BY DEF TypeOK, FilesType
<1>2. \A a \in channel \cup sending : a.state \in FileStates
  BY DEF TypeOK, AlertsType, Alerts
<1>3. \A g \in Gens : \A c \in scan[g].found : c.state \in FileStates
  BY DEF TypeOK, ScanType, Scans, Finds
<1>4. \A m \in unmarked : m.state \in FileStates
  BY DEF TypeOK, RecordsType, Unmarked
<1>5. r \in FileStates \cup {Unknown}
  BY <1>1, <1>2, <1>3, <1>4, SaidMembers
<1>6. \A s \in FileStates \cup {Unknown} : s.ver \in Int /\ s.ver \in -1 .. MaxEvents
  BY DEF FileStates, Unknown, Versions
<1> QED
  BY <1>5, <1>6

LEMMA SaidTypeNext ==
  ASSUME TypeOK', NEW f \in Files, NEW r \in SaidOf(f)'
  PROVE  r.ver \in Int
<1>1. told'[f] \in FileStates \cup {Unknown}
  BY DEF TypeOK, FilesType
<1>2. \A a \in channel' \cup sending' : a.state \in FileStates
  BY DEF TypeOK, AlertsType, Alerts
<1>3. \A g \in Gens : \A c \in scan'[g].found : c.state \in FileStates
  BY DEF TypeOK, ScanType, Scans, Finds
<1>4. \A m \in unmarked' : m.state \in FileStates
  BY DEF TypeOK, RecordsType, Unmarked
<1>5. r \in FileStates \cup {Unknown}
  BY <1>1, <1>2, <1>3, <1>4, SaidMembersNext
<1>6. \A s \in FileStates \cup {Unknown} : s.ver \in Int
  BY DEF FileStates, Unknown, Versions
<1> QED
  BY <1>5, <1>6

\* Nothing new is said of a file; all is kept if of what is no longer said
\* something newer is.
LEMMA FileKept ==
  ASSUME TypeOK, TypeOK', NEW f \in Files, SaidBefore(f), disk'[f] = disk[f],
         \A r \in SaidOf(f)' : r \in SaidOf(f),
         \A g \in Gens : scan'[g].reading = scan[g].reading \/ scan'[g].reading = NotReading
  PROVE  /\ SaidBefore(f)'
         /\ (/\ NewestRecorded(f) /\ baseline'[f] = baseline[f]
             /\ \A r \in SaidOf(f) : \E q \in SaidOf(f)' : r.ver <= q.ver)
            => NewestRecorded(f)'
<1>1. SaidBefore(f)'
  <2>1. NotReading.path # f
    BY DEF NotReading
  <2> QED
    BY <2>1 DEF SaidBefore
<1>2. ASSUME NewestRecorded(f), baseline'[f] = baseline[f],
             \A q \in SaidOf(f) : \E t \in SaidOf(f)' : q.ver <= t.ver,
             NEW r \in SaidOf(f)', \A q \in SaidOf(f)' : q.ver <= r.ver
      PROVE  Entry(r) = baseline'[f]
  <2>1. r \in SaidOf(f) /\ r.ver \in Int
    BY SaidType
  <2>2. \A q \in SaidOf(f) : q.ver <= r.ver
    BY <1>2, <2>1, SaidType, SaidTypeNext
  <2> QED
    BY <1>2, <2>1, <2>2 DEF NewestRecorded
<1>3. (/\ NewestRecorded(f) /\ baseline'[f] = baseline[f]
       /\ \A r \in SaidOf(f) : \E q \in SaidOf(f)' : r.ver <= q.ver)
      => NewestRecorded(f)'
  BY <1>2 DEF NewestRecorded, Entry
<1> QED
  BY <1>1, <1>3

\* What is recorded is said, and is newer than all that was.
LEMMA FileSaid ==
  ASSUME TypeOK, TypeOK', NEW f \in Files, NEW s \in FileStates,
         \A r \in SaidOf(f)' : r \in SaidOf(f) \/ r = s,
         s \in SaidOf(f)', baseline'[f] = Entry(s),
         \A r \in SaidOf(f) : r.ver <= s.ver /\ (r.ver = s.ver => r = s)
  PROVE  NewestRecorded(f)'
<1>1. ASSUME NEW r \in SaidOf(f)', \A q \in SaidOf(f)' : q.ver <= r.ver
      PROVE  r = s
  BY <1>1, SaidTypeNext
<1> QED
  BY <1>1 DEF NewestRecorded, Entry

\* A step that says nothing new.
LEMMA SaidKept ==
  ASSUME TypeOK, TypeOK', SaidInv, process' = process, excused \subseteq excused',
         process = "down" => saved' = saved /\ told' = told,
         disk' = disk,
         \A f \in Files : \A r \in SaidOf(f)' : r \in SaidOf(f),
         \A f \in Files \ excused' :
           /\ baseline'[f] = baseline[f]
           /\ \A r \in SaidOf(f) : \E q \in SaidOf(f)' : r.ver <= q.ver,
         \A g \in Gens : scan'[g].reading = scan[g].reading \/ scan'[g].reading = NotReading
  PROVE  SaidInv'
<1>1. \A f \in Files : SaidBefore(f)'
  BY FileKept DEF SaidInv
<1>2. process' = "up" => \A f \in Files \ excused' : NewestRecorded(f)'
  BY FileKept DEF SaidInv
<1>3. process' = "down" => \A f \in Files \ excused' : saved'.entries[f] = Entry(told'[f])
  BY DEF SaidInv, Entry
<1> QED
  BY <1>1, <1>2, <1>3 DEF SaidInv

\* A step that says nothing and hears nothing.
LEMMA SaidSame ==
  ASSUME TypeOK, TypeOK', SaidInv, UNCHANGED <<process, told, channel, sending, disk>>,
         excused \subseteq excused', process = "down" => saved' = saved,
         \A g \in Gens : scan'[g].found = scan[g].found,
         \A m : (m \in unmarked' /\ m.by = "watcher") <=> (m \in unmarked /\ m.by = "watcher"),
         \A f \in Files \ excused' : baseline'[f] = baseline[f],
         \A g \in Gens : scan'[g].reading = scan[g].reading \/ scan'[g].reading = NotReading
  PROVE  SaidInv'
<1>1. \A f \in Files : \A r : r \in SaidOf(f)' <=> r \in SaidOf(f)
  BY SaidMembers, SaidMembersNext
<1>2. \A f \in Files : /\ \A r \in SaidOf(f)' : r \in SaidOf(f)
                       /\ \A r \in SaidOf(f) : \E q \in SaidOf(f)' : r.ver <= q.ver
  BY <1>1, SaidType
<1> QED
  BY <1>2, SaidKept

\* What a scan found is handed over or known, whatever the coverage it began with.
LEMMA ReportedOrKnown ==
  ASSUME TypeOK, ScanInv, NEW g \in Gens, NEW c \in scan[g].found
  PROVE  c \in Said(g) \/ c \in Adopted(g)
<1>1. c.path \in Covered(gens[g].policy)
  BY DEF ScanInv, ScanShape
<1>2. gens[g].policy # NoCoverage
  <2>1. gens[g].policy \in Policies \cup {NoPolicy}
    BY DEF TypeOK, EngineType, Generations
  <2> QED
    BY <2>1 DEF NoPolicy, NoCoverage
<1>3. scan[g].previous = gens[g].policy => Knew(scan[g].previous, gens[g].policy, c.path)
  BY <1>1 DEF Knew, Covered
<1> QED
  BY <1>2, <1>3 DEF Said, Adopted

LEMMA SaidReport ==
  ASSUME TypeOK, TypeOK', ScanInv, StageInv, SaidInv, NEW g \in Gens, ScanReport(g),
         UNCHANGED <<process, disk, baseline, unmarked, saved, channel, excused>>
  PROVE  SaidInv'
<1>1. /\ scan'[g] = NoScan /\ process = "up"
      /\ \A h \in Gens : h # g => scan'[h] = scan[h]
  BY ScanReportStage
<1>2. scan'[g].found = {} /\ scan'[g].reading = NotReading
  BY <1>1 DEF NoScan
<1>3. \A c, d \in scan[g].found : c.path = d.path => c = d
  BY DEF ScanInv, ScanShape
<1>4. ASSUME NEW f \in Files
      PROVE  /\ told'[f] = told[f] \/ \E c \in Adopted(g) : c.path = f /\ told'[f] = c.state
             /\ \A c \in Adopted(g) : c.path = f =>
                  told'[f].ver >= told[f].ver /\ told'[f].ver >= c.state.ver
             /\ told[f].ver <= told'[f].ver
  <2> DEFINE d == CHOOSE c \in Adopted(g) : c.path = f
  <2>1. told'[f] = IF \E c \in Adopted(g) : c.path = f THEN Newer(d.state, told[f]) ELSE told[f]
    BY DEF ScanReport
  <2>2. told[f].ver \in Int
    BY SaidType, SaidMembers
  <2>3. CASE \E c \in Adopted(g) : c.path = f
    <3>1. d \in Adopted(g) /\ d.path = f
      BY <2>3
    <3>2. \A c \in Adopted(g) : c.path = f => c = d
      BY <1>3, <3>1, FoundParts
    <3>3. d.state.ver \in Int
      <4>1. d.state \in SaidOf(f)
        BY <3>1, FoundParts, SaidMembers
      <4> QED
        BY <4>1, SaidType
    <3> HIDE DEF d
    <3> QED
      BY <2>1, <2>2, <2>3, <3>1, <3>2, <3>3 DEF Newer
  <2>4. CASE ~\E c \in Adopted(g) : c.path = f
    BY <2>1, <2>2, <2>4
  <2> QED
    BY <2>3, <2>4
<1>5. sending' = sending \cup {[path |-> c.path, state |-> c.state] : c \in Said(g)}
  BY DEF ScanReport
<1>6. ASSUME NEW f \in Files, NEW r \in SaidOf(f)'
      PROVE  r \in SaidOf(f)
  <2>1. CASE r = told'[f]
    <3>1. CASE told'[f] = told[f]
      BY <2>1, <3>1, SaidMembers
    <3>2. CASE \E c \in Adopted(g) : c.path = f /\ told'[f] = c.state
      BY <2>1, <3>2, FoundParts, SaidMembers
    <3> QED
      BY <1>4, <3>1, <3>2
  <2>2. CASE \E a \in channel' \cup sending' : a.path = f /\ a.state = r
    <3>1. PICK a \in channel' \cup sending' : a.path = f /\ a.state = r
      BY <2>2
    <3>2. CASE a \in channel \cup sending
      BY <3>1, <3>2, SaidMembers
    <3>3. CASE \E c \in Said(g) : a = [path |-> c.path, state |-> c.state]
      BY <3>1, <3>3, FoundParts, SaidMembers
    <3> QED
      BY <1>5, <3>1, <3>2, <3>3
  <2>3. CASE \E h \in Gens : \E c \in scan'[h].found : c.path = f /\ c.state = r
    BY <1>1, <1>2, <2>3, SaidMembers
  <2>4. CASE \E m \in unmarked : m.by = "watcher" /\ m.path = f /\ m.state = r
    BY <2>4, SaidMembers
  <2> QED
    BY <2>1, <2>2, <2>3, <2>4, SaidMembersNext
<1>7. ASSUME NEW f \in Files, NEW r \in SaidOf(f)
      PROVE  \E q \in SaidOf(f)' : r.ver <= q.ver
  <2>0. r.ver \in Int /\ told'[f] \in SaidOf(f)'
    BY SaidType, SaidMembersNext
  <2>1. CASE r = told[f]
    BY <1>4, <2>0, <2>1
  <2>2. CASE \E a \in channel \cup sending : a.path = f /\ a.state = r
    <3>1. r \in SaidOf(f)'
      BY <1>5, <2>2, SaidMembersNext
    <3> QED
      BY <2>0, <3>1
  <2>3. CASE \E h \in Gens : \E c \in scan[h].found : c.path = f /\ c.state = r
    <3>0. PICK h \in Gens : \E c \in scan[h].found : c.path = f /\ c.state = r
      BY <2>3
    <3>1. PICK c \in scan[h].found : c.path = f /\ c.state = r
      BY <3>0
    <3>2. CASE h # g
      <4>1. r \in SaidOf(f)'
        BY <1>1, <3>1, <3>2, SaidMembersNext
      <4> QED
        BY <2>0, <4>1
    <3>3. CASE h = g /\ c \in Said(g)
      <4>1. [path |-> c.path, state |-> c.state] \in sending'
        BY <1>5, <3>3
      <4>2. r \in SaidOf(f)'
        BY <3>1, <4>1, SaidMembersNext
      <4> QED
        BY <2>0, <4>2
    <3>4. CASE h = g /\ c \in Adopted(g)
      <4>1. told'[f].ver >= r.ver
        BY <1>4, <3>1, <3>4
      <4>2. told'[f].ver \in Int
        BY <2>0, SaidTypeNext
      <4> QED
        BY <2>0, <4>1, <4>2
    <3> QED
      BY <3>1, <3>2, <3>3, <3>4, ReportedOrKnown
  <2>4. CASE \E m \in unmarked : m.by = "watcher" /\ m.path = f /\ m.state = r
    <3>1. r \in SaidOf(f)'
      BY <2>4, SaidMembersNext
    <3> QED
      BY <2>0, <3>1
  <2> QED
    BY <2>1, <2>2, <2>3, <2>4, SaidMembers
<1>8. process # "down" /\ \A h \in Gens : scan'[h].reading = scan[h].reading
                                          \/ scan'[h].reading = NotReading
  BY <1>1, <1>2
<1> QED
  BY <1>6, <1>7, <1>8, SaidKept

\* drain_fim_alerts: the newest alert of a file, unless what is known is newer.
LEMMA SaidDrain ==
  ASSUME TypeOK, TypeOK', StageInv, SaidInv, Drain
  PROVE  SaidInv'
<1>1. /\ channel' = {} /\ sending' = sending /\ process = "up"
      /\ UNCHANGED <<process, disk, baseline, unmarked, saved, scan, excused>>
  BY DEF Drain, LoopRuns, StageInv, TypeOK, EngineType, records, saves
<1>2. ASSUME NEW f \in Files
      PROVE  /\ told'[f] = told[f] \/ \E a \in channel : a.path = f /\ told'[f] = a.state
             /\ \A a \in channel : a.path = f => a.state.ver <= told'[f].ver
             /\ told[f].ver <= told'[f].ver
  <2> DEFINE Some == \E a \in channel : a.path = f /\ a.state.ver > told[f].ver
             d == CHOOSE a \in channel :
                    /\ a.path = f
                    /\ \A b \in channel : b.path = f => b.state.ver <= a.state.ver
  <2>1. told'[f] = IF Some THEN d.state ELSE told[f]
    BY DEF Drain
  <2>2. told[f].ver \in Int /\ \A a \in channel : a.path = f => a.state.ver \in Int
    BY SaidType, SaidMembers
  <2>3. CASE Some
    <3>1. \E a \in channel : /\ a.path = f
                             /\ \A b \in channel : b.path = f => b.state.ver <= a.state.ver
      BY <2>3, NewestAlert
    <3>2. d \in channel /\ d.path = f /\ \A b \in channel : b.path = f => b.state.ver <= d.state.ver
      BY <3>1
    <3>3. told[f].ver <= d.state.ver
      <4>1. PICK a \in channel : a.path = f /\ a.state.ver > told[f].ver
        BY <2>3
      <4>2. a.state.ver <= d.state.ver /\ d.state.ver \in Int /\ a.state.ver \in Int
        BY <2>2, <3>2, <4>1
      <4> HIDE DEF d
      <4> QED
        BY <2>2, <4>1, <4>2
    <3> HIDE DEF d
    <3> QED
      BY <2>1, <2>3, <3>2, <3>3
  <2>4. CASE ~Some
    BY <2>1, <2>2, <2>4
  <2> QED
    BY <2>3, <2>4
<1>3. ASSUME NEW f \in Files, NEW r \in SaidOf(f)'
      PROVE  r \in SaidOf(f)
  <2>1. CASE r = told'[f]
    BY <1>2, <2>1, SaidMembers
  <2>2. CASE \E a \in channel' \cup sending' : a.path = f /\ a.state = r
    BY <1>1, <2>2, SaidMembers
  <2>3. CASE \E h \in Gens : \E c \in scan'[h].found : c.path = f /\ c.state = r
    BY <1>1, <2>3, SaidMembers
  <2>4. CASE \E m \in unmarked : m.by = "watcher" /\ m.path = f /\ m.state = r
    BY <2>4, SaidMembers
  <2> QED
    BY <1>1, <2>1, <2>2, <2>3, <2>4, SaidMembersNext
<1>4. ASSUME NEW f \in Files, NEW r \in SaidOf(f)
      PROVE  \E q \in SaidOf(f)' : r.ver <= q.ver
  <2>0. told'[f] \in SaidOf(f)' /\ r.ver \in Int
    BY SaidType, SaidMembersNext
  <2>1. CASE r = told[f]
    BY <1>2, <2>0, <2>1
  <2>2. CASE \E a \in channel : a.path = f /\ a.state = r
    BY <1>2, <2>0, <2>2
  <2>3. CASE \E a \in sending : a.path = f /\ a.state = r
    <3>1. r \in SaidOf(f)'
      BY <1>1, <2>3, SaidMembersNext
    <3> QED
      BY <2>0, <3>1
  <2>4. CASE \E h \in Gens : \E c \in scan[h].found : c.path = f /\ c.state = r
    <3>1. r \in SaidOf(f)'
      BY <1>1, <2>4, SaidMembersNext
    <3> QED
      BY <2>0, <3>1
  <2>5. CASE \E m \in unmarked : m.by = "watcher" /\ m.path = f /\ m.state = r
    <3>1. r \in SaidOf(f)'
      BY <1>1, <2>5, SaidMembersNext
    <3> QED
      BY <2>0, <3>1
  <2> QED
    BY <2>1, <2>2, <2>3, <2>4, <2>5, SaidMembers
<1> QED
  BY <1>1, <1>3, <1>4, SaidKept

\* Deliver: an alert goes from one place to the other.
LEMMA SaidDeliver ==
  ASSUME TypeOK, TypeOK', SaidInv, NEW a \in sending, Deliver(a)
  PROVE  SaidInv'
<1>1. /\ channel' \cup sending' = channel \cup sending
      /\ UNCHANGED <<process, told, disk, baseline, unmarked, saved, scan, excused>>
  BY DEF Deliver, records, saves, history
<1>2. \A f \in Files : \A r : r \in SaidOf(f)' <=> r \in SaidOf(f)
  BY <1>1, SaidMembers, SaidMembersNext
<1>3. \A f \in Files : /\ \A r \in SaidOf(f)' : r \in SaidOf(f)
                       /\ \A r \in SaidOf(f) : \E q \in SaidOf(f)' : r.ver <= q.ver
  BY <1>2, SaidType
<1> QED
  BY <1>1, <1>3, SaidKept

LEMMA SaidInit == Init => SaidInv
<1> SUFFICES ASSUME Init PROVE SaidInv
  OBVIOUS
<1>1. \A f \in Files : \A r \in SaidOf(f) : r = Unknown
  BY SaidMembers DEF Init, NoScan
<1>2. \A g \in Gens : scan[g].reading.path = None
  BY DEF Init, NoScan, NotReading
<1>3. Unknown.ver = -1 /\ Entry(Unknown) = None
  BY DEF Unknown, Entry
<1>4. \A f \in Files : SaidBefore(f)
  BY <1>1, <1>2, <1>3 DEF SaidBefore, Init
<1>5. \A f \in Files : saved.entries[f] = Entry(told[f])
  BY <1>3 DEF Init, NoSnapshot
<1> QED
  BY <1>4, <1>5 DEF SaidInv, Init

\* Change: the file is of a later version than all that was said of it.
LEMMA SaidChange ==
  ASSUME TypeOK, TypeOK', VersionInv, SaidInv, NEW f \in Files, Change(f)
  PROVE  SaidInv'
<1>1. /\ UNCHANGED <<process, baseline, unmarked, saved, scan, told, channel, sending, excused>>
      /\ \A k \in Files : k # f => disk'[k] = disk[k]
      /\ disk'[f].ver = changes + 1
  BY DEF Change, records, saves, alerts, history, TypeOK, FilesType
<1>2. \A k \in Files : \A r : r \in SaidOf(k)' <=> r \in SaidOf(k)
  BY <1>1, SaidMembers, SaidMembersNext
<1>3. ASSUME NEW k \in Files PROVE SaidBefore(k)'
  <2>1. SaidBefore(k)
    BY DEF SaidInv
  <2>2. CASE k # f
    BY <1>1, <1>2, <2>1, <2>2 DEF SaidBefore
  <2>3. CASE k = f
    <3>1. changes \in Nat /\ disk[f].ver \in Nat /\ disk[f].ver <= changes
      BY VersionTypes DEF VersionInv
    <3>2. \A r \in SaidOf(f)' : r.ver \in Int /\ r.ver <= disk[f].ver
      BY <1>2, <2>1, <2>3, SaidType DEF SaidBefore
    <3>3. \A r \in SaidOf(f)' : r.ver < disk'[f].ver
      BY <1>1, <3>1, <3>2
    <3>4. \A r \in SaidOf(f)' : r.ver <= disk'[f].ver /\ r.ver # disk'[f].ver
      BY <1>1, <3>1, <3>2, <3>3
    <3> QED
      BY <1>1, <1>2, <2>1, <2>3, <3>4 DEF SaidBefore
  <2> QED
    BY <2>2, <2>3
<1>4. \A k \in Files : NewestRecorded(k) => NewestRecorded(k)'
  BY <1>1, <1>2 DEF NewestRecorded, Entry
<1> QED
  BY <1>1, <1>3, <1>4 DEF SaidInv, Entry

LEMMA SaidScanReads ==
  ASSUME TypeOK, TypeOK', SaidInv, NEW g \in Gens, NEW f \in Files, ScanReads(g, f)
  PROVE  SaidInv'
<1>1. /\ UNCHANGED <<process, disk, baseline, unmarked, saved, told, channel, sending, excused>>
      /\ scan'[g].reading = [path |-> f, state |-> disk[f]]
      /\ \A h \in Gens : scan'[h].found = scan[h].found
      /\ \A h \in Gens : h # g => scan'[h].reading = NotReading
  <2>1. scan[g] = [scan[g] EXCEPT !.step = @] /\ scan \in [Gens -> Scans]
    BY DEF TypeOK, ScanType, Scans
  <2> QED
    BY <2>1 DEF ScanReads, ApplyFree, records, saves, alerts, history, Scans
<1>2. \A k \in Files : \A r : r \in SaidOf(k)' <=> r \in SaidOf(k)
  BY <1>1, SaidMembers, SaidMembersNext
<1>3. ASSUME NEW k \in Files PROVE SaidBefore(k)'
  <2>1. SaidBefore(k)
    BY DEF SaidInv
  <2>2. NotReading.path # k
    BY DEF NotReading
  <2>3. \A h \in Gens : scan'[h].reading.path = k => h = g /\ k = f
    BY <1>1, <2>2
  <2>4. ASSUME NEW r \in SaidOf(k)', NEW h \in Gens, scan'[h].reading.path = k
        PROVE  /\ r.ver <= scan'[h].reading.state.ver
               /\ r.ver = scan'[h].reading.state.ver => r = scan'[h].reading.state
    <3>1. scan'[h].reading.state = disk[k]
      BY <1>1, <2>3, <2>4
    <3> QED
      BY <1>2, <2>1, <3>1 DEF SaidBefore
  <2>5. \A r \in SaidOf(k)' : r.ver <= disk'[k].ver /\ (r.ver = disk'[k].ver => r = disk'[k])
    BY <1>1, <1>2, <2>1 DEF SaidBefore
  <2> QED
    BY <2>4, <2>5 DEF SaidBefore
<1>4. \A k \in Files : NewestRecorded(k) => NewestRecorded(k)'
  BY <1>1, <1>2 DEF NewestRecorded, Entry
<1> QED
  BY <1>1, <1>3, <1>4 DEF SaidInv, Entry

\* A file is recorded in state s and s is said: all that was said of it is older.
LEMMA SaidAndRecorded ==
  ASSUME TypeOK, TypeOK', SaidInv, NEW f \in Files, NEW s \in FileStates,
         UNCHANGED <<process, disk, saved, told, excused>>,
         baseline' = [baseline EXCEPT ![f] = Entry(s)],
         \A g \in Gens : scan'[g].reading = NotReading,
         \A r : r \in SaidOf(f)' <=> r \in SaidOf(f) \/ r = s,
         \A k \in Files : k # f => \A r : r \in SaidOf(k)' <=> r \in SaidOf(k),
         \A r \in SaidOf(f) : r.ver <= s.ver /\ (r.ver = s.ver => r = s),
         s.ver <= disk[f].ver, s.ver = disk[f].ver => s = disk[f]
  PROVE  SaidInv'
<1>1. /\ baseline'[f] = Entry(s)
      /\ \A k \in Files : k # f => baseline'[k] = baseline[k]
  BY DEF TypeOK, RecordsType, Entries
<1>2. \A k \in Files : NotReading.path # k
  BY DEF NotReading
<1>3. SaidBefore(f) /\ \A k \in Files : SaidBefore(k)
  BY DEF SaidInv
<1>4. SaidBefore(f)'
  BY <1>2, <1>3 DEF SaidBefore
<1>5. NewestRecorded(f)'
  BY <1>1, FileSaid
<1>6. ASSUME NEW k \in Files, k # f
      PROVE  SaidBefore(k)' /\ (NewestRecorded(k) => NewestRecorded(k)')
  <2>1. \A r \in SaidOf(k) : \E q \in SaidOf(k)' : r.ver <= q.ver
    BY <1>6, SaidType
  <2> QED
    BY <1>1, <1>3, <1>6, <2>1, FileKept
<1> QED
  BY <1>4, <1>5, <1>6 DEF SaidInv, Entry

LEMMA SaidWatcherReads ==
  ASSUME TypeOK, TypeOK', SaidInv, NEW g \in Gens, NEW f \in Files, WatcherReads(g, f)
  PROVE  SaidInv'
<1> DEFINE m == [by |-> "watcher", gen |-> g, path |-> f, state |-> disk[f]]
<1>1. /\ UNCHANGED <<process, disk, saved, scan, told, sending, channel, excused>>
      /\ baseline' = Recorded(f, disk[f]) /\ ToMark("watcher", g, f, disk[f])
      /\ \A h \in Gens : scan[h].reading = NotReading
  BY DEF WatcherReads, ApplyFree, saves, alerts, history
<1>2. disk[f] \in FileStates
  BY DEF TypeOK, FilesType
<1>3. CASE ~Differs(f, disk[f])
  <2>1. UNCHANGED <<baseline, unmarked>>
    BY <1>1, <1>3 DEF ToMark, Recorded
  <2> QED
    BY <1>1, <2>1, SaidSame
<1>4. CASE Differs(f, disk[f])
  <2>1. unmarked' = unmarked \cup {m}
    BY <1>1, <1>4 DEF ToMark
  <2>2. baseline' = [baseline EXCEPT ![f] = Entry(disk[f])]
    BY <1>1, <1>2, RecordedType DEF TypeOK, RecordsType
  <2>7. m.path = f /\ m.state = disk[f] /\ m.by = "watcher"
    OBVIOUS
  <2>3. ASSUME NEW r PROVE r \in SaidOf(f)' <=> r \in SaidOf(f) \/ r = disk[f]
    <3> HIDE DEF m
    <3>1. r \in SaidOf(f)' => r \in SaidOf(f) \/ r = disk[f]
      BY <1>1, <2>1, <2>7, SaidMembers, SaidMembersNext
    <3>2. r \in SaidOf(f) \/ r = disk[f] => r \in SaidOf(f)'
      BY <1>1, <2>1, <2>7, SaidMembers, SaidMembersNext
    <3> QED
      BY <3>1, <3>2
  <2>4. ASSUME NEW k \in Files, k # f PROVE \A r : r \in SaidOf(k)' <=> r \in SaidOf(k)
    <3> HIDE DEF m
    <3> QED
      BY <1>1, <2>1, <2>4, <2>7, SaidMembers, SaidMembersNext
  <2>5. \A r \in SaidOf(f) : r.ver <= disk[f].ver /\ (r.ver = disk[f].ver => r = disk[f])
    BY DEF SaidInv, SaidBefore
  <2>6. disk[f].ver <= disk[f].ver
    BY VersionTypes
  <2> QED
    BY <1>1, <1>2, <2>2, <2>3, <2>4, <2>5, <2>6, SaidAndRecorded
<1> QED
  BY <1>3, <1>4

\* try_send: what the watcher recorded goes to the channel, or its file is excused.
LEMMA SaidWatcherMarks ==
  ASSUME TypeOK, TypeOK', SaidInv, NEW m \in unmarked, WatcherMarks(m)
  PROVE  SaidInv'
<1> DEFINE a == [path |-> m.path, state |-> m.state]
<1>1. /\ UNCHANGED <<process, disk, baseline, saved, scan, told, sending>>
      /\ unmarked' = unmarked \ {m} /\ m.by = "watcher" /\ TrySend(a)
  BY DEF WatcherMarks, saves
<1>2. a.path = m.path /\ a.state = m.state /\ m.path \in Files
  BY DEF TypeOK, RecordsType, Unmarked
<1> HIDE DEF a
<1>3. process # "down" \/ (saved' = saved /\ told' = told)
  BY <1>1
<1>4. CASE channel' = channel \cup {a} /\ excused' = excused
  <2>1. \A f \in Files : \A r \in SaidOf(f)' : r \in SaidOf(f)
    BY <1>1, <1>2, <1>4, SaidMembers, SaidMembersNext
  <2>2. \A f \in Files : \A r \in SaidOf(f) : r \in SaidOf(f)'
    BY <1>1, <1>2, <1>4, SaidMembers, SaidMembersNext
  <2>3. \A f \in Files : \A r \in SaidOf(f) : \E q \in SaidOf(f)' : r.ver <= q.ver
    BY <2>2, SaidType
  <2> QED
    BY <1>1, <1>4, <2>1, <2>3, SaidKept
<1>5. CASE channel' = channel /\ excused' = excused \cup {m.path}
  <2>1. \A f \in Files : \A r \in SaidOf(f)' : r \in SaidOf(f)
    BY <1>1, <1>5, SaidMembers, SaidMembersNext
  <2>2. \A f \in Files \ {m.path} : \A r \in SaidOf(f) : r \in SaidOf(f)'
    BY <1>1, <1>5, SaidMembers, SaidMembersNext
  <2>3. \A f \in Files \ excused' : \A r \in SaidOf(f) : \E q \in SaidOf(f)' : r.ver <= q.ver
    BY <1>5, <2>2, SaidType
  <2> QED
    BY <1>1, <1>5, <2>1, <2>3, SaidKept
<1> QED
  BY <1>1, <1>2, <1>4, <1>5 DEF TrySend

LEMMA SaidScanRecords ==
  ASSUME TypeOK, TypeOK', ScanInv, StageInv, VersionInv, SaidInv, NEW g \in Gens, ScanRecords(g)
  PROVE  SaidInv'
<1>1. scan[g].reading # NotReading
  BY DEF ScanRecords
<1>2. PICK f \in Files : f = scan[g].reading.path
  BY <1>1, VersionTypes
<1>3. PICK s \in FileStates : s = scan[g].reading.state
  BY <1>1, VersionTypes
<1>4. PICK c : c = [path |-> f, state |-> s, created |-> baseline[f] = None]
  OBVIOUS
<1>5. \A h \in Gens : h # g => scan[h].reading = NotReading
  BY <1>1, OneReading
<1>6. /\ UNCHANGED <<process, disk, saved, told, channel, sending, excused>>
      /\ baseline' = Recorded(f, s)
      /\ \A h \in Gens : h # g => scan'[h] = scan[h]
      /\ scan'[g].reading = NotReading
      /\ \A m : (m \in unmarked' /\ m.by = "watcher") <=> (m \in unmarked /\ m.by = "watcher")
      /\ scan'[g].found = IF Differs(f, s) THEN scan[g].found \cup {c} ELSE scan[g].found
  <2>1. /\ UNCHANGED <<process, disk, saved, told, channel, sending, excused>>
        /\ baseline' = Recorded(f, s)
    BY <1>2, <1>3 DEF ScanRecords, saves, alerts, history
  <2>2. scan' = [scan EXCEPT ![g].reading = NotReading,
                   ![g].found = IF Differs(f, s) THEN @ \cup {c} ELSE @]
    BY <1>2, <1>3, <1>4 DEF ScanRecords
  <2>6. ToMark("scan", g, f, s)
    BY <1>2, <1>3 DEF ScanRecords
  <2>7. \A m : (m \in unmarked' /\ m.by = "watcher") <=> (m \in unmarked /\ m.by = "watcher")
    BY <2>6 DEF ToMark
  <2>3. scan \in [Gens -> Scans]
    BY DEF TypeOK, ScanType
  <2>4. \A h \in Gens : h # g => scan'[h] = scan[h]
    BY <2>2, <2>3
  <2>5. scan'[g] = [scan[g] EXCEPT !.reading = NotReading,
                      !.found = IF Differs(f, s) THEN @ \cup {c} ELSE @]
    BY <2>2, <2>3
  <2> QED
    BY <2>1, <2>3, <2>4, <2>5, <2>7 DEF Scans
<1>7. \A h \in Gens : scan'[h].reading = NotReading
  BY <1>5, <1>6
<1>8. CASE ~Differs(f, s)
  <2>1. baseline' = baseline /\ \A h \in Gens : scan'[h].found = scan[h].found
    BY <1>6, <1>8 DEF Recorded
  <2> QED
    BY <1>6, <1>7, <2>1, SaidSame
<1>9. CASE Differs(f, s)
  <2>1. baseline' = [baseline EXCEPT ![f] = Entry(s)]
    BY <1>6, RecordedType DEF TypeOK, RecordsType
  <2>2. scan'[g].found = scan[g].found \cup {c}
    BY <1>6, <1>9
  <2>3. c.path = f /\ c.state = s
    BY <1>4
  <2>4. \A r \in SaidOf(f) : r.ver <= s.ver /\ (r.ver = s.ver => r = s)
    BY <1>2, <1>3 DEF SaidInv, SaidBefore
  <2>5. s.ver <= disk[f].ver /\ (s.ver = disk[f].ver => s = disk[f])
    BY <1>1, <1>2, <1>3, VersionTypes DEF VersionInv
  <2>6. /\ \A h \in Gens : \A d \in scan'[h].found : d = c \/ d \in scan[h].found
        /\ \A h \in Gens : \A d \in scan[h].found : d \in scan'[h].found
        /\ c \in scan'[g].found
    BY <1>6, <2>2
  <2>7. \A r : r \in SaidOf(f)' <=> r \in SaidOf(f) \/ r = s
    BY <1>6, <2>3, <2>6, SaidMembers, SaidMembersNext
  <2>8. \A k \in Files : k # f => \A r : r \in SaidOf(k)' <=> r \in SaidOf(k)
    BY <1>6, <2>3, <2>6, SaidMembers, SaidMembersNext
  <2> QED
    BY <1>6, <1>7, <2>1, <2>4, <2>5, <2>7, <2>8, SaidAndRecorded
<1> QED
  BY <1>8, <1>9

\* Nothing is under way: what was said of a file is what the main loop knows.
LEMMA OnlyTold ==
  ASSUME TypeOK, TypeOK', SaidInv, UNCHANGED <<disk, told>>, channel' = {}, sending' = {}, unmarked' = {},
         \A g \in Gens : scan'[g].found = {} /\ scan'[g].reading = NotReading
  PROVE  \A f \in Files : /\ SaidBefore(f)'
                          /\ baseline'[f] = Entry(told[f]) => NewestRecorded(f)'
<1> SUFFICES ASSUME NEW f \in Files
             PROVE  SaidBefore(f)' /\ (baseline'[f] = Entry(told[f]) => NewestRecorded(f)')
  OBVIOUS
<1>1. \A r \in SaidOf(f)' : r = told[f]
  BY SaidMembersNext
<1>2. told[f] \in SaidOf(f)
  BY SaidMembers
<1>3. SaidBefore(f) /\ NotReading.path # f
  BY DEF SaidInv, NotReading
<1>4. SaidBefore(f)'
  BY <1>1, <1>2, <1>3 DEF SaidBefore
<1> QED
  BY <1>1, <1>4 DEF NewestRecorded, Entry

LEMMA SaidStartProcess ==
  ASSUME TypeOK, TypeOK', StageInv, SaidInv, StartProcess
  PROVE  SaidInv'
<1>1. /\ process = "down" /\ process' = "up" /\ baseline' = saved.entries
      /\ UNCHANGED <<disk, told, channel, sending, unmarked, saved, excused>>
  BY DEF StartProcess, alerts, saves, history
<1>2. channel = {} /\ sending = {} /\ unmarked = {} /\ \A g \in Gens : scan[g] = NoScan
  BY <1>1 DEF StageInv
<1>3. [StartedScan EXCEPT !.previous = saved.coverage].found = {}
      /\ [StartedScan EXCEPT !.previous = saved.coverage].reading = NotReading
  BY NoThings DEF StartedScan, NoScan, Scans
<1>4. \A g \in Gens : scan'[g].found = {} /\ scan'[g].reading = NotReading
  BY <1>2, <1>3 DEF StartProcess, Start, TypeOK, ScanType, NoScan
<1>5. \A f \in Files \ excused : saved.entries[f] = Entry(told[f])
  BY <1>1 DEF SaidInv
<1>6. \A f \in Files : /\ SaidBefore(f)'
                       /\ baseline'[f] = Entry(told[f]) => NewestRecorded(f)'
  BY <1>1, <1>2, <1>4, OnlyTold
<1> QED
  BY <1>1, <1>5, <1>6 DEF SaidInv

LEMMA SaidProcessEnds ==
  ASSUME TypeOK, TypeOK', SaidInv, ProcessEnds
  PROVE  SaidInv'
<1>1. /\ process' = "down" /\ UNCHANGED <<disk, told, saved>>
      /\ channel' = {} /\ sending' = {} /\ unmarked' = {}
      /\ excused' = excused \cup {f \in Files : Unsaved(f)}
  BY DEF ProcessEnds
<1>2. \A g \in Gens : scan'[g].found = {} /\ scan'[g].reading = NotReading
  BY DEF ProcessEnds, NoScan
<1>3. \A f \in Files : SaidBefore(f)'
  BY <1>1, <1>2, OnlyTold
<1>4. \A f \in Files \ excused' : saved'.entries[f] = Entry(told'[f])
  BY <1>1 DEF Unsaved, Entry
<1> QED
  BY <1>1, <1>3, <1>4 DEF SaidInv

LEMMA SaidStep ==
  ASSUME TypeOK, TypeOK', StageInv, ScanInv, VersionInv, SaidInv, [Next]_vars
  PROVE  SaidInv'
<1> USE DEF engine, records, saves, alerts, bounds, history
<1>1. ASSUME NEW f \in Files, Change(f) PROVE SaidInv'
  BY <1>1, SaidChange
<1>2. ASSUME NEW g \in Gens, WatcherStarts(g) \/ WatcherEnds(g) PROVE SaidInv'
  BY <1>2, SaidSame DEF WatcherStarts, WatcherEnds
<1>3. ASSUME NEW g \in Gens, NEW f \in Files, WatcherSkips(g, f) PROVE SaidInv'
  BY <1>3, SaidSame DEF WatcherSkips
<1>4. ASSUME NEW g \in Gens, NEW f \in Files, WatcherReads(g, f) PROVE SaidInv'
  BY <1>4, SaidWatcherReads
<1>5. ASSUME NEW m \in unmarked, WatcherMarks(m) PROVE SaidInv'
  BY <1>5, SaidWatcherMarks
<1>6. ASSUME NEW m \in unmarked, ScanMarks(m) PROVE SaidInv'
  BY <1>6, SaidSame DEF ScanMarks
<1>7. ASSUME NEW g \in Gens, ScanLock(g) \/ Sweep(g) PROVE SaidInv'
  <2>1. \A h \in Gens : scan'[h].found = scan[h].found /\ scan'[h].reading = scan[h].reading
    BY <1>7 DEF ScanLock, Sweep, TypeOK, ScanType, Scans
  <2> QED
    BY <1>7, <2>1, SaidSame DEF ScanLock, Sweep
<1>8. ASSUME NEW g \in Gens, NEW f \in Files, ScanReads(g, f) PROVE SaidInv'
  BY <1>8, SaidScanReads
<1>9. ASSUME NEW g \in Gens, NEW f \in Files, WalkMisses(g, f) PROVE SaidInv'
  <2>1. \A h \in Gens : scan'[h].found = scan[h].found /\ scan'[h].reading = scan[h].reading
    BY <1>9 DEF WalkMisses, TypeOK, ScanType, Scans
  <2> QED
    BY <1>9, <2>1, SaidSame DEF WalkMisses
<1>10. ASSUME NEW g \in Gens, NEW f \in Files, SweepDrops(g, f) PROVE SaidInv'
  <2>1. \A h \in Gens : scan'[h].found = scan[h].found /\ scan'[h].reading = scan[h].reading
    BY <1>10 DEF SweepDrops, TypeOK, ScanType, Scans
  <2>2. \A k \in Files \ excused' : baseline'[k] = baseline[k]
    BY <1>10 DEF SweepDrops, TypeOK, RecordsType, Entries
  <2>3. \A m : (m \in unmarked' /\ m.by = "watcher") <=> (m \in unmarked /\ m.by = "watcher")
    BY <1>10 DEF SweepDrops, ToMark
  <2> QED
    BY <1>10, <2>1, <2>2, <2>3, SaidSame DEF SweepDrops
<1>11. ASSUME NEW g \in Gens, ScanRecords(g) PROVE SaidInv'
  BY <1>11, SaidScanRecords
<1>12. ASSUME NEW g \in Gens, PeriodicScanEnds(g) PROVE SaidInv'
  BY <1>12, SaidReport DEF PeriodicScanEnds
<1>13. ASSUME NEW g \in Gens, Started(g) PROVE SaidInv'
  BY <1>13, SaidReport DEF Started
<1>14. ASSUME NEW g \in Gens, PeriodicScan(g) PROVE SaidInv'
  <2>1. scan[g] = NoScan
    BY <1>14 DEF PeriodicScan, StageInv
  <2>2. StartedScan.found = {} /\ StartedScan.reading = NotReading
    BY StartedScanType DEF TypeOK, RecordsType
  <2>4. scan'[g] = StartedScan /\ \A h \in Gens : h # g => scan'[h] = scan[h]
    BY <1>14 DEF PeriodicScan, TypeOK, ScanType
  <2>5. NoScan.found = {} /\ NoScan.reading = NotReading
    BY DEF NoScan
  <2>3. \A h \in Gens : /\ scan'[h].found = scan[h].found
                        /\ scan'[h].reading = scan[h].reading
    BY <2>1, <2>2, <2>4, <2>5
  <2> QED
    BY <1>14, <2>3, SaidSame DEF PeriodicScan
<1>15. ASSUME NEW g \in Gens, PeriodicSave(g) \/ PeriodicWakes(g) PROVE SaidInv'
  BY <1>15, SaidSame DEF PeriodicSave, PeriodicWakes
<1>16. ASSUME StartSaves PROVE SaidInv'
  BY <1>16, SaidSame DEF StartSaves
<1>17. ASSUME NEW s \in Savers, SaveCollects(s) \/ SaveOpens(s) PROVE SaidInv'
  BY <1>17, SaidSame DEF SaveCollects, SaveOpens
<1>18. ASSUME NEW s \in Savers, Rename(s) \/ SaveFails(s) PROVE SaidInv'
  <2>1. process # "down"
    BY <1>18 DEF Rename, SaveFails, StageInv, Saving
  <2> QED
    BY <1>18, <2>1, SaidSame DEF Rename, SaveFails
<1>19. ASSUME StartProcess PROVE SaidInv'
  BY <1>19, SaidStartProcess
<1>20. ASSUME NEW p \in Policies, Restart(p) PROVE SaidInv'
  <2>1. gen + 1 \in Gens /\ gen + 1 > gen
    BY <1>20 DEF Restart, Start, TypeOK, EngineType, BoundsType, StageInv, Gens
  <2>2. scan[gen + 1] = NoScan
    BY <2>1 DEF StageInv
  <2>3. [StartedScan EXCEPT !.previous = coverage].found = {}
        /\ [StartedScan EXCEPT !.previous = coverage].reading = NotReading
    BY NoThings DEF StartedScan, NoScan, Scans
  <2>5. /\ scan'[gen + 1] = [StartedScan EXCEPT !.previous = coverage]
        /\ \A h \in Gens : h # gen + 1 => scan'[h] = scan[h]
    BY <1>20, <2>1 DEF Restart, Start, TypeOK, ScanType
  <2>6. NoScan.found = {} /\ NoScan.reading = NotReading
    BY DEF NoScan
  <2>4. \A h \in Gens : scan'[h].found = scan[h].found /\ scan'[h].reading = scan[h].reading
    BY <2>2, <2>3, <2>5, <2>6
  <2> QED
    BY <1>20, <2>4, SaidSame DEF Restart
<1>21. ASSUME UpdateConfig \/ Stop PROVE SaidInv'
  BY <1>21, SaidSame DEF UpdateConfig, Stop, Stopped
<1>22. ASSUME Exit \/ Kill PROVE SaidInv'
  BY <1>22, SaidProcessEnds DEF Exit, Kill
<1>23. ASSUME NEW a \in sending, Deliver(a) PROVE SaidInv'
  BY <1>23, SaidDeliver
<1>24. ASSUME Drain PROVE SaidInv'
  BY <1>24, SaidDrain
<1>25. ASSUME UNCHANGED vars PROVE SaidInv'
  BY <1>25, SaidSame DEF vars
<1> QED
  BY <1>1, <1>2, <1>3, <1>4, <1>5, <1>6, <1>7, <1>8, <1>9, <1>10, <1>11, <1>12, <1>13,
     <1>14, <1>15, <1>16, <1>17, <1>18, <1>19, <1>20, <1>21,
     <1>22, <1>23, <1>24, <1>25
  DEF Next, WatcherStep, ScanStep, EngineStep

\* A scan at work after a step has just got the lock, or held it, or did nothing.
LEMMA AtWorkStep ==
  ASSUME TypeOK, StageInv, ScanInv, [Next]_vars,
         NEW g \in Gens, scan'[g].step \notin {"idle", "waiting"}
  PROVE  \/ ScanLock(g)
         \/ /\ (scan'[g] = scan[g] /\ FoundBy(g)' \subseteq FoundBy(g)) \/ Busy(g)
            /\ gens'[g].policy = gens[g].policy
<1> USE DEF engine, records, saves, alerts, bounds, history
<1> DEFINE Goal == \/ ScanLock(g)
                   \/ /\ (scan'[g] = scan[g] /\ FoundBy(g)' \subseteq FoundBy(g)) \/ Busy(g)
                      /\ gens'[g].policy = gens[g].policy
<1>0. unmarked' = unmarked => FoundBy(g)' = FoundBy(g)
  BY DEF FoundBy
<1>1. ASSUME NEW f \in Files, Change(f) PROVE Goal
  BY <1>0, <1>1 DEF Change
<1>2. ASSUME NEW k \in Gens, WatcherStarts(k) \/ WatcherEnds(k) PROVE Goal
  BY <1>0, <1>2 DEF WatcherStarts, WatcherEnds
<1>3. ASSUME NEW k \in Gens, NEW f \in Files, WatcherSkips(k, f) \/ WatcherReads(k, f) PROVE Goal
  <2>1. \A m \in unmarked' : m \in unmarked \/ m.by = "watcher"
    BY <1>3 DEF WatcherSkips, WatcherReads, ToMark
  <2>2. FoundBy(g)' \subseteq FoundBy(g)
    BY <2>1 DEF FoundBy
  <2> QED
    BY <1>3, <2>2 DEF WatcherSkips, WatcherReads
<1>4. ASSUME NEW m \in unmarked, WatcherMarks(m) \/ ScanMarks(m) PROVE Goal
  <2>1. FoundBy(g)' \subseteq FoundBy(g)
    BY <1>4 DEF WatcherMarks, ScanMarks, FoundBy
  <2> QED
    BY <1>4, <2>1 DEF WatcherMarks, ScanMarks
<1>5. ASSUME NEW k \in Gens, ScanLock(k) PROVE Goal
  BY <1>0, <1>5 DEF ScanLock, TypeOK, ScanType
<1>6. ASSUME NEW k \in Gens, ScanRecords(k) \/ Sweep(k) PROVE Goal
  <2>1. Busy(k)
    BY <1>6, OneReading DEF ScanRecords, Sweep, Busy, Swept
  <2>2. k # g => FoundBy(g)' \subseteq FoundBy(g)
    BY <1>6 DEF ScanRecords, Sweep, FoundBy, ToMark
  <2> QED
    BY <1>6, <2>1, <2>2 DEF ScanRecords, Sweep, TypeOK, ScanType
<1>7. ASSUME NEW k \in Gens, NEW f \in Files,
             ScanReads(k, f) \/ WalkMisses(k, f) \/ SweepDrops(k, f)
      PROVE  Goal
  <2>1. Busy(k)
    BY <1>7 DEF ScanReads, WalkMisses, SweepDrops, Busy, Swept, ReadAll
  <2>2. k # g => FoundBy(g)' \subseteq FoundBy(g)
    BY <1>7 DEF ScanReads, WalkMisses, SweepDrops, FoundBy, ToMark
  <2> QED
    BY <1>7, <2>1, <2>2 DEF ScanReads, WalkMisses, SweepDrops, TypeOK, ScanType
<1>8. ASSUME NEW k \in Gens, PeriodicScanEnds(k) \/ Started(k) PROVE Goal
  <2>1. ScanReport(k) /\ gens'[g].policy = gens[g].policy /\ unmarked' = unmarked
    BY <1>8 DEF PeriodicScanEnds, Started, TypeOK, EngineType, Generations
  <2>2. k # g
    BY <2>1, ScanReportStage DEF NoScan
  <2> QED
    BY <1>0, <2>1, <2>2, ScanReportStage
<1>9. ASSUME NEW k \in Gens, PeriodicScan(k) PROVE Goal
  <2>1. StartedScan.step = "waiting"
    BY StartedScanType DEF TypeOK, RecordsType
  <2> QED
    BY <1>0, <1>9, <2>1 DEF PeriodicScan, TypeOK, ScanType
<1>10. ASSUME NEW k \in Gens, PeriodicSave(k) \/ PeriodicWakes(k) PROVE Goal
  BY <1>0, <1>10 DEF PeriodicSave, PeriodicWakes
<1>11. ASSUME NEW s \in Savers, SaveCollects(s) \/ SaveOpens(s) \/ Rename(s) \/ SaveFails(s) PROVE Goal
  BY <1>0, <1>11 DEF SaveCollects, SaveOpens, Rename, SaveFails
<1>12. ASSUME StartSaves PROVE Goal
  BY <1>0, <1>12 DEF StartSaves
<1>13. ASSUME StartProcess PROVE Goal
  <2>1. 1 \in Gens /\ \A h \in Gens : scan[h] = NoScan
    BY <1>13 DEF StartProcess, StageInv, Gens
  <2>2. scan'[g].step \in {"idle", "waiting"}
    BY <1>13, <2>1, NoThings DEF StartProcess, Start, StartedScan, NoScan, Scans, TypeOK, ScanType
  <2> QED
    BY <2>2
<1>14. ASSUME NEW p \in Policies, Restart(p) PROVE Goal
  <2>1. gen + 1 \in Gens
    <3>1. gen \in 0..MaxStarts
      BY DEF TypeOK, EngineType
    <3>2. starts \in Nat /\ starts + 1 <= MaxStarts /\ gen <= starts
      BY <1>14 DEF Restart, Start, TypeOK, BoundsType, StageInv
    <3> QED
      BY <3>1, <3>2, FimAssumption DEF Gens
  <2>2. scan'[gen + 1].step = "waiting"
    BY <1>14, <2>1, NoThings DEF Restart, Start, StartedScan, NoScan, Scans, TypeOK, ScanType
  <2> QED
    BY <1>0, <1>14, <2>2 DEF Restart, Start, TypeOK, ScanType, EngineType
<1>15. ASSUME UpdateConfig \/ Stop PROVE Goal
  <2>1. Stopped
    BY <1>15 DEF UpdateConfig, Stop
  <2> QED
    BY <1>0, <2>1 DEF Stopped, TypeOK, EngineType, Generations
<1>16. ASSUME Exit \/ Kill PROVE Goal
  BY <1>16 DEF Exit, Kill, ProcessEnds, NoScan
<1>17. ASSUME NEW a \in sending, Deliver(a) PROVE Goal
  BY <1>0, <1>17 DEF Deliver
<1>18. ASSUME Drain PROVE Goal
  BY <1>0, <1>18 DEF Drain
<1>19. ASSUME UNCHANGED vars PROVE Goal
  BY <1>0, <1>19 DEF vars
<1> QED
  BY <1>1, <1>2, <1>3, <1>4, <1>5, <1>6, <1>7, <1>8, <1>9, <1>10, <1>11, <1>12, <1>13, <1>14,
     <1>15, <1>16, <1>17, <1>18, <1>19 DEF Next, WatcherStep, ScanStep, EngineStep

LEMMA FindInit == Init => FindInv
  BY DEF Init, FindInv, Busy, NoScan

LEMMA FindStep ==
  ASSUME TypeOK, StageInv, ScanInv, VersionInv, FindInv, [Next]_vars
  PROVE  FindInv'
<1> SUFFICES ASSUME NEW g \in Gens, Busy(g)', NEW f \in Covered(gens[g].policy)'
             PROVE  Settled(g, f)' \/ Owed(g, f)'
  BY DEF FindInv
<1>1. scan'[g].step \notin {"idle", "waiting"}
  BY DEF Busy
<1>2. CASE ScanLock(g)
  <2>1. scan'[g].todo = Covered(gens[g].policy) /\ gens' = gens
    BY <1>2 DEF ScanLock, TypeOK, ScanType, Scans, engine
  <2> QED
    BY <2>1 DEF Owed
<1>3. CASE /\ (scan'[g] = scan[g] /\ FoundBy(g)' \subseteq FoundBy(g)) \/ Busy(g)
           /\ gens'[g].policy = gens[g].policy
  <2>1. Busy(g)
    BY <1>3 DEF Busy, Swept, ReadAll
  <2>2. f \in Covered(gens[g].policy)
    BY <1>3 DEF Covered
  <2> QED
    BY <1>1, <2>1, <2>2, FoundStep
<1> QED
  BY <1>1, <1>2, <1>3, AtWorkStep

-----------------------------------------------------------------------------
(* The theorems *)

LEMMA FimInvInit == Init => FimInv
  BY TypeInit, StageInit, ScanInit, VersionInit, SavedInit, FindInit DEF FimInv

LEMMA FimInvStep == FimInv /\ [Next]_vars => FimInv'
<1> SUFFICES ASSUME FimInv, [Next]_vars PROVE FimInv'
  OBVIOUS
<1>1. TypeOK /\ StageInv /\ ScanInv /\ VersionInv /\ SavedInv /\ FindInv
  BY DEF FimInv
<1>2. TypeOK'
  BY <1>1, TypeStep
<1>3. StageInv' /\ ScanInv'
  BY <1>1, <1>2, StageStep, ScanStepInv
<1>4. VersionInv' /\ SavedInv' /\ FindInv'
  BY <1>1, VersionStep, SavedStep, FindStep
<1> QED
  BY <1>2, <1>3, <1>4 DEF FimInv

\* Every reachable state is well typed, and the channel never holds more alerts
\* than its capacity (mpsc::channel, try_send).
THEOREM TypeCorrect == Spec => []TypeOK
<1>1. FimInv => TypeOK
  BY DEF FimInv
<1> QED
  BY <1>1, FimInvInit, FimInvStep, PTL DEF Spec

\* Scanner::save_if_changed, store::save: an entry that differs from the saved one
\* has a mark that will save it, a save at work that took the mark, or a thread
\* about to set it, for any number of saves that take the mark and collect their
\* snapshots while the watchers and scans change entries, that write to the same
\* temporary file, and that fail; a save that another overtook between its snapshot
\* and its file is left out.
THEOREM SavedOrDirty == Spec => []SavedUnlessDirty
<1>1. FimInv => SavedUnlessDirty
  <2> SUFFICES ASSUME FimInv, process = "up", ~dirty, ~overtaken, \A s \in Savers : ~Saves(s),
                      NEW f \in Files \ MarkDue
               PROVE  saved.entries[f] = baseline[f]
    BY DEF SavedUnlessDirty
  <2>1. Saving = {} /\ taking = {}
    BY DEF Saving, Saves, FimInv, TypeOK, SavesType
  <2> QED
    BY <2>1 DEF FimInv, SavedInv
<1> QED
  BY <1>1, FimInvInit, FimInvStep, PTL DEF Spec

\* What a step may make of an entry while the process runs.
LEMMA EntryMoves ==
  ASSUME TypeOK, [Next]_vars, process = "up", NEW f \in Files
  PROVE  \/ baseline'[f] = baseline[f] \/ baseline'[f] = None
         \/ baseline'[f] = Entry(disk[f])
         \/ \E g \in Gens : /\ scan[g].reading # NotReading /\ scan[g].reading.path = f
                            /\ baseline'[f] = Entry(scan[g].reading.state)
<1> USE DEF engine, records, saves, alerts, bounds, history
<1> DEFINE Goal == \/ baseline'[f] = baseline[f] \/ baseline'[f] = None
                   \/ baseline'[f] = Entry(disk[f])
                   \/ \E g \in Gens :
                        /\ scan[g].reading # NotReading /\ scan[g].reading.path = f
                        /\ baseline'[f] = Entry(scan[g].reading.state)
<1>1. ASSUME NEW h \in Files, Change(h) PROVE Goal
  BY <1>1 DEF Change
<1>2. ASSUME NEW k \in Gens,
             \/ WatcherStarts(k) \/ WatcherEnds(k) \/ ScanLock(k) \/ Sweep(k)
             \/ PeriodicScanEnds(k) \/ Started(k) \/ PeriodicScan(k) \/ PeriodicWakes(k)
             \/ PeriodicSave(k)
      PROVE  Goal
  BY <1>2 DEF WatcherStarts, WatcherEnds, ScanLock, Sweep, PeriodicScanEnds, Started,
              PeriodicScan, PeriodicWakes, PeriodicSave
<1>3. ASSUME NEW k \in Gens, NEW h \in Files,
             WatcherSkips(k, h) \/ ScanReads(k, h) \/ WalkMisses(k, h)
      PROVE  Goal
  BY <1>3 DEF WatcherSkips, ScanReads, WalkMisses
<1>4. ASSUME NEW k \in Gens, NEW h \in Files, WatcherReads(k, h) PROVE Goal
  <2>1. baseline' = [baseline EXCEPT ![h] = Entry(disk[h])]
    BY <1>4, RecordedType, VersionTypes DEF WatcherReads, TypeOK, RecordsType
  <2> QED
    BY <2>1 DEF TypeOK, RecordsType, Entries
<1>5. ASSUME NEW k \in Gens, ScanRecords(k) PROVE Goal
  <2>1. scan[k].reading # NotReading /\ scan[k].reading.path \in Files
        /\ scan[k].reading.state \in FileStates
    BY <1>5, VersionTypes DEF ScanRecords
  <2>2. baseline' = [baseline EXCEPT ![scan[k].reading.path] = Entry(scan[k].reading.state)]
    BY <1>5, <2>1, RecordedType DEF ScanRecords, TypeOK, RecordsType
  <2> QED
    BY <2>1, <2>2 DEF TypeOK, RecordsType, Entries
<1>6. ASSUME NEW k \in Gens, NEW h \in Files, SweepDrops(k, h) PROVE Goal
  BY <1>6 DEF SweepDrops, TypeOK, RecordsType, Entries
<1>7. ASSUME NEW s \in Savers, SaveCollects(s) \/ SaveOpens(s) \/ Rename(s) \/ SaveFails(s) PROVE Goal
  BY <1>7 DEF SaveCollects, SaveOpens, Rename, SaveFails
<1>8. ASSUME NEW m \in unmarked, WatcherMarks(m) \/ ScanMarks(m) PROVE Goal
  BY <1>8 DEF WatcherMarks, ScanMarks
<1>9. ASSUME StartSaves PROVE Goal
  BY <1>9 DEF StartSaves
<1>10. ASSUME StartProcess PROVE Goal
  BY <1>10 DEF StartProcess
<1>11. ASSUME NEW p \in Policies, Restart(p) PROVE Goal
  BY <1>11 DEF Restart
<1>12. ASSUME UpdateConfig \/ Stop PROVE Goal
  BY <1>12 DEF UpdateConfig, Stop, Stopped
<1>13. ASSUME Exit \/ Kill PROVE Goal
  BY <1>13 DEF Exit, Kill, ProcessEnds
<1>14. ASSUME NEW a \in sending, Deliver(a) PROVE Goal
  BY <1>14 DEF Deliver
<1>15. ASSUME Drain PROVE Goal
  BY <1>15 DEF Drain
<1>16. ASSUME UNCHANGED vars PROVE Goal
  BY <1>16 DEF vars
<1> QED
  BY <1>1, <1>2, <1>3, <1>4, <1>5, <1>6, <1>7, <1>8, <1>9, <1>10, <1>11, <1>12, <1>13, <1>14,
     <1>15, <1>16
  DEF Next, WatcherStep, ScanStep, EngineStep

\* BaselineManager::observe_key under the apply lock: whichever of the watchers and
\* the scans of any number of generations records a file, its entry never goes back
\* to an earlier version while the process runs.
THEOREM EntriesAdvance == Spec => NeverBackwards
<1> DEFINE Advance == \A f \in Files :
             (process = "up" /\ baseline[f] # None /\ baseline'[f] # None)
               => baseline'[f] >= baseline[f]
<1>1. FimInv /\ [Next]_vars => [Advance]_vars
  <2> SUFFICES ASSUME FimInv, [Next]_vars, process = "up",
                      NEW f \in Files, baseline[f] # None, baseline'[f] # None
               PROVE  baseline'[f] >= baseline[f]
    OBVIOUS
  <2>1. TypeOK /\ VersionInv
    BY DEF FimInv
  <2>2. baseline[f] \in Int /\ disk[f].ver \in Nat /\ baseline[f] <= disk[f].ver
    BY <2>1, VersionTypes DEF VersionInv
  <2>3. CASE baseline'[f] = Entry(disk[f])
    BY <2>2, <2>3 DEF Entry
  <2>4. CASE \E g \in Gens : /\ scan[g].reading # NotReading /\ scan[g].reading.path = f
                             /\ baseline'[f] = Entry(scan[g].reading.state)
    <3>1. PICK g \in Gens : /\ scan[g].reading # NotReading /\ scan[g].reading.path = f
                            /\ baseline'[f] = Entry(scan[g].reading.state)
      BY <2>4
    <3>2. baseline[f] <= scan[g].reading.state.ver /\ scan[g].reading.state.ver \in Nat
      BY <2>1, <3>1, VersionTypes DEF VersionInv
    <3> QED
      BY <2>2, <3>1, <3>2 DEF Entry
  <2> QED
    BY <2>1, <2>2, <2>3, <2>4, EntryMoves
<1> QED
  BY <1>1, FimInvInit, FimInvStep, PTL DEF Spec, NeverBackwards

\* BaselineManager::scan, Scanner::scan: a scan that has read all it had to read
\* leaves no watched file different from its entry, apart from those changed since
\* it began, whatever events were lost and whatever the watchers did meanwhile.
THEOREM ScansFindAll == Spec => ScanFindsAll
<1> DEFINE Found == \A g \in Gens : (~Swept(g) /\ Swept(g)') =>
             \A f \in Covered(gens[g].policy) :
               baseline'[f] = Entry(disk'[f]) \/ disk'[f].ver > scan'[g].since
<1>1. FimInv /\ [Next]_vars => [Found]_vars
  <2> SUFFICES ASSUME FimInv, [Next]_vars, NEW g \in Gens, ~Swept(g), Swept(g)',
                      NEW f \in Covered(gens[g].policy)
               PROVE  baseline'[f] = Entry(disk'[f]) \/ disk'[f].ver > scan'[g].since
    OBVIOUS
  <2>0. TypeOK /\ StageInv /\ ScanInv /\ VersionInv /\ FindInv
    BY DEF FimInv
  <2>1. /\ scan'[g].step = "sweep" /\ scan'[g].todo = {} /\ scan'[g].reading = NotReading
    BY DEF Swept, ReadAll
  <2>2. ~ScanLock(g)
    BY <2>0, <2>1 DEF ScanLock, TypeOK, ScanType, Scans
  <2>3. scan'[g] = scan[g] => Busy(g)
    BY <2>1 DEF Busy
  <2>4. Busy(g)
    BY <2>0, <2>1, <2>2, <2>3, AtWorkStep
  <2>5. Settled(g, f)' \/ Owed(g, f)'
    BY <2>0, <2>1, <2>4, FoundStep
  <2>6. f \in Files
    BY <2>0, CoveredFiles DEF TypeOK, EngineType, Generations
  <2>7. ~Owed(g, f)'
    BY <2>1, <2>6 DEF Owed, NotReading
  <2> QED
    BY <2>5, <2>7 DEF Settled, Entry
<1> QED
  BY <1>1, FimInvInit, FimInvStep, PTL DEF Spec, ScanFindsAll

\* Scanner::scan, EventLoop::read, drain_fim_alerts, save_if_changed: what the baseline
\* holds of a watched file is known to the main loop or on its way there, through any
\* number of restarts, kills, policies and scans, apart from the losses the model
\* counts: alerts that found the channel full, what a process took with it, and
\* entries dropped while their file was not watched.
THEOREM AllSaid == Spec => []NothingUnsaid
<1>1. Init => FimInv /\ SaidInv
  BY FimInvInit, SaidInit
<1>2. FimInv /\ SaidInv /\ [Next]_vars => (FimInv /\ SaidInv)'
  <2> SUFFICES ASSUME FimInv, SaidInv, [Next]_vars PROVE FimInv' /\ SaidInv'
    OBVIOUS
  <2>1. FimInv'
    BY FimInvStep
  <2> QED
    BY <2>1, SaidStep DEF FimInv
<1>3. FimInv /\ SaidInv => NothingUnsaid
  <2> SUFFICES ASSUME FimInv, SaidInv, process = "up",
                      NEW f \in Covered(gens[gen].policy) \ excused
               PROVE  \/ baseline[f] = Entry(told[f])
                      \/ \E a \in channel \cup sending \cup Noted \cup UNION {scan[g].found : g \in Gens} :
                           a.path = f /\ Entry(a.state) = baseline[f]
    BY DEF NothingUnsaid
  <2>1. TypeOK /\ gen \in Gens
    BY DEF FimInv, StageInv
  <2>2. f \in Files
    BY <2>1, CoveredFiles DEF TypeOK, EngineType, Generations
  <2> DEFINE S == SaidOf(f)
             ver == [r \in S |-> r.ver]
  <2>3. ver \in [S -> -1 .. MaxEvents] /\ S # {}
    BY <2>1, <2>2, SaidType, SaidMembers
  <2>4. PICK r \in S : \A q \in S : ver[q] <= ver[r]
    <3> HIDE DEF S, ver
    <3> QED
      BY <2>3, Newest
  <2>5. r \in SaidOf(f) /\ \A q \in SaidOf(f) : q.ver <= r.ver
    BY <2>4
  <2>6. Entry(r) = baseline[f]
    BY <2>2, <2>5 DEF SaidInv, NewestRecorded
  <2> QED
    BY <2>2, <2>5, <2>6, SaidMembers DEF Noted
<1> QED
  BY <1>1, <1>2, <1>3, PTL DEF Spec
=============================================================================
