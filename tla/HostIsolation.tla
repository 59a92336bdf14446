--------------------------- MODULE HostIsolation ---------------------------
(***************************************************************************)
(* Host isolation on Linux (host_isolation.rs): firewall rules put in and  *)
(* taken out command by command, a record on disk, a release timer, and    *)
(* what a restart makes of the record. Requests come from the interface,   *)
(* the platform, playbooks and the privileged socket; each is a task of    *)
(* its own and nothing orders them. Slots bounds how many run together.    *)
(*                                                                         *)
(* Rules outlive the process but not a reboot; the record outlives both.   *)
(* The two chains of a family (in, out) are one chain here, the commands   *)
(* that fill it one step, the three jumps to it one jump.                  *)
(***************************************************************************)
EXTENDS IsolationRules

CONSTANTS
  Slots,      \* operations that may run at the same time
  Networks,   \* platform addresses and resolvers an isolation may find
  Durations,  \* requested durations, 0: until released
  Failing,    \* steps that may fail: "clear" (and undo), "build", "hook", "store", "drop"
  MaxClock,   \* bound: the clock
  MaxFaults,  \* bound: failed commands and writes
  MaxCrashes, \* bound: kills and reboots
  MaxRequests \* bound: requests

\* No network: a standalone agent has neither platform nor, maybe, resolvers, but
\* there is no family 0.
NoNet == [allowed |-> {}, dns |-> {<<0, 0>>}]

ASSUME IsolationAssumption ==
  /\ NoNet \notin Networks
  /\ Durations \subseteq Nat
  /\ MaxClock \in Nat /\ MaxFaults \in Nat
  /\ MaxCrashes \in Nat /\ MaxRequests \in Nat

VARIABLES
  process,   \* "down", "starting" (reconcile), "up"
  chain,     \* per family: "absent", "empty" or "built"
  loaded,    \* per family: the network the rules were built for
  jumps,     \* per family: rules that send the traffic to the chain
  record,    \* host_isolation.json
  isolated,  \* ISOLATED, what the agent reports
  timers,    \* seconds left of the release timers
  lifting,   \* records that timers found due: they have yet to release
  task,      \* the operations under way
  clock,     \* wall clock
  faults, crashes, requests,
  failed,    \* history: the last operation to end did not succeed
  leftover   \* history: families whose rules a crash or a failed command left behind

firewall == <<chain, loaded, jumps>>
counters == <<faults, crashes, requests>>
history == <<failed, leftover>>
vars == <<process, chain, loaded, jumps, record, isolated, timers, lifting, task,
          clock, faults, crashes, requests, failed, leftover>>

Forever == -1
Missing == [until |-> -2, net |-> NoNet]   \* no record
Torn == [until |-> -3, net |-> NoNet]      \* fs::write cut short: load_state reads none

Untils == Nat \union {Forever}
Records == [until : Untils, net : Networks]
Recorded == record \in Records

\* kind: who runs the operation. after: delay of its timer, 0: none. until: the
\* end recorded, set when the rules are in; for a timer, the end it found.
Idle == [kind |-> "none", step |-> "idle", fam |-> 4, after |-> 0,
         until |-> Forever, net |-> NoNet]

Running == {t \in Slots : task[t] # Idle}

Filtering(f) == chain[f] = "built" /\ jumps[f] > 0

Contained == \A f \in Families : Filtering(f)

Quiet == process = "up" /\ Running = {}

Init ==
  /\ process = "up"
  /\ chain = [f \in Families |-> "absent"]
  /\ loaded = [f \in Families |-> NoNet]
  /\ jumps = [f \in Families |-> 0]
  /\ record = Missing
  /\ isolated = FALSE
  /\ timers = {} /\ lifting = {}
  /\ task = [t \in Slots |-> Idle]
  /\ clock = 0
  /\ faults = 0 /\ crashes = 0 /\ requests = 0
  /\ failed = FALSE
  /\ leftover = {}

-----------------------------------------------------------------------------
(* Requests *)

Begin(t, kind, after, until, net) ==
  /\ task[t] = Idle
  /\ task' = [task EXCEPT ![t] = [kind |-> kind, step |-> "clear", fam |-> 4,
                                  after |-> after, until |-> until, net |-> net]]

Request ==
  /\ process = "up"
  /\ requests < MaxRequests
  /\ requests' = requests + 1
  /\ UNCHANGED <<process, firewall, record, isolated, timers, lifting, clock,
                 faults, crashes, history>>

\* isolate_host, once the platform was located and the resolvers read.
Isolate(t, d, n) == Request /\ Begin(t, "isolate", d, Forever, n)

Release(t) == Request /\ Begin(t, "release", 0, Forever, NoNet)

\* Mutant: the timer lifts whatever isolation it finds.
DueAlways == Recorded

Due == Recorded /\ record.until # Forever /\ record.until <= clock

\* schedule_release, after its sleep: the record is read and compared...
TimerChecks ==
  /\ process = "up"
  /\ 0 \in timers
  /\ timers' = timers \ {0}
  /\ lifting' = IF Due THEN lifting \union {record} ELSE lifting
  /\ UNCHANGED <<process, firewall, record, isolated, task, clock, counters, history>>

\* ...then release_host lifts what is there by now.
TimerLifts(t) ==
  /\ process = "up"
  /\ \E r \in lifting :
       /\ lifting' = lifting \ {r}
       /\ Begin(t, "timer", 0, r.until, NoNet)
  /\ UNCHANGED <<process, firewall, record, isolated, timers, clock, counters, history>>

-----------------------------------------------------------------------------
(* Commands *)

At(t, step) == task[t].step = step

GoTo(t, step, f) == task' = [task EXCEPT ![t].step = step, ![t].fam = f]

MayFail(step) == step \in Failing /\ faults < MaxFaults /\ faults' = faults + 1

\* iptables_release for one family: one jump is removed; a chain something still
\* jumps to is emptied and cannot be deleted.
Lift(f) ==
  LET left == IF jumps[f] > 0 THEN jumps[f] - 1 ELSE 0 IN
  /\ jumps' = [jumps EXCEPT ![f] = left]
  /\ chain' = [chain EXCEPT ![f] = IF left = 0 \/ @ = "absent" THEN "absent" ELSE "empty"]
  /\ loaded' = [loaded EXCEPT ![f] = NoNet]
  /\ leftover' = leftover \ {f}

\* Commands of it that fail are skipped: the jump may stay, the chain may keep its
\* rules or be emptied only.
LiftPartly(f) ==
  /\ MayFail("clear")
  /\ jumps' = jumps \/ (jumps[f] > 0 /\ jumps' = [jumps EXCEPT ![f] = @ - 1])
  /\ \/ UNCHANGED <<chain, loaded>>
     \/ /\ chain[f] = "built"
        /\ chain' = [chain EXCEPT ![f] = "empty"]
        /\ loaded' = [loaded EXCEPT ![f] = NoNet]
  /\ leftover' = leftover \union {f}

\* Both families are cleared before rules go in, and by a release.
Clear(t) ==
  LET f == task[t].fam IN
  /\ At(t, "clear")
  /\ (Lift(f) /\ UNCHANGED faults) \/ LiftPartly(f)
  /\ IF f = 4 THEN GoTo(t, "clear", 6)
     ELSE GoTo(t, IF task[t].net = NoNet THEN "drop" ELSE "build", 4)
  /\ UNCHANGED <<process, record, isolated, timers, lifting, clock, crashes, requests, failed>>

\* A chain that exists already makes the first command fail.
Build(t) ==
  LET f == task[t].fam IN
  /\ At(t, "build")
  /\ \/ /\ chain[f] = "absent"
        /\ chain' = [chain EXCEPT ![f] = "built"]
        /\ loaded' = [loaded EXCEPT ![f] = task[t].net]
        /\ GoTo(t, "hook", f)
        /\ UNCHANGED faults
     \/ /\ chain[f] # "absent"
        /\ GoTo(t, "undo", 4)
        /\ UNCHANGED <<chain, loaded, faults>>
     \/ /\ chain[f] = "absent"
        /\ MayFail("build")
        /\ chain' = [chain EXCEPT ![f] = "empty"]
        /\ GoTo(t, "undo", 4)
        /\ UNCHANGED loaded
  /\ UNCHANGED <<process, jumps, record, isolated, timers, lifting, clock,
                 crashes, requests, history>>

\* Mutant: the rules of the second family are never hooked.
HookFirstOnly(t) ==
  /\ At(t, "hook")
  /\ IF task[t].fam = 4
     THEN jumps' = [jumps EXCEPT ![4] = @ + 1] /\ GoTo(t, "build", 6)
     ELSE GoTo(t, "store", 6) /\ UNCHANGED jumps
  /\ UNCHANGED <<process, chain, loaded, record, isolated, timers, lifting, clock,
                 counters, history>>

\* The jumps come last: until then the chains filter nothing.
Hook(t) ==
  LET f == task[t].fam IN
  /\ At(t, "hook")
  /\ \/ /\ chain[f] # "absent"
        /\ jumps' = [jumps EXCEPT ![f] = @ + 1]
        /\ IF f = 4 THEN GoTo(t, "build", 6) ELSE GoTo(t, "store", 6)
        /\ UNCHANGED faults
     \/ /\ (chain[f] = "absent" /\ UNCHANGED faults) \/ MayFail("hook")
        /\ GoTo(t, "undo", 4)
        /\ UNCHANGED jumps
  /\ UNCHANGED <<process, chain, loaded, record, isolated, timers, lifting, clock,
                 crashes, requests, history>>

\* Mutant: a restart starts no timer.
FinishNoTimer(t) ==
  /\ task' = [task EXCEPT ![t] = Idle]
  /\ process' = "up"
  /\ timers' = IF task[t].after = 0 \/ process = "starting" THEN timers
               ELSE timers \union {task[t].after}

\* The end of an operation: its timer starts, and a restart is over.
Finish(t) ==
  /\ task' = [task EXCEPT ![t] = Idle]
  /\ process' = "up"
  /\ timers' = IF task[t].after = 0 THEN timers ELSE timers \union {task[t].after}

\* An isolate_host that fails starts no timer; reconcile_host_isolation does.
GiveUp(t) ==
  /\ failed' = TRUE
  /\ IF task[t].kind = "isolate"
     THEN task' = [task EXCEPT ![t] = Idle] /\ UNCHANGED <<process, timers>>
     ELSE Finish(t)

\* Mutant: a failed attempt leaves the family it did as it is.
UndoNothing(t) ==
  /\ At(t, "undo")
  /\ GiveUp(t)
  /\ UNCHANGED <<firewall, leftover, record, isolated, lifting, clock, counters>>

\* Rollback of a failed attempt, or remove_rules when the record failed: the same
\* commands, as likely to fail.
Undo(t) ==
  LET f == task[t].fam IN
  /\ At(t, "undo")
  /\ (Lift(f) /\ UNCHANGED faults) \/ LiftPartly(f)
  /\ IF f = 4
     THEN GoTo(t, "undo", 6) /\ UNCHANGED <<process, timers, failed>>
     ELSE GiveUp(t)
  /\ UNCHANGED <<record, isolated, lifting, clock, crashes, requests>>

-----------------------------------------------------------------------------
(* Record *)

End(d) == IF d = 0 THEN Forever ELSE clock + d

\* store_state opens the file, which empties it. It may fail before or after;
\* isolate_host then removes the rules, a restart keeps them.
Store(t) ==
  /\ At(t, "store")
  /\ \/ /\ record' = Torn
        /\ task' = [task EXCEPT ![t].step = "write",
                                ![t].until = IF task[t].kind = "isolate"
                                             THEN End(task[t].after) ELSE @]
        /\ UNCHANGED <<process, isolated, timers, faults, history>>
     \/ /\ MayFail("store")
        /\ record' \in {record, Torn}
        /\ IF task[t].kind = "isolate"
           THEN GoTo(t, "undo", 4) /\ UNCHANGED <<process, isolated, timers, history>>
           ELSE /\ isolated' = TRUE
                /\ GiveUp(t)
                /\ leftover' = IF record' = Torn THEN Families ELSE leftover
  /\ UNCHANGED <<firewall, lifting, clock, crashes, requests>>

\* Then it writes: the isolation is in force and a timer waits for its end.
Write(t) ==
  /\ At(t, "write")
  /\ record' = [until |-> task[t].until, net |-> task[t].net]
  /\ isolated' = TRUE
  /\ failed' = FALSE
  /\ Finish(t)
  /\ UNCHANGED <<firewall, lifting, clock, counters, leftover>>

\* release_host, once the rules are out. The record may stay.
Drop(t) ==
  /\ At(t, "drop")
  /\ isolated' = FALSE
  /\ \/ record' = Missing /\ failed' = FALSE /\ UNCHANGED faults
     \/ record # Missing /\ MayFail("drop") /\ failed' = TRUE /\ UNCHANGED record
  /\ Finish(t)
  /\ UNCHANGED <<firewall, lifting, clock, crashes, requests, leftover>>

-----------------------------------------------------------------------------
(* The process and the clock *)

\* The process is killed, or the machine restarts and the rules are gone.
Crash(reboot) ==
  /\ process # "down"
  /\ crashes < MaxCrashes
  /\ crashes' = crashes + 1
  /\ process' = "down"
  /\ isolated' = FALSE
  /\ timers' = {} /\ lifting' = {}
  /\ task' = [t \in Slots |-> Idle]
  /\ IF reboot
     THEN /\ chain' = [f \in Families |-> "absent"]
          /\ loaded' = [f \in Families |-> NoNet]
          /\ jumps' = [f \in Families |-> 0]
          /\ leftover' = {}
     ELSE /\ leftover' = IF Running = {} THEN leftover ELSE Families
          /\ UNCHANGED firewall
  /\ UNCHANGED <<record, clock, faults, requests, failed>>

\* Mutant: the time left is neither compared with zero nor clamped.
StartUnclamped(t) ==
  /\ process = "down"
  /\ IF ~Recorded
     THEN process' = "up" /\ UNCHANGED task
     ELSE /\ process' = "starting"
          /\ Begin(t, "reconcile",
                   IF record.until = Forever THEN 0 ELSE record.until - clock,
                   record.until, record.net)
  /\ UNCHANGED <<firewall, record, isolated, timers, lifting, clock, counters, history>>

\* reconcile_host_isolation: the record decides.
Start(t) ==
  /\ process = "down"
  /\ IF ~Recorded
     THEN process' = "up" /\ UNCHANGED task
     ELSE /\ process' = "starting"
          /\ IF Due THEN Begin(t, "reconcile", 0, Forever, NoNet)
             ELSE Begin(t, "reconcile",
                        IF record.until = Forever THEN 0 ELSE record.until - clock,
                        record.until, record.net)
  /\ UNCHANGED <<firewall, record, isolated, timers, lifting, clock, counters, history>>

\* A second passes. The clock stops at its bound, the timers do not.
Tick ==
  /\ clock' = IF clock < MaxClock THEN clock + 1 ELSE clock
  /\ timers' = {IF s > 0 THEN s - 1 ELSE 0 : s \in timers}
  /\ <<clock, timers>>' # <<clock, timers>>
  /\ UNCHANGED <<process, firewall, record, isolated, lifting, task, counters, history>>

-----------------------------------------------------------------------------
TaskStep(t) ==
  Clear(t) \/ Build(t) \/ Hook(t) \/ Undo(t) \/ Store(t) \/ Write(t) \/ Drop(t)

Next ==
  \/ \E t \in Slots :
       \/ \E d \in Durations, n \in Networks : Isolate(t, d, n)
       \/ Release(t) \/ TimerLifts(t) \/ Start(t) \/ TaskStep(t)
  \/ \E reboot \in BOOLEAN : Crash(reboot)
  \/ TimerChecks
  \/ Tick

Spec == Init /\ [][Next]_vars

\* Operations run to their end, time passes, sleeping timers wake up, the service
\* manager starts the agent again. Nothing makes a user ask.
Fairness ==
  /\ WF_vars(Tick) /\ WF_vars(TimerChecks)
  /\ \A t \in Slots : WF_vars(TaskStep(t)) /\ WF_vars(TimerLifts(t)) /\ WF_vars(Start(t))

FairSpec == Spec /\ Fairness

-----------------------------------------------------------------------------
(* Properties *)

Tasks ==
  [kind : {"none", "isolate", "release", "timer", "reconcile"},
   step : {"idle", "clear", "build", "hook", "undo", "store", "write", "drop"},
   fam : Families, after : Nat, until : Untils, net : Networks \union {NoNet}]

\* Type invariant.
TypeOK ==
  /\ process \in {"down", "starting", "up"}
  /\ chain \in [Families -> {"absent", "empty", "built"}]
  /\ loaded \in [Families -> Networks \union {NoNet}]
  /\ jumps \in [Families -> Nat]
  /\ record \in {Missing, Torn} \/ Recorded
  /\ isolated \in BOOLEAN /\ failed \in BOOLEAN
  /\ timers \subseteq Nat /\ lifting \subseteq Records
  /\ task \in [Slots -> Tasks]
  /\ clock \in 0 .. MaxClock /\ faults \in 0 .. MaxFaults
  /\ crashes \in 0 .. MaxCrashes /\ requests \in 0 .. MaxRequests
  /\ leftover \subseteq Families

\* Between operations, what the agent reports, what it recorded and what the
\* firewall does agree, restarts and reboots included, unless the last
\* operation ended with an error (isolate_host, reconcile_host_isolation).
InAgreement ==
  Quiet /\ ~failed =>
    /\ isolated <=> Recorded
    /\ Recorded => \A f \in Families : Filtering(f) /\ loaded[f] = record.net

\* Between operations, no family is cut off without a record that a release or
\* a restart can act on, except for rules that a kill in the middle of an
\* operation or a failed command left behind (iptables_release, rollback).
FilteringIsRecorded ==
  Quiet => \A f \in Families \ leftover : Filtering(f) => Recorded

\* An isolation whose end has not come is lifted by a request, or by a timer that
\* found the end come of an isolation replaced since: between its check and its
\* release it does not look again (schedule_release, host_isolation.rs:842). A
\* timer of an earlier isolation that finds a later end lifts nothing.
NotLiftedEarly ==
  [][(Contained /\ ~Contained' /\ Recorded /\ process = "up" /\ process' = "up")
       => \/ record.until # Forever /\ record.until <= clock
          \/ \E t \in Slots :
               \/ task[t].kind \in {"isolate", "release"}
               \/ /\ task[t].kind = "timer"
                  /\ task[t].until \in 0 .. clock
                  /\ task[t].until # record.until]_vars

\* A timed isolation ends, whatever was killed or restarted meanwhile: its end
\* survives in the record and in a timer; only a command that fails leaves rules
\* behind (reconcile_action, schedule_release).
TimedIsolationEnds ==
  \A u \in 1 .. MaxClock :
    (Recorded /\ record.until = u)
      ~> \/ \A f \in Families \ leftover : ~Filtering(f)
         \/ ~(Recorded /\ record.until = u)

\* Once isolated, an endpoint has the same holes whatever its firewall, but for the
\* traffic Windows has no rule for: for every small isolation the gaps between its
\* blocked ranges are the exceptions of Linux, other protocols, the source of a DHCP
\* request and the IPv6 stack aside; and pf's are Linux's as soon as an IPv6 address
\* is reachable (gaps, netsh_apply, iptables_apply, pf_rules).
SameHoles == Contained => HolesAgree

-----------------------------------------------------------------------------
(* What the properties rest on while operations do not overlap *)

OneAtATime == \A t, u \in Running : t = u

\* What puts rules in has a network; what only lifts has none, and undoes nothing.
NetInv(t) ==
  /\ task[t].kind = "none" => task[t] = Idle
  /\ task[t].step \in {"build", "hook", "undo", "store", "write"} => task[t].net \in Networks
  /\ task[t].kind \in {"release", "timer"} => task[t].net = NoNet

\* A timer that lifts found an end that had come.
LiftInv ==
  /\ \A r \in lifting : r.until \in 0 .. clock
  /\ \A t \in Slots : task[t].kind = "timer" => task[t].until \in 0 .. clock

\* Only a restart works on a process that is not up; what rebuilds found a record.
RecordInv(t) ==
  /\ task[t].kind \in {"isolate", "release", "timer"} => process = "up"
  /\ task[t].kind = "reconcile" => process = "starting"
  /\ (task[t].kind = "reconcile" /\ task[t].step # "write" /\ task[t].net # NoNet) => Recorded

InForce(f, net) == Filtering(f) /\ loaded[f] = net
Cleared(f) == chain[f] = "absent" \/ f \in leftover

\* What the operation has made of the firewall so far.
RulesInv(t) ==
  LET f == task[t].fam
      net == task[t].net IN
  /\ At(t, "clear") /\ f = 6 => Cleared(4)
  /\ At(t, "drop") => Cleared(4) /\ Cleared(6)
  /\ At(t, "undo") /\ f = 6 => Cleared(4)
  /\ At(t, "hook") => chain[f] = "built" /\ loaded[f] = net /\ jumps[f] = 0
  /\ task[t].step \in {"build", "hook"} /\ f = 6 => InForce(4, net)
  /\ task[t].step \in {"store", "write"} => InForce(4, net) /\ InForce(6, net)

\* Between operations; a process that starts has not said that it is isolated.
RestInv ==
  /\ process # "up" => ~isolated
  /\ Running = {} => \A f \in Families \ leftover : Filtering(f) => Recorded
  /\ InAgreement

\* One jump to a chain at most, and to one that is there.
ChainInv ==
  \A f \in Families : jumps[f] # 0 => jumps[f] = 1 /\ chain[f] # "absent"

IsolationInv ==
  /\ TypeOK /\ ChainInv /\ LiftInv /\ RestInv
  /\ \A t \in Slots : NetInv(t) /\ RecordInv(t) /\ RulesInv(t)
=============================================================================
