------------------------------ MODULE IpBlock ------------------------------
(***************************************************************************)
(* Blocking addresses (edr_actions.rs, edr_actions/ip_block.rs,            *)
(* edr_actions/pf_blocklist.rs). Linux keeps one rule per direction and    *)
(* address; macOS rewrites one pf anchor from a recorded list, under a     *)
(* mutex. A block with a duration has a timer in memory and an entry in a  *)
(* ledger on disk, which a restart reads.                                  *)
(*                                                                         *)
(* Requests come from the interface, playbooks, the platform and the       *)
(* privileged socket: each is a task of its own. The addresses are those   *)
(* the checks of block_ip accept; dropping the states of connections, best *)
(* effort, is left out.                                                    *)
(***************************************************************************)
EXTENDS Integers, FiniteSets

CONSTANTS
  Addresses,
  Spellings,   \* how a request may write an address: "plain", "mapped" (::ffff:a)
  Systems,     \* "linux", "macos"
  Slots,       \* operations that may run at the same time
  Durations,   \* requested durations, 0: until unblocked
  Failing,     \* steps that may fail
  MaxClock,    \* bound: the clock
  MaxFaults,   \* bound: failed commands and writes
  MaxCrashes,  \* bound: kills and reboots
  MaxRequests, \* bound: requests
  MaxEvents,   \* bound: the three together
  FirstRequests \* bound: addresses of the first request (all are alike)

NoHolder == "none"

ASSUME IpBlockAssumption ==
  /\ NoHolder \notin Slots
  /\ Spellings \subseteq {"plain", "mapped"} /\ Systems \subseteq {"linux", "macos"}
  /\ Durations \subseteq Nat
  /\ MaxClock \in Nat /\ MaxFaults \in Nat /\ MaxCrashes \in Nat /\ MaxRequests \in Nat
  /\ MaxEvents \in Nat

VARIABLES
  os,        \* the system, chosen once
  process,   \* "down", "restoring", "reconciling", "up"
  rules,     \* Linux: rules per address and direction
  anchor,    \* macOS: addresses the rules of the anchor drop
  refs,      \* macOS: references on pf, enabled while there is one
  record,    \* macOS: ip_blocklist.json
  holder,    \* macOS: who holds CHANGES
  ledger,    \* pending_ip_blocks.json: deadline by spelling, 0 if none
  todo,      \* entries a start has not dealt with
  timers,    \* names and seconds left
  task,      \* the operations under way
  clock, faults, crashes, requests,
  until,     \* history: what the last operation on an address asked for
  broken,    \* history: addresses an operation failed on, was cut short on or met
             \* another one on, those a file that could not be read lost, and
             \* those with a rule whose removal failed unreported
  leaked     \* history: references on pf that are enabled and on no record: left
             \* by a kill, taken without a token, or refused back

firewall == <<rules, anchor, refs, record, holder>>
counters == <<faults, crashes, requests>>
vars == <<os, process, rules, anchor, refs, record, holder, ledger, todo, timers,
          task, clock, faults, crashes, requests, until, broken, leaked>>

Directions == {"in", "out"}
Names == Addresses \X Spellings
Address(n) == n[1]

\* block_ip takes the canonical address, unblock_ip the address as written: a
\* mapped one is an IPv6 address nothing blocks.
Unblocks(n) == IF n[2] = "plain" THEN {n[1]} ELSE {}

NoBlock == 0      \* until: not blocked
Forever == -1     \* until: no deadline
NoToken == 0
Empty == [n \in Names |-> 0]
NoRecord == [blocked |-> {}, token |-> NoToken]

\* names: the address as the request wrote it, none for a start. at: deadline.
Idle == [kind |-> "none", names |-> {}, step |-> "idle", d |-> 0, at |-> 0,
         next |-> {}, token |-> NoToken, previous |-> NoRecord, entries |-> Empty]

Running == {t \in Slots : task[t] # Idle}
Busy == UNION {{Address(n) : n \in task[t].names} : t \in Running}
Quiet == process = "up" /\ Running = {}

\* No packet gets through, in either direction.
Enforced(a) ==
  IF os = "linux" THEN \A i \in Directions : rules[a][i] > 0
                  ELSE a \in anchor /\ refs # {}

Init ==
  /\ os \in Systems
  /\ process = "up"
  /\ rules = [a \in Addresses |-> [i \in Directions |-> 0]]
  /\ anchor = {} /\ refs = {} /\ record = NoRecord /\ holder = NoHolder
  /\ ledger = Empty /\ todo = {} /\ timers = {}
  /\ task = [t \in Slots |-> Idle]
  /\ clock = 0 /\ faults = 0 /\ crashes = 0 /\ requests = 0
  /\ until = [a \in Addresses |-> NoBlock]
  /\ broken = {} /\ leaked = {}

-----------------------------------------------------------------------------
(* The operations *)

\* The first step on the firewall.
Firewall(kind) ==
  IF os = "macos" THEN "lock" ELSE IF kind = "block" THEN "lift" ELSE "delete"

\* The bound on what comes from outside.
Room == requests + faults + crashes < MaxEvents

Begin(t, kind, n, d) ==
  /\ task[t] = Idle
  /\ task' = [task EXCEPT ![t] =
                [Idle EXCEPT !.kind = kind, !.names = {n}, !.d = d,
                             !.step = IF kind = "block" THEN Firewall(kind) ELSE "load"]]
  /\ broken' = IF Address(n) \in Busy THEN broken \union {Address(n)} ELSE broken

\* block_ip, unblock_ip: also while the agent starts.
Request(t, kind, n, d) ==
  /\ process # "down"
  /\ requests < MaxRequests /\ Room
  /\ requests = 0 => Address(n) \in FirstRequests
  /\ requests' = requests + 1
  /\ Begin(t, kind, n, d)
  /\ UNCHANGED <<os, leaked, process, firewall, ledger, todo, timers, clock,
                 faults, crashes, until>>

\* The task spawned by block_ip or at start: it does not look at the deadline.
TimerFires(t, n) ==
  /\ process # "down"
  /\ <<n, 0>> \in timers
  /\ timers' = timers \ {<<n, 0>>}
  /\ Begin(t, "timer", n, 0)
  /\ UNCHANGED <<os, leaked, process, firewall, ledger, todo, clock, counters,
                 until>>

At(t, step) == task[t].step = step

GoTo(t, step) == task' = [task EXCEPT ![t].step = step]

MayFail(step) == step \in Failing /\ faults < MaxFaults /\ Room /\ faults' = faults + 1

\* Which of its commands or reads fail in a step; none counts as no fault.
Fail(steps) == IF steps = {} THEN UNCHANGED faults ELSE \A s \in steps : MayFail(s)

Name(t) == CHOOSE n \in task[t].names : TRUE

\* What an operation has to do to the firewall is done: what is left is the
\* ledger for a block with a duration, nothing otherwise.
FirewallDone(t) ==
  LET a == Address(Name(t)) IN
  IF task[t].kind = "restore"
  THEN /\ task' = [task EXCEPT ![t] = Idle]
       /\ UNCHANGED until
  ELSE IF task[t].kind = "block"
  THEN LET end == clock + task[t].d IN
       IF task[t].d = 0
       THEN /\ until' = [until EXCEPT ![a] = Forever]
            /\ task' = [task EXCEPT ![t] = Idle]
       ELSE /\ until' = [until EXCEPT ![a] = end]
            /\ task' = [task EXCEPT ![t] = [Idle EXCEPT !.kind = "block", !.step = "load",
                                                        !.names = task[t].names,
                                                        !.d = task[t].d, !.at = end]]
  ELSE /\ until' = [b \in Addresses |-> IF b \in Unblocks(Name(t)) THEN NoBlock ELSE until[b]]
       /\ task' = [task EXCEPT ![t] = Idle]

\* The operation ends with an error.
FirewallFails(t, harmed) ==
  /\ task' = [task EXCEPT ![t] = Idle]
  /\ broken' = broken \union harmed

-----------------------------------------------------------------------------
(* The ledger: read whole, changed in memory, written whole *)

\* A file that cannot be read is an empty one.
ReadLedger(read) ==
  \/ read = ledger /\ UNCHANGED faults
  \/ read = Empty /\ ledger # Empty /\ MayFail("read")


\* What becomes of the entry of n: recorded or refreshed by a block, dropped by an
\* unblock.
Entry(t, n, read) == IF task[t].kind = "block" THEN task[t].at ELSE 0

Load(t) ==
  LET n == Name(t) IN
  /\ At(t, "load")
  /\ \E read \in {ledger, Empty} :
       /\ ReadLedger(read)
       /\ IF task[t].kind # "block" /\ read[n] = 0
          THEN GoTo(t, Firewall(task[t].kind))
          ELSE task' = [task EXCEPT ![t].step = "truncate",
                                    ![t].entries = [read EXCEPT ![n] = Entry(t, n, read)]]
  /\ UNCHANGED <<os, leaked, process, firewall, ledger, todo, timers, clock,
                 crashes, requests, until, broken>>

\* Entries this task did not read, or another one wrote since, are lost.
Overwritten(t) ==
  {Address(n) : n \in {m \in Names \ task[t].names : ledger[m] # task[t].entries[m]}}

\* The entry is on disk or could not be written (a warning). A timer starts.
LedgerDone(t) ==
  IF task[t].kind = "block"
  THEN /\ timers' = timers \union {<<Name(t), task[t].d>>}
       /\ task' = [task EXCEPT ![t] = Idle]
  ELSE /\ task' = [task EXCEPT ![t].step = Firewall(task[t].kind), ![t].entries = Empty]
       /\ UNCHANGED timers

\* tokio::fs::write opens the file, which empties it...
Truncate(t) ==
  /\ At(t, "truncate")
  /\ \/ /\ ledger' = Empty
        /\ GoTo(t, "write")
        /\ broken' = broken \union Overwritten(t)
        /\ UNCHANGED <<timers, faults>>
     \/ /\ MayFail("ledger")
        /\ ledger' \in {ledger, Empty}
        /\ LedgerDone(t)
        /\ broken' = broken \union {Address(n) : n \in {m \in Names : ledger[m] # 0}}
                            \union {Address(Name(t))}
  /\ UNCHANGED <<os, leaked, process, firewall, todo, clock, crashes, requests,
                 until>>

\* ... then writes.
Write(t) ==
  /\ At(t, "write")
  /\ ledger' = task[t].entries
  /\ broken' = broken \union (IF ledger = Empty THEN {} ELSE Overwritten(t))
  /\ LedgerDone(t)
  /\ UNCHANGED <<os, leaked, process, firewall, todo, clock, counters, until>>

-----------------------------------------------------------------------------
(* Linux: ip_block.rs *)

Less(n) == IF n > 0 THEN n - 1 ELSE 0

\* Removes one rule of a per direction; the command of the directions in kept
\* fails.
RemoveOne(a, kept) ==
  [rules EXCEPT ![a] = [i \in Directions |-> IF i \in kept THEN rules[a][i] ELSE Less(rules[a][i])]]

\* A rule stays although it was to go.
Stuck(a, kept) == {b \in {a} : \E i \in kept : rules[b][i] > 0}

FailToLift(kept) == IF kept = {} THEN {} ELSE {"lift"}

\* One rule per direction is lifted first, whether the address is blocked or
\* not. A command that fails, as it does without a rule, is not reported.
Lift(t) ==
  LET a == Address(Name(t)) IN
  /\ At(t, "lift")
  /\ \E kept \in SUBSET Directions :
       /\ Fail(FailToLift(kept))
       /\ rules' = RemoveOne(a, kept)
       /\ broken' = broken \union Stuck(a, kept)
  /\ GoTo(t, "in")
  /\ UNCHANGED <<os, leaked, process, anchor, refs, record, holder, ledger, todo,
                 timers, clock, crashes, requests, until>>

\* Mutant: what a failed block added stays.
AddFailedKeeps(t, kept) == UNCHANGED <<rules, broken>>

\* Half a block is undone, as far as the commands succeed.
AddFailed(t, kept) ==
  LET a == Address(Name(t)) IN
  /\ rules' = RemoveOne(a, kept)
  /\ broken' = broken \union Stuck(a, kept)

Add(t) ==
  LET a == Address(Name(t)) IN
  /\ task[t].step \in {"in", "out"}
  /\ \/ /\ rules' = [rules EXCEPT ![a][task[t].step] = @ + 1]
        /\ IF At(t, "in") THEN GoTo(t, "out") /\ UNCHANGED until ELSE FirewallDone(t)
        /\ UNCHANGED <<faults, broken>>
     \/ /\ \E kept \in SUBSET Directions :
             Fail({"add"} \union FailToLift(kept)) /\ AddFailed(t, kept)
        /\ until' = [until EXCEPT ![a] = NoBlock]
        /\ task' = [task EXCEPT ![t] = Idle]
  /\ UNCHANGED <<os, leaked, process, anchor, refs, record, holder, ledger, todo,
                 timers, clock, crashes, requests>>

\* Each command fails or not; one that succeeds is enough for the unblock to be
\* reported as done. The entry of the ledger is gone already.
Delete(t) ==
  LET a == Address(Name(t)) IN
  /\ At(t, "delete")
  /\ IF Unblocks(Name(t)) = {}
     THEN FirewallDone(t) /\ UNCHANGED <<rules, faults, broken>>
     ELSE \E kept \in SUBSET Directions :
            /\ Fail(FailToLift(kept))
            /\ rules' = RemoveOne(a, kept)
            /\ IF kept = Directions
               THEN FirewallFails(t, {a}) /\ UNCHANGED until
               ELSE FirewallDone(t) /\ broken' = broken \union Stuck(a, kept)
  /\ UNCHANGED <<os, leaked, process, anchor, refs, record, holder, ledger, todo,
                 timers, clock, crashes, requests>>

-----------------------------------------------------------------------------
(* macOS: pf_blocklist.rs *)

\* Mutant: changes are not serialized.
FreeUnlocked == TRUE

Free == holder = NoHolder

\* What an operation makes of a list.
NextList(t, blocked) ==
  IF task[t].kind = "restore" THEN blocked
  ELSE IF task[t].kind = "block" THEN blocked \union {Address(Name(t))}
  ELSE blocked \ Unblocks(Name(t))

\* A record that cannot be read is an empty one: what it holds is lost.
ReadRecord(current) ==
  \/ current = record /\ UNCHANGED <<faults, broken>>
  \/ /\ current = NoRecord /\ record # NoRecord /\ MayFail("read")
     /\ broken' = broken \union record.blocked

\* CHANGES is taken, the recorded list read and the next one worked out.
Lock(t) ==
  /\ At(t, "lock")
  /\ Free
  /\ \E current \in {record, NoRecord} :
       LET next == NextList(t, current.blocked)
           same == task[t].kind # "block" /\ next = current.blocked
       IN
       /\ ReadRecord(current)
       /\ IF same /\ (task[t].kind # "restore" \/ next = {})
          THEN FirewallDone(t) /\ UNCHANGED holder
          ELSE /\ holder' = t
               /\ task' = [task EXCEPT ![t].next = next, ![t].previous = current,
                                       ![t].step = IF next = {} THEN "anchor" ELSE "enable"]
               /\ UNCHANGED until
  /\ UNCHANGED <<os, leaked, process, rules, anchor, refs, record, ledger, todo,
                 timers, clock, crashes, requests>>

\* The addresses that a failed change leaves in doubt: its own, all those of the
\* list when a start could not load it.
Harmed(t) ==
  IF task[t].kind = "restore" THEN Addresses ELSE {Address(n) : n \in task[t].names}

\* A reference nobody has: not the recorded one either, which may be stale.
Unused == CHOOSE k \in 1 .. Cardinality(refs) + 2 : k \notin refs \union {record.token}

\* pf is enabled. Without a token in the answer the change goes on, and the
\* reference stays until the next reboot.
Enable(t) ==
  /\ At(t, "enable")
  /\ \/ /\ refs' = refs \union {Unused}
        /\ \/ /\ task' = [task EXCEPT ![t].token = Unused, ![t].step = "anchor"]
              /\ UNCHANGED <<faults, leaked>>
           \/ /\ MayFail("token")
              /\ GoTo(t, "anchor")
              /\ leaked' = leaked \union {Unused}
        /\ UNCHANGED <<holder, broken>>
     \/ /\ MayFail("enable")
        /\ holder' = NoHolder
        /\ FirewallFails(t, Harmed(t))
        /\ UNCHANGED <<refs, leaked>>
  /\ UNCHANGED <<os, process, rules, anchor, record, ledger, todo, timers, clock,
                 crashes, requests, until>>

\* load_anchor: the rules of the whole list. An anchor that could not be emptied
\* ends the operation, any other failure is undone.
LoadAnchor(t) ==
  /\ At(t, "anchor")
  /\ \/ /\ anchor' = task[t].next
        /\ GoTo(t, IF task[t].next = {} THEN "release" ELSE "save")
        /\ UNCHANGED <<holder, faults, broken>>
     \/ /\ MayFail("anchor")
        /\ IF task[t].next = {}
           THEN holder' = NoHolder /\ FirewallFails(t, Harmed(t))
           ELSE GoTo(t, "undo") /\ UNCHANGED <<holder, broken>>
        /\ UNCHANGED anchor
  /\ UNCHANGED <<os, leaked, process, rules, refs, record, ledger, todo, timers,
                 clock, crashes, requests, until>>

\* The record is replaced by a rename: a crash leaves the old one or the new one.
Save(t) ==
  /\ At(t, "save")
  /\ \/ /\ record' = [blocked |-> task[t].next, token |-> task[t].token]
        /\ GoTo(t, "release")
        /\ leaked' = leaked \union (refs \intersect ({record.token} \ {task[t].previous.token}))
        /\ UNCHANGED faults
     \/ /\ MayFail("save")
        /\ GoTo(t, "undo")
        /\ UNCHANGED <<record, leaked>>
  /\ UNCHANGED <<os, process, rules, anchor, refs, holder, ledger, todo,
                 timers, clock, crashes, requests, until, broken>>

\* Gives a reference back, if there is one: one that predates a reboot is
\* refused, and any refusal goes unreported.
GiveBack(token, refused) ==
  /\ refs' = IF refused THEN refs ELSE refs \ {token}
  /\ leaked' = IF refused THEN leaked \union (refs \intersect ({token} \ {record.token}))
                         ELSE leaked

\* The previous list is loaded back and the new reference given back, each as
\* far as pf lets it.
Undo(t) ==
  /\ At(t, "undo")
  /\ \E failed \in SUBSET {"anchor", "release"} :
       /\ Fail(failed)
       /\ anchor' = IF "anchor" \in failed THEN anchor ELSE task[t].previous.blocked
       /\ GiveBack(task[t].token, "release" \in failed)
  /\ holder' = NoHolder
  /\ FirewallFails(t, Harmed(t))
  /\ UNCHANGED <<os, process, rules, record, ledger, todo, timers, clock, crashes,
                 requests, until>>

\* Mutant: the reference just taken is given back.
GivenBackNew(t) == task[t].token

\* Mutant: no reference is given back.
GivenBackNone(t) == NoToken

GivenBack(t) == task[t].previous.token

\* The reference of the previous list is given back.
Release(t) ==
  /\ At(t, "release")
  /\ \E failed \in SUBSET {"release"} :
       Fail(failed) /\ GiveBack(GivenBack(t), failed # {})
  /\ IF task[t].next = {} THEN GoTo(t, "forget") /\ UNCHANGED <<holder, until>>
     ELSE holder' = NoHolder /\ FirewallDone(t)
  /\ UNCHANGED <<os, process, rules, anchor, record, ledger, todo, timers, clock,
                 crashes, requests, broken>>

\* Nothing is blocked any more: the record is deleted.
Forget(t) ==
  /\ At(t, "forget")
  /\ holder' = NoHolder
  /\ \/ /\ record' = NoRecord /\ leaked' = leaked \union (refs \intersect {record.token})
        /\ FirewallDone(t)
        /\ UNCHANGED <<faults, broken>>
     \/ /\ MayFail("save")
        /\ FirewallFails(t, Harmed(t))
        /\ UNCHANGED <<record, leaked, until>>
  /\ UNCHANGED <<os, process, rules, anchor, refs, ledger, todo, timers, clock,
                 crashes, requests>>

-----------------------------------------------------------------------------
(* The process and the clock *)

\* Addresses whose entry is in the hands of a task that emptied the file.
Unwritten ==
  UNION {{Address(n) : n \in {m \in Names : task[t].entries[m] # 0}} :
           t \in {u \in Slots : At(u, "write")}}

\* The process is killed, or the machine restarts and the rules are gone.
Crash(reboot) ==
  /\ process # "down"
  /\ crashes < MaxCrashes /\ Room
  /\ crashes' = crashes + 1
  /\ process' = "down"
  /\ task' = [t \in Slots |-> Idle]
  /\ holder' = NoHolder
  /\ timers' = {} /\ todo' = {}
  /\ broken' = IF reboot /\ os = "linux" THEN {} ELSE broken \union Busy \union Unwritten
  /\ leaked' = IF reboot THEN {} ELSE leaked \union (refs \ {record.token})
  /\ IF reboot
     THEN /\ rules' = [a \in Addresses |-> [i \in Directions |-> 0]]
          /\ anchor' = {} /\ refs' = {}
          /\ until' = IF os = "linux" THEN [a \in Addresses |-> NoBlock] ELSE until
     ELSE UNCHANGED <<rules, anchor, refs, until>>
  /\ UNCHANGED <<os, record, ledger, clock, faults, requests>>

\* reconcile_pending_blocks: the pf list first, then the ledger.
Start(t) ==
  /\ process = "down"
  /\ process' = "restoring"
  /\ task' = IF os = "linux" THEN task
             ELSE [task EXCEPT ![t] = [Idle EXCEPT !.kind = "restore", !.step = "lock"]]
  /\ UNCHANGED <<os, leaked, firewall, ledger, todo, timers, clock, counters,
                 until, broken>>

Restoring == \E t \in Slots : task[t].kind = "restore"

\* Seconds an entry has left, 0 when it expired.
Remaining(deadline) == IF deadline > clock THEN deadline - clock ELSE 0

\* The ledger is read, maybe while a request rewrites it.
StartLedger ==
  /\ process = "restoring" /\ ~Restoring
  /\ process' = "reconciling"
  /\ \E read \in {ledger, Empty} :
       /\ ReadLedger(read)
       /\ todo' = {<<n, Remaining(read[n])>> : n \in {m \in Names : read[m] # 0}}
       /\ broken' = broken \union {Address(m) : m \in {n \in Names : read[n] # ledger[n]}}
                           \union UNION {Overwritten(t) : t \in {u \in Slots : At(u, "write")}}
  /\ UNCHANGED <<os, leaked, firewall, ledger, timers, task, clock, crashes,
                 requests, until>>

Expiring == \E t \in Slots : task[t].kind = "expired"

\* Mutant: only the expired entries are dealt with.
RescheduleNot(e) == UNCHANGED timers

Reschedule(e) == timers' = timers \union {e}

\* One entry after the other: unblocked now, or rescheduled.
ReconcileEntry(t, e) ==
  /\ process = "reconciling" /\ ~Expiring
  /\ e \in todo
  /\ todo' = todo \ {e}
  /\ IF e[2] = 0 THEN Begin(t, "expired", e[1], 0) /\ UNCHANGED timers
     ELSE Reschedule(e) /\ UNCHANGED <<task, broken>>
  /\ UNCHANGED <<os, leaked, process, firewall, ledger, clock, counters, until>>

Started ==
  /\ process = "reconciling" /\ ~Expiring /\ todo = {}
  /\ process' = "up"
  /\ UNCHANGED <<os, leaked, firewall, ledger, todo, timers, task, clock,
                 counters, until, broken>>

\* A second passes. The clock stops at its bound, the timers do not.
Tick ==
  /\ clock' = IF clock < MaxClock THEN clock + 1 ELSE clock
  /\ timers' = {<<e[1], Less(e[2])>> : e \in timers}
  /\ <<clock, timers>>' # <<clock, timers>>
  /\ UNCHANGED <<os, leaked, process, firewall, ledger, todo, task, counters,
                 until, broken>>

-----------------------------------------------------------------------------
TaskStep(t) ==
  \/ Load(t) \/ Truncate(t) \/ Write(t)
  \/ Lift(t) \/ Add(t) \/ Delete(t)
  \/ Lock(t) \/ Enable(t) \/ LoadAnchor(t) \/ Save(t) \/ Undo(t) \/ Release(t)
  \/ Forget(t)

StartStep(t) == Start(t) \/ StartLedger \/ (\E e \in todo : ReconcileEntry(t, e)) \/ Started

Next ==
  \/ \E t \in Slots :
       \/ \E n \in Names, d \in Durations : Request(t, "block", n, d)
       \/ \E n \in Names : Request(t, "unblock", n, 0) \/ TimerFires(t, n)
       \/ TaskStep(t) \/ StartStep(t)
  \/ \E reboot \in BOOLEAN : Crash(reboot)
  \/ Tick

Spec == Init /\ [][Next]_vars

\* Operations run to their end, time passes, sleeping timers wake up, the service
\* manager starts the agent again. Nothing makes a user ask.
Fairness ==
  /\ WF_vars(Tick)
  /\ WF_vars(\E t \in Slots : StartStep(t))
  /\ \A t \in Slots : WF_vars(TaskStep(t))
  /\ \A n \in Names : WF_vars(\E t \in Slots : TimerFires(t, n))

FairSpec == Spec /\ Fairness

-----------------------------------------------------------------------------
(* Properties *)

Kinds == {"none", "block", "unblock", "timer", "expired", "restore"}
Steps == {"idle", "load", "truncate", "write", "lift", "in", "out", "delete",
          "lock", "enable", "anchor", "save", "undo", "release", "forget"}
Records == [blocked : SUBSET Addresses, token : Nat]
Tasks ==
  [kind : Kinds, names : SUBSET Names, step : Steps, d : Nat, at : Nat,
   next : SUBSET Addresses, token : Nat, previous : Records, entries : [Names -> Nat]]

FirewallType ==
  /\ rules \in [Addresses -> [Directions -> Nat]]
  /\ anchor \subseteq Addresses /\ refs \subseteq Nat
  /\ record \in Records
  /\ holder \in Slots \union {NoHolder}

LedgerType ==
  /\ ledger \in [Names -> Nat]
  /\ todo \subseteq Names \X Nat /\ timers \subseteq Names \X Nat

CountersType ==
  /\ clock \in 0 .. MaxClock /\ faults \in 0 .. MaxFaults
  /\ crashes \in 0 .. MaxCrashes /\ requests \in 0 .. MaxRequests

HistoryType ==
  /\ until \in [Addresses -> Nat \union {Forever}]
  /\ broken \subseteq Addresses /\ leaked \subseteq Nat

\* Type invariant.
TypeOK ==
  /\ os \in Systems /\ process \in {"down", "restoring", "reconciling", "up"}
  /\ task \in [Slots -> Tasks]
  /\ FirewallType /\ LedgerType /\ CountersType /\ HistoryType

\* Between operations the firewall drops exactly the addresses whose last
\* operation was a block, in both directions, restarts included (ip_block.rs:
\* "in both directions, or not at all"). An address is in doubt only when an
\* operation on it failed, was cut short or met another one, when its entry or
\* its place in the list was lost with a file that could not be read or written,
\* and when a rule of it stayed because iptables refused to remove it: lift
\* swallows that, and the block or the unblock is still reported as done.
BlockedAsAsked ==
  Quiet => \A a \in Addresses \ broken : Enforced(a) <=> until[a] # NoBlock

\* One rule per direction and no half of a block is left between operations
\* ("Half a block looks applied and is not", "stacked rules would outlive the
\* single unblock that follows": ip_block.rs, block). Both do happen to an
\* address one of whose rules iptables refused to remove, without any operation
\* that fails: it is broken from then on.
NoHalfBlock ==
  Quiet => \A a \in Addresses \ broken :
             rules[a]["in"] = rules[a]["out"] /\ rules[a]["in"] <= 1

\* While no change is under way and none failed, pf has the recorded addresses
\* and is enabled when there are any: by the recorded reference, and by no other
\* but those left by a kill, those pf gave no token for and those it refused to
\* take back (pf_blocklist.rs, apply and release; "pf stays enabled until the
\* next reboot").
PfMatchesRecord ==
  (os = "macos" /\ process = "up" /\ holder = NoHolder /\ broken = {})
    => /\ anchor = record.blocked
       /\ anchor # {} => refs # {}
       /\ refs \ leaked = IF record.token = NoToken THEN {} ELSE {record.token}


\* A block with a duration ends, whatever was killed or restarted meanwhile
\* (record_pending_block, reconcile_pending_blocks).
TimedBlockEnds ==
  \A a \in Addresses, u \in 1 .. MaxClock :
    (until[a] = u) ~> (~Enforced(a) \/ until[a] # u \/ a \in broken)

\* A timer ends the block it was started for: a later block of the same address,
\* longer or without end, stays ("If `duration_secs` is greater than 0, the IP
\* will be automatically unblocked after the specified duration"). A deadline
\* past the bound of the clock is not compared.
LiftedNotBeforeItsEnd ==
  [][\A t \in Slots :
       task[t].kind = "timer" /\ task'[t] = Idle =>
         \A n \in task[t].names :
           until[n[1]] # Forever /\ (until[n[1]] > MaxClock \/ until[n[1]] <= clock)]_vars

\* An operation changes whether its own address gets through, and no other:
\* although the anchor is rewritten as a whole, the other addresses stay in
\* force throughout (pf_blocklist.rs).
List == INSTANCE Blocklist WITH enforced <- {a \in Addresses : Enforced(a)},
                                busy <- Busy,
                                restarting <- process = "down" \/ Restoring

OneAddressAtATime == List!Spec

-----------------------------------------------------------------------------
(* Inductive invariant: why the properties hold *)

Own(t) == {Address(n) : n \in task[t].names}

\* Steps of a change to the anchor.
Changing == {"enable", "anchor", "save", "undo", "release", "forget"}

StepsOf(kind) ==
  CASE kind = "none" -> {"idle"}
    [] kind = "restore" -> {"lock"} \union (Changing \ {"forget"})
    [] kind = "block" -> {"load", "truncate", "write"} \union
         (IF os = "macos" THEN {"lock"} \union (Changing \ {"forget"})
                          ELSE {"lift", "in", "out"})
    [] OTHER -> {"load", "truncate", "write"} \union
         (IF os = "macos" THEN {"lock"} \union Changing ELSE {"delete"})

\* An operation works on one address, a start on none.
TaskInv ==
  /\ \A t \in Slots :
       /\ task[t].step \in StepsOf(task[t].kind)
       /\ task[t].kind = "none" => task[t] = Idle
       /\ task[t].kind = "restore" => os = "macos" /\ process = "restoring" /\ task[t].names = {}
       /\ task[t].kind \notin {"none", "restore"} =>
            /\ process # "down"
            /\ \E n \in Names : task[t].names = {n}
       /\ task[t].step \notin Changing => task[t].token = NoToken
  /\ \A t, u \in Slots : task[t].kind = "restore" /\ task[u].kind = "restore" => t = u

\* Two operations meet on broken addresses only.
ApartInv ==
  \A t, u \in Slots : Own(t) \intersect Own(u) \subseteq broken \/ t = u

\* Linux: an address has one rule per direction while it is blocked, and less
\* only between the two steps that add them.
RuleInv(a) ==
  \/ /\ rules[a]["in"] = rules[a]["out"] /\ rules[a]["in"] \in {0, 1}
     /\ until[a] # NoBlock <=> rules[a]["in"] = 1
     /\ \A t \in Slots : a \in Own(t) => task[t].step \notin {"in", "out"}
  \/ \E t \in Slots :
       /\ a \in Own(t) /\ rules[a]["out"] = 0
       /\ \/ At(t, "in") /\ rules[a]["in"] = 0
          \/ At(t, "out") /\ rules[a]["in"] = 1

RulesInv ==
  /\ os = "macos" => \A a \in Addresses, i \in Directions : rules[a][i] = 0
  /\ os = "linux" => \A a \in Addresses \ broken : RuleInv(a)

\* The next list is on record and the previous reference not yet given back.
Saved(t) == At(t, "release") /\ task[t].next # {}

\* What a change read is the record, or nothing: what it did not read is broken.
ReadInv(t) ==
  \/ task[t].previous = record
  \/ task[t].previous = NoRecord /\ record.blocked \subseteq broken

\* A change under way: what it read, what it has done to the anchor and to the
\* references so far.
ChangeInv(t) ==
  /\ task[t].step \in {"enable", "save", "undo"} => task[t].next # {}
  /\ task[t].kind \in {"block", "restore"} => task[t].next # {}
  /\ At(t, "forget") => task[t].next = {}
  /\ task[t].kind \notin {"block", "restore"} => Own(t) \subseteq Unblocks(Name(t))
  /\ IF Saved(t)
     THEN /\ record = [blocked |-> task[t].next, token |-> task[t].token]
          /\ task[t].previous.token \notin leaked
          /\ task[t].kind = "block" => Own(t) \subseteq record.blocked
          /\ task[t].kind \notin {"block", "restore"} => Own(t) \intersect record.blocked = {}
     ELSE /\ ReadInv(t)
          /\ task[t].next = NextList(t, task[t].previous.blocked)
          /\ task[t].next = {} => task[t].previous = record
  /\ task[t].step \in {"save", "release", "forget"} => anchor = task[t].next
  /\ task[t].step = "enable" => task[t].token = NoToken
  /\ task[t].step \in {"anchor", "save", "undo", "release"} /\ task[t].next # {} =>
       IF task[t].token = NoToken THEN leaked # {}
       ELSE /\ task[t].token \in refs \ leaked
            /\ task[t].token # task[t].previous.token
            /\ ~Saved(t) => task[t].token # record.token

LockInv ==
  \A t \in Slots :
    /\ task[t].step \in Changing <=> holder = t
    /\ holder = t => ChangeInv(t)

HoldersOwn == UNION {Own(t) : t \in {u \in Slots : holder = u}}

\* The recorded list has been loaded since the last start.
Restored == process # "down" /\ ~Restoring

\* macOS: outside the change under way, the record is what was asked for, the
\* anchor holds no more and, once restored, no less, and pf is enabled.
ListInv ==
  os = "macos" =>
    /\ \A a \in Addresses \ broken :
         \/ until[a] # NoBlock <=> a \in record.blocked
         \/ \E t \in Slots : holder = t /\ Saved(t) /\ a \in Own(t)
    /\ anchor \ broken \subseteq record.blocked \union HoldersOwn
    /\ Restored =>
         /\ record.blocked \ broken \subseteq anchor \union HoldersOwn
         /\ \/ record.blocked \subseteq broken \/ record.token \in refs
            \/ record.token = NoToken /\ leaked # {}
            \/ \E t \in Slots : holder = t /\ At(t, "forget")

\* A change that has taken a reference, and may have to give one back.
Enabling(t) == holder = t /\ ~At(t, "enable") /\ task[t].next # {}

Tokens == UNION {{task[t].token, task[t].previous.token} : t \in {u \in Slots : Enabling(u)}}

\* The references: the recorded one, those of the change under way, and those
\* no record holds.
RefsInv ==
  /\ IsFiniteSet(refs) /\ NoToken \notin refs
  /\ leaked \subseteq refs \ {record.token}
  /\ record.blocked = {} => record = NoRecord
  /\ broken = {} => refs \ leaked \subseteq {record.token} \union Tokens

BlockInv == TypeOK /\ TaskInv /\ ApartInv /\ RulesInv /\ LockInv /\ ListInv /\ RefsInv
=============================================================================
