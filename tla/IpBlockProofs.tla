--------------------------- MODULE IpBlockProofs ---------------------------
(***************************************************************************)
(* Theorems about IpBlock, for any addresses, any number of operations at  *)
(* the same time, of requests, failed commands, kills and reboots, on      *)
(* Linux and on macOS.                                                     *)
(***************************************************************************)
EXTENDS IpBlock, FiniteSetTheorems, TLAPS

USE IpBlockAssumption DEF NoToken, NoBlock, Forever

-----------------------------------------------------------------------------
(* Operators *)

LEMMA NameOf ==
  ASSUME NEW t \in Slots, NEW n \in Names, task[t].names = {n}
  PROVE  /\ Name(t) = n /\ Own(t) = {Address(n)}
         /\ Address(n) \in Addresses /\ Unblocks(n) \subseteq {Address(n)}
  BY DEF Name, Own, Address, Unblocks, Names

LEMMA IdleTask ==
  /\ Idle \in Tasks /\ Idle.kind = "none" /\ Idle.step = "idle" /\ Idle.names = {}
  /\ Idle.token = NoToken
  /\ Empty \in [Names -> Nat]
<1>1. Empty \in [Names -> Nat] /\ NoRecord \in Records
  BY DEF Empty, Records, NoRecord
<1> QED
  BY <1>1 DEF Idle, Tasks, Kinds, Steps

\* Among more numbers than there are references, one is not taken (pfctl -E).
LEMMA UnusedIsFree ==
  ASSUME IsFiniteSet(refs), refs \subseteq Nat
  PROVE  Unused \in Nat \ {NoToken} /\ Unused \notin refs /\ Unused # record.token
<1> DEFINE N == Cardinality(refs) + 2
           R == refs \union {record.token}
<1>1. Cardinality(refs) \in Nat /\ N \in Nat
  BY FS_CardinalityType
<1>2. IsFiniteSet(R) /\ Cardinality(R) \in Nat /\ Cardinality(R) < N
  <2>1. /\ IsFiniteSet(R)
        /\ Cardinality(R) = Cardinality(refs) \/ Cardinality(R) = Cardinality(refs) + 1
    BY FS_AddElement
  <2> QED
    BY <1>1, <2>1
<1>3. IsFiniteSet(1 .. N) /\ Cardinality(1 .. N) = N
  BY <1>1, FS_Interval
<1>4. ~(1 .. N \subseteq R)
  BY <1>1, <1>2, <1>3, FS_Subset
<1>5. PICK k \in 1 .. N : k \notin R
  BY <1>4
<1>6. Unused \in 1 .. N /\ Unused \notin R
  BY <1>5 DEF Unused
<1> QED
  BY <1>1, <1>6

-----------------------------------------------------------------------------
(* The operations under way *)

\* What the step of an operation says of it.
LEMMA StepTells ==
  ASSUME TaskInv, NEW t \in Slots
  PROVE  /\ task[t].step \in Changing \union {"lock"} =>
              os = "macos" /\ task[t].kind # "none"
         /\ task[t].step \in {"lift", "in", "out"} => os # "macos" /\ task[t].kind = "block"
         /\ task[t].step = "delete" =>
              os # "macos" /\ task[t].kind \notin {"none", "restore", "block"}
         /\ task[t].step \in {"load", "truncate", "write"} => task[t].kind \notin {"none", "restore"}
         /\ task[t].step = "forget" => task[t].kind \notin {"none", "restore", "block"}
         /\ task[t].step # "idle" => task[t].kind # "none"
  BY DEF TaskInv, StepsOf, Changing

LEMMA NamesOne ==
  ASSUME TaskInv, NEW t \in Slots, task[t].kind \notin {"none", "restore"}
  PROVE  /\ Name(t) \in Names /\ task[t].names = {Name(t)} /\ Own(t) = {Address(Name(t))}
         /\ Address(Name(t)) \in Addresses /\ Unblocks(Name(t)) \subseteq {Address(Name(t))}
         /\ process # "down"
<1>1. PICK n \in Names : task[t].names = {n}
  BY DEF TaskInv
<1> QED
  BY <1>1, NameOf DEF TaskInv

\* Tasks with other values in some of their fields.
LEMMA TaskFields ==
  ASSUME NEW r \in Tasks
  PROVE  /\ r.kind \in Kinds /\ r.names \subseteq Names /\ r.step \in Steps /\ r.d \in Nat
         /\ r.at \in Nat /\ r.next \subseteq Addresses /\ r.token \in Nat
         /\ r.previous \in Records /\ r.entries \in [Names -> Nat]
         /\ \A s \in Steps : [r EXCEPT !.step = s] \in Tasks
         /\ \A s \in Steps, x \in Nat : [r EXCEPT !.token = x, !.step = s] \in Tasks
         /\ \A s \in Steps, e \in [Names -> Nat] : [r EXCEPT !.step = s, !.entries = e] \in Tasks
         /\ \A s \in Steps, b \in SUBSET Addresses, p \in Records :
              [r EXCEPT !.next = b, !.previous = p, !.step = s] \in Tasks
  BY DEF Tasks

\* Commands that fail are counted, as far as the bound allows them.
LEMMA FaultsCounted ==
  ASSUME TypeOK
  PROVE  /\ \A s : MayFail(s) => faults' \in 0 .. MaxFaults
         /\ \A steps : Fail(steps) => faults' \in 0 .. MaxFaults
         /\ \A read : ReadLedger(read) => read \in [Names -> Nat] /\ faults' \in 0 .. MaxFaults
         /\ \A current : ReadRecord(current) =>
              /\ current \in Records /\ faults' \in 0 .. MaxFaults
              /\ broken' \subseteq Addresses /\ broken \subseteq broken'
<1>1. /\ faults \in 0 .. MaxFaults /\ ledger \in [Names -> Nat] /\ record \in Records
      /\ broken \subseteq Addresses
  BY DEF TypeOK, CountersType, LedgerType, FirewallType, HistoryType
<1>2. \A s : MayFail(s) => faults' \in 0 .. MaxFaults
  BY <1>1 DEF MayFail
<1>3. ASSUME NEW steps, Fail(steps) PROVE faults' \in 0 .. MaxFaults
  BY <1>1, <1>2, <1>3 DEF Fail
<1>4. Empty \in [Names -> Nat] /\ NoRecord \in Records
  BY DEF Empty, Records, NoRecord
<1>5. ASSUME NEW read, ReadLedger(read)
      PROVE  read \in [Names -> Nat] /\ faults' \in 0 .. MaxFaults
  BY <1>1, <1>2, <1>4, <1>5 DEF ReadLedger
<1>6. ASSUME NEW current, ReadRecord(current)
      PROVE  /\ current \in Records /\ faults' \in 0 .. MaxFaults
             /\ broken' \subseteq Addresses /\ broken \subseteq broken'
  <2>1. record.blocked \subseteq Addresses
    BY <1>1 DEF Records
  <2> QED
    BY <1>1, <1>2, <1>4, <1>6, <2>1 DEF ReadRecord
<1> QED
  BY <1>2, <1>3, <1>5, <1>6

LEMMA BeginType ==
  ASSUME TypeOK, NEW t \in Slots, NEW kind \in {"block", "unblock", "timer", "expired"},
         NEW n \in Names, NEW d \in Nat, Begin(t, kind, n, d)
  PROVE  /\ task' \in [Slots -> Tasks] /\ broken' \subseteq Addresses
         /\ task[t] = Idle /\ \A u \in Slots : u # t => task'[u] = task[u]
         /\ task'[t].kind = kind /\ task'[t].names = {n} /\ task'[t].token = NoToken
         /\ task'[t].step \in {"load", "lift", "lock"}
         /\ task'[t].step = "lock" => kind = "block" /\ os = "macos"
         /\ task'[t].step = "lift" => kind = "block" /\ os # "macos"
         /\ broken \subseteq broken' /\ (Address(n) \in Busy => Address(n) \in broken')
<1>1. Address(n) \in Addresses /\ broken \subseteq Addresses
  BY DEF Names, Address, TypeOK, HistoryType
<1> DEFINE s == IF kind = "block" THEN Firewall(kind) ELSE "load"
           r == [Idle EXCEPT !.kind = kind, !.names = {n}, !.d = d, !.step = s]
<1>2. s \in {"load", "lift", "lock"}
      /\ (s = "lock" => kind = "block" /\ os = "macos")
      /\ (s = "lift" => kind = "block" /\ os # "macos")
  BY DEF Firewall
<1>3. r \in Tasks /\ r.kind = kind /\ r.names = {n} /\ r.step = s /\ r.token = NoToken
  BY <1>2, IdleTask DEF Tasks, Kinds, Steps
<1>4. task' = [task EXCEPT ![t] = r] /\ task[t] = Idle
  BY DEF Begin
<1>5. task' \in [Slots -> Tasks] /\ task'[t] = r /\ \A u \in Slots : u # t => task'[u] = task[u]
  <2> HIDE DEF r
  <2> QED
    BY <1>3, <1>4 DEF TypeOK
<1>6. broken' \subseteq Addresses /\ broken \subseteq broken' /\ (Address(n) \in Busy => Address(n) \in broken')
  BY <1>1 DEF Begin
<1> QED
  BY <1>2, <1>3, <1>4, <1>5, <1>6

\* What FirewallDone makes of an operation.
LEMMA FirewallDoneType ==
  ASSUME TypeOK, TaskInv, NEW t \in Slots, task[t].kind # "none", FirewallDone(t)
  PROVE  /\ task' \in [Slots -> Tasks] /\ until' \in [Addresses -> Nat \union {Forever}]
         /\ \A u \in Slots : u # t => task'[u] = task[u]
         /\ \/ task'[t] = Idle
            \/ /\ task[t].kind = "block" /\ task'[t].step = "load"
               /\ task'[t].kind = "block" /\ task'[t].names = task[t].names
               /\ task'[t].token = NoToken
         /\ task[t].kind = "restore" => until' = until
         /\ task[t].kind = "block" =>
              \A a \in Addresses : IF a \in Own(t) THEN until'[a] # NoBlock ELSE until'[a] = until[a]
         /\ task[t].kind \notin {"restore", "block"} =>
              \A a \in Addresses : IF a \in Unblocks(Name(t)) THEN until'[a] = NoBlock
                                                              ELSE until'[a] = until[a]
<1>1. task[t] \in Tasks /\ task \in [Slots -> Tasks] /\ clock \in Nat
      /\ until \in [Addresses -> Nat \union {Forever}]
  BY DEF TypeOK, CountersType, HistoryType
<1>2. CASE task[t].kind = "restore"
  BY <1>1, <1>2, IdleTask DEF FirewallDone
<1>3. CASE task[t].kind = "block"
  <2>4. task[t].d \in Nat
    BY <1>1 DEF Tasks
  <2>1. task[t].d \in Nat /\ clock + task[t].d \in Nat /\ Address(Name(t)) \in Addresses
        /\ Own(t) = {Address(Name(t))}
    BY <1>1, <1>3, <2>4, NamesOne
  <2>2. CASE task[t].d = 0
    BY <1>1, <1>3, <2>1, <2>2, IdleTask DEF FirewallDone
  <2>3. CASE task[t].d # 0
    <3> DEFINE r == [Idle EXCEPT !.kind = "block", !.step = "load", !.names = task[t].names,
                                 !.d = task[t].d, !.at = clock + task[t].d]
    <3>1. /\ r \in Tasks /\ r.step = "load" /\ r.kind = "block" /\ r.names = task[t].names
          /\ r.token = NoToken
      BY <1>1, <2>1, IdleTask DEF Tasks, Kinds, Steps
    <3>2. task' = [task EXCEPT ![t] = r]
      BY <1>1, <1>3, <2>3 DEF FirewallDone
    <3>3. until' = [until EXCEPT ![Address(Name(t))] = clock + task[t].d]
      BY <1>3, <2>3 DEF FirewallDone
    <3>4. clock + task[t].d # NoBlock
      BY <1>1, <2>1, <2>3
    <3> HIDE DEF r
    <3> QED
      BY <1>1, <1>3, <2>1, <3>1, <3>2, <3>3, <3>4
  <2> QED
    BY <2>2, <2>3
<1>4. CASE task[t].kind \notin {"restore", "block"}
  BY <1>1, <1>4, IdleTask DEF FirewallDone
<1> QED
  BY <1>2, <1>3, <1>4

\* Only the operation that steps changes.
LEMMA StepTo ==
  ASSUME TypeOK, NEW t \in Slots, NEW r \in Tasks, task' = [task EXCEPT ![t] = r]
  PROVE  /\ task' \in [Slots -> Tasks] /\ task'[t] = r
         /\ \A u \in Slots : u # t => task'[u] = task[u]
  BY DEF TypeOK

-----------------------------------------------------------------------------
(* Types *)

LEMMA TypeInit == Init => TypeOK
<1> SUFFICES ASSUME Init PROVE TypeOK
  OBVIOUS
<1>1. task \in [Slots -> Tasks] /\ ledger \in [Names -> Nat]
  BY IdleTask DEF Init
<1>2. FirewallType
  <2>1. NoRecord \in Records
    BY DEF NoRecord, Records
  <2> QED
    BY <2>1 DEF Init, FirewallType
<1> QED
  BY <1>1, <1>2 DEF Init, TypeOK, LedgerType, CountersType, HistoryType

LEMMA LedgerDoneType ==
  ASSUME TypeOK, TaskInv, NEW t \in Slots, task[t].kind \notin {"none", "restore"}, LedgerDone(t)
  PROVE  /\ task' \in [Slots -> Tasks] /\ timers' \subseteq Names \X Nat
         /\ \A u \in Slots : u # t => task'[u] = task[u]
         /\ \/ task'[t] = Idle
            \/ /\ task[t].kind # "block"
               /\ task'[t] = [task[t] EXCEPT !.step = Firewall(task[t].kind), !.entries = Empty]
<1>1. task[t] \in Tasks /\ task[t].d \in Nat
  BY DEF TypeOK, Tasks
<1>2. Name(t) \in Names
  BY NamesOne
<1> DEFINE r == [task[t] EXCEPT !.step = Firewall(task[t].kind), !.entries = Empty]
<1>3. Firewall(task[t].kind) \in Steps
  BY DEF Firewall, Steps
<1>4. r \in Tasks
  BY <1>1, <1>3, TaskFields, IdleTask
<1>5. CASE task[t].kind = "block"
  BY <1>1, <1>2, <1>5, IdleTask DEF LedgerDone, TypeOK, LedgerType
<1>6. CASE task[t].kind # "block"
  <2>1. task' = [task EXCEPT ![t] = r] /\ timers' = timers
    BY <1>6 DEF LedgerDone, TypeOK
  <2> HIDE DEF r
  <2>2. task' \in [Slots -> Tasks] /\ task'[t] = r /\ \A u \in Slots : u # t => task'[u] = task[u]
    BY <1>4, <2>1, StepTo
  <2> QED
    BY <1>6, <2>1, <2>2 DEF r, TypeOK, LedgerType
<1> QED
  BY <1>5, <1>6

\* What the removal of a rule per direction leaves.
LEMMA RemovedType ==
  ASSUME TypeOK, NEW a \in Addresses, NEW kept
  PROVE  /\ RemoveOne(a, kept) \in [Addresses -> [Directions -> Nat]]
         /\ broken \union Stuck(a, kept) \subseteq Addresses
         /\ \A b \in Addresses : b # a => RemoveOne(a, kept)[b] = rules[b]
         /\ \A i \in Directions :
              RemoveOne(a, kept)[a][i] = IF i \in kept THEN rules[a][i] ELSE Less(rules[a][i])
         /\ a \notin Stuck(a, kept) => \A i \in kept \intersect Directions : rules[a][i] = 0
<1>1. rules \in [Addresses -> [Directions -> Nat]] /\ broken \subseteq Addresses
  BY DEF TypeOK, FirewallType, HistoryType
<1>2. \A i \in Directions : rules[a][i] \in Nat /\ Less(rules[a][i]) \in Nat
  BY <1>1 DEF Less
<1>3. /\ RemoveOne(a, kept) \in [Addresses -> [Directions -> Nat]]
      /\ \A b \in Addresses : b # a => RemoveOne(a, kept)[b] = rules[b]
      /\ \A i \in Directions :
           RemoveOne(a, kept)[a][i] = IF i \in kept THEN rules[a][i] ELSE Less(rules[a][i])
  BY <1>1, <1>2 DEF RemoveOne
<1>4. broken \union Stuck(a, kept) \subseteq Addresses
  BY <1>1 DEF Stuck
<1>5. a \notin Stuck(a, kept) => \A i \in kept \intersect Directions : rules[a][i] = 0
  BY <1>2 DEF Stuck
<1> QED
  BY <1>3, <1>4, <1>5

LEMMA TypeStep ==
  ASSUME TypeOK, TaskInv, RefsInv, [Next]_vars
  PROVE  TypeOK'
<1> USE DEF firewall, counters
<1>1. ASSUME NEW t \in Slots, NEW n \in Names, NEW d \in Durations, Request(t, "block", n, d)
      PROVE  TypeOK'
  <2>1. task' \in [Slots -> Tasks] /\ broken' \subseteq Addresses
    BY <1>1, BeginType DEF Request
  <2> QED
    BY <1>1, <2>1 DEF Request, TypeOK, FirewallType, LedgerType, CountersType, HistoryType
<1>2. ASSUME NEW t \in Slots, NEW n \in Names, Request(t, "unblock", n, 0) PROVE TypeOK'
  <2>1. task' \in [Slots -> Tasks] /\ broken' \subseteq Addresses
    BY <1>2, BeginType DEF Request
  <2> QED
    BY <1>2, <2>1 DEF Request, TypeOK, FirewallType, LedgerType, CountersType, HistoryType
<1>3. ASSUME NEW t \in Slots, NEW n \in Names, TimerFires(t, n) PROVE TypeOK'
  <2>1. task' \in [Slots -> Tasks] /\ broken' \subseteq Addresses
    BY <1>3, BeginType DEF TimerFires
  <2> QED
    BY <1>3, <2>1 DEF TimerFires, TypeOK, FirewallType, LedgerType, CountersType, HistoryType
<1>4. ASSUME NEW t \in Slots, Load(t) PROVE TypeOK'
  <2>1. task[t] \in Tasks /\ task[t].at \in Nat
    BY DEF TypeOK, Tasks
  <2>2. PICK read \in {ledger, Empty} :
          /\ ReadLedger(read)
          /\ \/ GoTo(t, Firewall(task[t].kind))
             \/ task' = [task EXCEPT ![t].step = "truncate",
                                     ![t].entries = [read EXCEPT ![Name(t)] = Entry(t, Name(t), read)]]
    BY <1>4 DEF Load
  <2>3. read \in [Names -> Nat] /\ faults' \in 0 .. MaxFaults
    BY <2>2, FaultsCounted
  <2> DEFINE e == [read EXCEPT ![Name(t)] = Entry(t, Name(t), read)]
  <2>4. e \in [Names -> Nat] /\ Firewall(task[t].kind) \in Steps /\ "truncate" \in Steps
    BY <2>1, <2>3 DEF Entry, Firewall, Steps
  <2>5. \E r \in Tasks : task' = [task EXCEPT ![t] = r]
    <3>1. CASE GoTo(t, Firewall(task[t].kind))
      <4>1. [task[t] EXCEPT !.step = Firewall(task[t].kind)] \in Tasks
        BY <2>1, <2>4, TaskFields
      <4> QED
        BY <3>1, <4>1 DEF GoTo, TypeOK
    <3>2. CASE task' = [task EXCEPT ![t].step = "truncate", ![t].entries = e]
      <4>1. [task[t] EXCEPT !.step = "truncate", !.entries = e] \in Tasks
        BY <2>1, <2>4, TaskFields
      <4> HIDE DEF e
      <4> QED
        BY <3>2, <4>1 DEF TypeOK
    <3> QED
      BY <2>2, <3>1, <3>2
  <2>7. task' \in [Slots -> Tasks]
    BY <2>5, StepTo
  <2> QED
    BY <1>4, <2>3, <2>7 DEF Load, TypeOK, FirewallType, LedgerType, CountersType, HistoryType
<1>5. ASSUME NEW t \in Slots, Truncate(t) PROVE TypeOK'
  <2>1. task[t].kind \notin {"none", "restore"}
    BY <1>5, StepTells DEF Truncate, At
  <2>2. task[t] \in Tasks /\ [task[t] EXCEPT !.step = "write"] \in Tasks
    BY TaskFields DEF TypeOK, Steps
  <2>3. task' \in [Slots -> Tasks] /\ timers' \subseteq Names \X Nat
    BY <1>5, <2>1, <2>2, LedgerDoneType DEF Truncate, GoTo, TypeOK, LedgerType
  <2>4. ledger' \in [Names -> Nat] /\ broken' \subseteq Addresses
    <3>1. \A n \in Names : Address(n) \in Addresses
      BY DEF Names, Address
    <3>2. Name(t) \in Names
      BY <2>1, NamesOne
    <3> QED
      BY <1>5, <3>1, <3>2, IdleTask DEF Truncate, TypeOK, LedgerType, HistoryType, Overwritten
  <2>5. faults' \in 0 .. MaxFaults
    BY <1>5 DEF Truncate, MayFail, TypeOK, CountersType
  <2> QED
    BY <1>5, <2>3, <2>4, <2>5 DEF Truncate, TypeOK, FirewallType, LedgerType, CountersType, HistoryType
<1>6. ASSUME NEW t \in Slots, Write(t) PROVE TypeOK'
  <2>1. task[t].kind \notin {"none", "restore"} /\ task[t].entries \in [Names -> Nat]
    BY <1>6, StepTells DEF Write, At, TypeOK, Tasks
  <2>2. task' \in [Slots -> Tasks] /\ timers' \subseteq Names \X Nat
    BY <1>6, <2>1, LedgerDoneType DEF Write
  <2>3. broken' \subseteq Addresses
    <3>1. \A n \in Names : Address(n) \in Addresses
      BY DEF Names, Address
    <3> QED
      BY <1>6, <3>1 DEF Write, TypeOK, HistoryType, Overwritten
  <2> QED
    BY <1>6, <2>1, <2>2, <2>3 DEF Write, TypeOK, FirewallType, LedgerType, CountersType, HistoryType
<1>7. ASSUME NEW t \in Slots, Lift(t) PROVE TypeOK'
  <2>1. [task[t] EXCEPT !.step = "in"] \in Tasks
    BY TaskFields DEF TypeOK, Steps
  <2>2. task' \in [Slots -> Tasks]
    BY <1>7, <2>1 DEF Lift, GoTo, TypeOK
  <2>3. Address(Name(t)) \in Addresses
    BY <1>7, StepTells, NamesOne DEF Lift, At
  <2>4. PICK kept \in SUBSET Directions :
          /\ Fail(FailToLift(kept)) /\ rules' = RemoveOne(Address(Name(t)), kept)
          /\ broken' = broken \union Stuck(Address(Name(t)), kept)
    BY <1>7 DEF Lift
  <2>5. rules' \in [Addresses -> [Directions -> Nat]] /\ broken' \subseteq Addresses
    BY <2>3, <2>4, RemovedType
  <2>6. faults' \in 0 .. MaxFaults
    BY <2>4, FaultsCounted
  <2> QED
    BY <1>7, <2>2, <2>5, <2>6 DEF Lift, TypeOK, FirewallType, LedgerType, CountersType, HistoryType
<1>8. ASSUME NEW t \in Slots, Add(t) PROVE TypeOK'
  <2>1. task[t].kind = "block" /\ Address(Name(t)) \in Addresses
    BY <1>8, StepTells, NamesOne DEF Add
  <2>2. [task[t] EXCEPT !.step = "out"] \in Tasks
    BY TaskFields DEF TypeOK, Steps
  <2>3. task' \in [Slots -> Tasks] /\ until' \in [Addresses -> Nat \union {Forever}]
    BY <1>8, <2>1, <2>2, FirewallDoneType, IdleTask DEF Add, GoTo, TypeOK, HistoryType
  <2>4. CASE /\ rules' = [rules EXCEPT ![Address(Name(t))][task[t].step] = @ + 1]
             /\ UNCHANGED <<faults, broken>>
    <3>1. rules' \in [Addresses -> [Directions -> Nat]]
      BY <1>8, <2>1, <2>4 DEF Add, Directions, TypeOK, FirewallType
    <3> QED
      BY <1>8, <2>3, <2>4, <3>1 DEF Add, TypeOK, FirewallType, LedgerType, CountersType, HistoryType
  <2>5. CASE \E kept \in SUBSET Directions :
               Fail({"add"} \union FailToLift(kept)) /\ AddFailed(t, kept)
    <3>1. rules' \in [Addresses -> [Directions -> Nat]] /\ broken' \subseteq Addresses
      BY <2>1, <2>5, RemovedType DEF AddFailed
    <3>2. faults' \in 0 .. MaxFaults
      BY <2>5, FaultsCounted
    <3> QED
      BY <1>8, <2>3, <3>1, <3>2 DEF Add, TypeOK, FirewallType, LedgerType, CountersType, HistoryType
  <2> QED
    BY <1>8, <2>4, <2>5 DEF Add
<1>9. ASSUME NEW t \in Slots, Delete(t) PROVE TypeOK'
  <2>1. task[t].kind \notin {"none", "restore", "block"}
    BY <1>9, StepTells DEF Delete, At
  <2>2. Address(Name(t)) \in Addresses
    BY <2>1, NamesOne
  <2>3. task' \in [Slots -> Tasks] /\ until' \in [Addresses -> Nat \union {Forever}]
    BY <1>9, <2>1, FirewallDoneType, IdleTask DEF Delete, FirewallFails, TypeOK, HistoryType
  <2>4. CASE UNCHANGED <<rules, faults, broken>>
    BY <1>9, <2>3, <2>4 DEF Delete, TypeOK, FirewallType, LedgerType, CountersType, HistoryType
  <2>5. CASE \E kept \in SUBSET Directions :
               /\ Fail(FailToLift(kept)) /\ rules' = RemoveOne(Address(Name(t)), kept)
               /\ \/ broken' = broken \union {Address(Name(t))}
                  \/ broken' = broken \union Stuck(Address(Name(t)), kept)
    <3>1. rules' \in [Addresses -> [Directions -> Nat]] /\ broken' \subseteq Addresses
      BY <2>2, <2>5, RemovedType DEF TypeOK, HistoryType
    <3>2. faults' \in 0 .. MaxFaults
      BY <2>5, FaultsCounted
    <3> QED
      BY <1>9, <2>3, <3>1, <3>2 DEF Delete, TypeOK, FirewallType, LedgerType, CountersType, HistoryType
  <2> QED
    BY <1>9, <2>4, <2>5 DEF Delete, FirewallFails
<1>10. ASSUME NEW t \in Slots, Lock(t) PROVE TypeOK'
  <2>1. task[t].kind # "none" /\ task[t] \in Tasks
    BY <1>10, StepTells DEF Lock, At, TypeOK
  <2>2. PICK current \in {record, NoRecord} :
          /\ ReadRecord(current)
          /\ \/ FirewallDone(t) /\ UNCHANGED holder
             \/ /\ holder' = t /\ UNCHANGED until
                /\ \E s \in {"anchor", "enable"} :
                     task' = [task EXCEPT ![t].next = NextList(t, current.blocked),
                                          ![t].previous = current, ![t].step = s]
    BY <1>10 DEF Lock
  <2>3. /\ current \in Records /\ faults' \in 0 .. MaxFaults /\ broken' \subseteq Addresses
    BY <2>2, FaultsCounted
  <2>4. NextList(t, current.blocked) \subseteq Addresses
    BY <2>1, <2>3, NamesOne DEF NextList, Records
  <2>5. task' \in [Slots -> Tasks] /\ until' \in [Addresses -> Nat \union {Forever}]
    <3>1. CASE FirewallDone(t)
      BY <2>1, <3>1, FirewallDoneType
    <3>2. ASSUME NEW s \in {"anchor", "enable"}, UNCHANGED until,
                 task' = [task EXCEPT ![t].next = NextList(t, current.blocked),
                                      ![t].previous = current, ![t].step = s]
          PROVE  task' \in [Slots -> Tasks] /\ until' \in [Addresses -> Nat \union {Forever}]
      <4> DEFINE r == [task[t] EXCEPT !.next = NextList(t, current.blocked),
                                      !.previous = current, !.step = s]
      <4>1. r \in Tasks
        BY <2>1, <2>3, <2>4, TaskFields DEF Steps
      <4>2. task' = [task EXCEPT ![t] = r]
        BY <3>2 DEF TypeOK
      <4> HIDE DEF r
      <4> QED
        BY <3>2, <4>1, <4>2, StepTo DEF TypeOK, HistoryType
    <3> QED
      BY <2>2, <3>1, <3>2
  <2>6. holder' \in Slots \union {NoHolder}
    BY <2>2 DEF TypeOK, FirewallType
  <2> QED
    BY <1>10, <2>3, <2>5, <2>6 DEF Lock, TypeOK, FirewallType, LedgerType, CountersType, HistoryType
<1>11. ASSUME NEW t \in Slots, Enable(t) PROVE TypeOK'
  <2>1. task[t] \in Tasks /\ Unused \in Nat
    BY UnusedIsFree DEF RefsInv, TypeOK, FirewallType
  <2>2. [task[t] EXCEPT !.token = Unused, !.step = "anchor"] \in Tasks
        /\ [task[t] EXCEPT !.step = "anchor"] \in Tasks
    BY <2>1, TaskFields DEF Steps
  <2>3. task' \in [Slots -> Tasks]
    BY <1>11, <2>2, IdleTask DEF Enable, FirewallFails, GoTo, TypeOK
  <2>4. Harmed(t) \subseteq Addresses
    BY <2>1, TaskFields DEF Harmed, Names, Address
  <2>5. faults' \in 0 .. MaxFaults
    BY <1>11, FaultsCounted DEF Enable, TypeOK, CountersType
  <2>6. broken' \subseteq Addresses /\ refs' \subseteq Nat /\ leaked' \subseteq Nat
        /\ holder' \in Slots \union {NoHolder}
    BY <1>11, <2>1, <2>4 DEF Enable, FirewallFails, TypeOK, FirewallType, HistoryType
  <2> QED
    BY <1>11, <2>3, <2>5, <2>6 DEF Enable, TypeOK, FirewallType, LedgerType, CountersType, HistoryType
<1>12. ASSUME NEW t \in Slots, LoadAnchor(t) PROVE TypeOK'
  <2>1. task[t] \in Tasks /\ task[t].next \subseteq Addresses
    BY DEF TypeOK, Tasks
  <2>2. \A s \in Steps : [task[t] EXCEPT !.step = s] \in Tasks
    BY <2>1, TaskFields
  <2>3. task' \in [Slots -> Tasks]
    BY <1>12, <2>2, IdleTask DEF LoadAnchor, FirewallFails, GoTo, TypeOK, Steps
  <2>4. Harmed(t) \subseteq Addresses
    BY <2>1, TaskFields DEF Harmed, Names, Address
  <2>5. broken' \subseteq Addresses /\ anchor' \subseteq Addresses /\ faults' \in 0 .. MaxFaults
        /\ holder' \in Slots \union {NoHolder}
    BY <1>12, <2>1, <2>4 DEF LoadAnchor, FirewallFails, MayFail, TypeOK, FirewallType, CountersType, HistoryType
  <2> QED
    BY <1>12, <2>3, <2>5 DEF LoadAnchor, TypeOK, FirewallType, LedgerType, CountersType, HistoryType
<1>13. ASSUME NEW t \in Slots, Save(t) PROVE TypeOK'
  <2>1. task[t] \in Tasks /\ task[t].next \subseteq Addresses /\ task[t].token \in Nat
    BY DEF TypeOK, Tasks
  <2>2. \A s \in Steps : [task[t] EXCEPT !.step = s] \in Tasks
    BY <2>1, TaskFields
  <2>3. task' \in [Slots -> Tasks]
    BY <1>13, <2>2 DEF Save, GoTo, TypeOK, Steps
  <2>4. [blocked |-> task[t].next, token |-> task[t].token] \in Records
    BY <2>1 DEF Records
  <2>5. record' \in Records /\ leaked' \subseteq Nat
    BY <1>13, <2>4 DEF Save, TypeOK, FirewallType, HistoryType
  <2>6. faults' \in 0 .. MaxFaults
    BY <1>13, FaultsCounted DEF Save, TypeOK, CountersType
  <2> QED
    BY <1>13, <2>3, <2>5, <2>6 DEF Save, TypeOK, FirewallType, LedgerType, CountersType, HistoryType
<1>14. ASSUME NEW t \in Slots, Undo(t) PROVE TypeOK'
  <2>1. task[t] \in Tasks /\ task[t].previous.blocked \subseteq Addresses
    BY DEF TypeOK, Tasks, Records
  <2>2. task' \in [Slots -> Tasks]
    BY <1>14, IdleTask DEF Undo, FirewallFails, TypeOK
  <2>3. Harmed(t) \subseteq Addresses
    BY <2>1, TaskFields DEF Harmed, Names, Address
  <2>4. PICK failed \in SUBSET {"anchor", "release"} :
          /\ Fail(failed)
          /\ anchor' = IF "anchor" \in failed THEN anchor ELSE task[t].previous.blocked
          /\ GiveBack(task[t].token, "release" \in failed)
    BY <1>14 DEF Undo
  <2>5. faults' \in 0 .. MaxFaults
    BY <2>4, FaultsCounted
  <2>6. anchor' \subseteq Addresses /\ refs' \subseteq Nat /\ leaked' \subseteq Nat
    BY <2>1, <2>4 DEF GiveBack, TypeOK, FirewallType, HistoryType
  <2>7. broken' \subseteq Addresses
    BY <1>14, <2>3 DEF Undo, FirewallFails, TypeOK, HistoryType
  <2> QED
    BY <1>14, <2>2, <2>5, <2>6, <2>7 DEF Undo, TypeOK, FirewallType, LedgerType, CountersType, HistoryType
<1>15. ASSUME NEW t \in Slots, Release(t) PROVE TypeOK'
  <2>1. task[t].kind # "none" /\ [task[t] EXCEPT !.step = "forget"] \in Tasks
    BY <1>15, StepTells, TaskFields DEF Release, At, TypeOK, Steps, Changing
  <2>2. task' \in [Slots -> Tasks] /\ until' \in [Addresses -> Nat \union {Forever}]
    BY <1>15, <2>1, FirewallDoneType DEF Release, GoTo, TypeOK, HistoryType
  <2>3. PICK failed \in SUBSET {"release"} : Fail(failed) /\ GiveBack(GivenBack(t), failed # {})
    BY <1>15 DEF Release
  <2>4. faults' \in 0 .. MaxFaults
    BY <2>3, FaultsCounted
  <2>5. refs' \subseteq Nat /\ leaked' \subseteq Nat
    BY <2>3 DEF GiveBack, TypeOK, FirewallType, HistoryType
  <2> QED
    BY <1>15, <2>2, <2>4, <2>5 DEF Release, TypeOK, FirewallType, LedgerType, CountersType, HistoryType
<1>16. ASSUME NEW t \in Slots, Forget(t) PROVE TypeOK'
  <2>1. task[t].kind # "none" /\ task[t] \in Tasks
    BY <1>16, StepTells DEF Forget, At, TypeOK, Changing
  <2>2. task' \in [Slots -> Tasks] /\ until' \in [Addresses -> Nat \union {Forever}]
    BY <1>16, <2>1, FirewallDoneType, IdleTask DEF Forget, FirewallFails, TypeOK, HistoryType
  <2>3. Harmed(t) \subseteq Addresses
    BY <2>1, TaskFields DEF Harmed, Names, Address
  <2>4. faults' \in 0 .. MaxFaults
    BY <1>16, FaultsCounted DEF Forget, TypeOK, CountersType
  <2>5. NoRecord \in Records
    BY DEF NoRecord, Records
  <2>6. broken' \subseteq Addresses /\ record' \in Records /\ leaked' \subseteq Nat
    BY <1>16, <2>3, <2>5 DEF Forget, FirewallFails, TypeOK, FirewallType, HistoryType
  <2> QED
    BY <1>16, <2>2, <2>4, <2>6 DEF Forget, TypeOK, FirewallType, LedgerType, CountersType, HistoryType
<1>17. ASSUME NEW t \in Slots, Start(t) PROVE TypeOK'
  <2>1. [Idle EXCEPT !.kind = "restore", !.step = "lock"] \in Tasks
    BY IdleTask DEF Tasks, Kinds, Steps
  <2>2. task' \in [Slots -> Tasks]
    BY <1>17, <2>1 DEF Start, TypeOK
  <2> QED
    BY <1>17, <2>2 DEF Start, TypeOK, FirewallType, LedgerType, CountersType, HistoryType
<1>18. ASSUME StartLedger PROVE TypeOK'
  <2>1. PICK read \in {ledger, Empty} :
          /\ ReadLedger(read)
          /\ todo' = {<<n, Remaining(read[n])>> : n \in {m \in Names : read[m] # 0}}
          /\ broken' = broken \union {Address(m) : m \in {n \in Names : read[n] # ledger[n]}}
                              \union UNION {Overwritten(t) : t \in {u \in Slots : At(u, "write")}}
    BY <1>18 DEF StartLedger
  <2>2. read \in [Names -> Nat] /\ faults' \in 0 .. MaxFaults
    BY <2>1, FaultsCounted
  <2>3. todo' \subseteq Names \X Nat
    <3>1. clock \in Nat /\ \A n \in Names : read[n] \in Nat
      BY <2>2 DEF TypeOK, CountersType
    <3>2. \A n \in Names : Remaining(read[n]) \in Nat
      BY <3>1 DEF Remaining
    <3> QED
      BY <2>1, <3>2
  <2>4. broken' \subseteq Addresses
    <3>1. \A n \in Names : Address(n) \in Addresses
      BY DEF Names, Address
    <3> QED
      BY <2>1, <3>1 DEF Overwritten, TypeOK, HistoryType
  <2> QED
    BY <1>18, <2>2, <2>3, <2>4 DEF StartLedger, TypeOK, FirewallType, LedgerType, CountersType, HistoryType
<1>19. ASSUME NEW t \in Slots, NEW e \in todo, ReconcileEntry(t, e) PROVE TypeOK'
  <2>1. e \in Names \X Nat /\ e[1] \in Names
    BY DEF TypeOK, LedgerType
  <2>2. task' \in [Slots -> Tasks] /\ broken' \subseteq Addresses /\ timers' \subseteq Names \X Nat
    <3>1. CASE Begin(t, "expired", e[1], 0) /\ UNCHANGED timers
      BY <2>1, <3>1, BeginType DEF TypeOK, LedgerType
    <3>2. CASE Reschedule(e) /\ UNCHANGED <<task, broken>>
      BY <2>1, <3>2 DEF Reschedule, TypeOK, LedgerType, HistoryType
    <3> QED
      BY <1>19, <3>1, <3>2 DEF ReconcileEntry
  <2> QED
    BY <1>19, <2>2 DEF ReconcileEntry, TypeOK, FirewallType, LedgerType, CountersType, HistoryType
<1>20. ASSUME Started PROVE TypeOK'
  BY <1>20 DEF Started, TypeOK, FirewallType, LedgerType, CountersType, HistoryType
<1>21. ASSUME NEW reboot \in BOOLEAN, Crash(reboot) PROVE TypeOK'
  <2>1. broken' \subseteq Addresses
    <3>1. \A n \in Names : Address(n) \in Addresses
      BY DEF Names, Address
    <3>2. \A t \in Slots : task[t].names \subseteq Names
      BY DEF TypeOK, Tasks
    <3>3. Busy \subseteq Addresses
      BY <3>1, <3>2 DEF Busy, Running
    <3>4. Unwritten \subseteq Addresses
      BY <3>1 DEF Unwritten
    <3> QED
      BY <1>21, <3>3, <3>4 DEF Crash, TypeOK, HistoryType
  <2>2. task' \in [Slots -> Tasks]
    BY <1>21, IdleTask DEF Crash
  <2>3. FirewallType'
    <3>1. holder' = NoHolder /\ record' = record
      BY <1>21 DEF Crash
    <3>2. CASE reboot
      BY <1>21, <3>1, <3>2 DEF Crash, TypeOK, FirewallType
    <3>3. CASE ~reboot
      BY <1>21, <3>1, <3>3 DEF Crash, TypeOK, FirewallType
    <3> QED
      BY <3>2, <3>3
  <2>4. until' \in [Addresses -> Nat \union {Forever}] /\ leaked' \subseteq Nat
    <3>1. CASE reboot
      BY <1>21, <3>1 DEF Crash, TypeOK, HistoryType, FirewallType
    <3>2. CASE ~reboot
      BY <1>21, <3>2 DEF Crash, TypeOK, HistoryType, FirewallType
    <3> QED
      BY <3>1, <3>2
  <2> QED
    BY <1>21, <2>1, <2>2, <2>3, <2>4 DEF Crash, TypeOK, LedgerType, CountersType, HistoryType
<1>22. ASSUME Tick PROVE TypeOK'
  <2>1. timers' \subseteq Names \X Nat
    BY <1>22 DEF Tick, Less, TypeOK, LedgerType
  <2>2. clock' \in 0 .. MaxClock
    BY <1>22 DEF Tick, TypeOK, CountersType
  <2> QED
    BY <1>22, <2>1, <2>2 DEF Tick, TypeOK, FirewallType, LedgerType, CountersType, HistoryType
<1>23. ASSUME UNCHANGED vars PROVE TypeOK'
  BY <1>23 DEF vars, TypeOK, FirewallType, LedgerType, CountersType, HistoryType
<1> QED
  BY <1>1, <1>2, <1>3, <1>4, <1>5, <1>6, <1>7, <1>8, <1>9, <1>10, <1>11, <1>12, <1>13, <1>14,
     <1>15, <1>16, <1>17, <1>18, <1>19, <1>20, <1>21, <1>22, <1>23
  DEF Next, TaskStep, StartStep

-----------------------------------------------------------------------------
(* What a step does to the operations *)

\* A step of an operation ends it or brings it to another of its steps.
Moves(t) ==
  /\ \A u \in Slots : u # t => task'[u] = task[u]
  /\ UNCHANGED <<os, process, todo>> /\ broken \subseteq broken'
  /\ task[t].kind # "none"
  /\ \/ task'[t] = Idle
     \/ /\ task'[t].kind = task[t].kind /\ task'[t].names = task[t].names
        /\ task'[t].step \in StepsOf(task[t].kind)
  /\ task'[t].step \notin Changing => task'[t].token = NoToken

LEMMA StepsOfKinds ==
  ASSUME NEW kind \in Kinds \ {"none"}
  PROVE  /\ kind # "restore" => {"load", "truncate", "write"} \subseteq StepsOf(kind)
         /\ kind \notin {"restore", "block"} => Firewall(kind) \in StepsOf(kind)
         /\ kind = "block" /\ os # "macos" => {"in", "out"} \subseteq StepsOf(kind)
         /\ os = "macos" => {"enable", "anchor", "save", "undo", "release"} \subseteq StepsOf(kind)
         /\ kind \notin {"restore", "block"} /\ os = "macos" => "forget" \in StepsOf(kind)
  BY DEF StepsOf, Kinds, Firewall, Changing

LEMMA LedgerMoves ==
  ASSUME TypeOK, TaskInv, NEW t \in Slots, Load(t) \/ Truncate(t) \/ Write(t)
  PROVE  /\ Moves(t) /\ UNCHANGED <<firewall, until, leaked>>
         /\ task[t].step \in {"load", "truncate", "write"}
         /\ task'[t].step \in {"idle", "truncate", "write", "lock", "delete"}
<1>1. /\ task[t].kind \in Kinds \ {"none", "restore"} /\ task[t] \in Tasks
      /\ task[t].step \in {"load", "truncate", "write"} /\ task[t].token = NoToken
  BY StepTells DEF Load, Truncate, Write, At, TypeOK, Tasks, TaskInv, Changing
<1>2. \A s \in Steps, e \in [Names -> Nat] :
        /\ [task[t] EXCEPT !.step = s, !.entries = e].token = NoToken
        /\ [task[t] EXCEPT !.step = s, !.entries = e].kind = task[t].kind
        /\ [task[t] EXCEPT !.step = s, !.entries = e].names = task[t].names
        /\ [task[t] EXCEPT !.step = s, !.entries = e].step = s
  BY <1>1 DEF Tasks
<1>3. ASSUME NEW s \in Steps, GoTo(t, s)
      PROVE  /\ task'[t].step = s /\ task'[t].kind = task[t].kind
             /\ task'[t].names = task[t].names /\ task'[t].token = NoToken
             /\ \A u \in Slots : u # t => task'[u] = task[u]
  <2>1. task' = [task EXCEPT ![t] = [task[t] EXCEPT !.step = s]]
    BY <1>3 DEF GoTo, TypeOK
  <2>2. /\ [task[t] EXCEPT !.step = s].step = s /\ [task[t] EXCEPT !.step = s].token = NoToken
        /\ [task[t] EXCEPT !.step = s].kind = task[t].kind
        /\ [task[t] EXCEPT !.step = s].names = task[t].names
    BY <1>1 DEF Tasks
  <2> QED
    BY <2>1, <2>2 DEF TypeOK
<1>4. Firewall(task[t].kind) \in Steps
      /\ (task[t].kind # "block" => Firewall(task[t].kind) \in {"lock", "delete"})
  BY DEF Firewall, Steps
<1>5. CASE Load(t)
  <2>1. PICK read \in {ledger, Empty} :
          /\ ReadLedger(read)
          /\ \/ task[t].kind # "block" /\ GoTo(t, Firewall(task[t].kind))
             \/ task' = [task EXCEPT ![t].step = "truncate",
                                     ![t].entries = [read EXCEPT ![Name(t)] = Entry(t, Name(t), read)]]
    BY <1>5 DEF Load
  <2>2. read \in [Names -> Nat] /\ Entry(t, Name(t), read) \in Nat
    BY <1>1, <2>1, FaultsCounted DEF Entry, Tasks
  <2> DEFINE e == [read EXCEPT ![Name(t)] = Entry(t, Name(t), read)]
  <2>3. e \in [Names -> Nat]
    BY <2>2
  <2>4. UNCHANGED <<os, process, todo, firewall, until, leaked, broken>>
    BY <1>5 DEF Load
  <2>5. CASE task[t].kind # "block" /\ GoTo(t, Firewall(task[t].kind))
    BY <1>1, <1>4, <1>3, <2>4, <2>5, StepsOfKinds DEF Moves
  <2>6. CASE task' = [task EXCEPT ![t].step = "truncate", ![t].entries = e]
    <3>1. /\ task'[t] = [task[t] EXCEPT !.step = "truncate", !.entries = e]
          /\ \A u \in Slots : u # t => task'[u] = task[u]
      <4> HIDE DEF e
      <4> QED
        BY <2>6 DEF TypeOK
    <3>2. /\ task'[t].step = "truncate" /\ task'[t].kind = task[t].kind
          /\ task'[t].names = task[t].names /\ task'[t].token = NoToken
      <4>1. "truncate" \in Steps
        BY DEF Steps
      <4> HIDE DEF e
      <4> QED
        BY <1>2, <2>3, <3>1, <4>1
    <3> QED
      BY <1>1, <2>4, <3>1, <3>2, StepsOfKinds DEF Moves
  <2> QED
    BY <2>1, <2>5, <2>6
<1>6. CASE LedgerDone(t) /\ (Truncate(t) \/ Write(t))
  <2>1. /\ \A u \in Slots : u # t => task'[u] = task[u]
        /\ \/ task'[t] = Idle
           \/ /\ task[t].kind # "block"
              /\ task'[t] = [task[t] EXCEPT !.step = Firewall(task[t].kind), !.entries = Empty]
    BY <1>1, <1>6, LedgerDoneType
  <2>2. UNCHANGED <<os, leaked, process, todo, firewall, until>> /\ broken \subseteq broken'
    BY <1>6 DEF Truncate, Write
  <2>3. CASE task'[t] = Idle
    BY <1>1, <2>1, <2>2, <2>3, IdleTask DEF Moves
  <2>4. CASE /\ task[t].kind # "block"
             /\ task'[t] = [task[t] EXCEPT !.step = Firewall(task[t].kind), !.entries = Empty]
    <3>1. /\ task'[t].step = Firewall(task[t].kind) /\ task'[t].kind = task[t].kind
          /\ task'[t].names = task[t].names /\ task'[t].token = NoToken
      BY <1>2, <1>4, <2>4, IdleTask
    <3> QED
      BY <1>1, <1>4, <2>1, <2>2, <2>4, <3>1, StepsOfKinds DEF Moves
  <2> QED
    BY <2>1, <2>3, <2>4
<1>7. CASE GoTo(t, "write") /\ UNCHANGED timers /\ Truncate(t)
  <2>1. /\ task'[t].step = "write" /\ task'[t].kind = task[t].kind /\ task'[t].names = task[t].names
        /\ task'[t].token = NoToken
        /\ \A u \in Slots : u # t => task'[u] = task[u]
    BY <1>7, <1>3 DEF Steps
  <2>2. UNCHANGED <<os, leaked, process, todo, firewall, until>> /\ broken \subseteq broken'
    BY <1>7 DEF Truncate
  <2> QED
    BY <1>1, <2>1, <2>2, StepsOfKinds DEF Moves
<1> QED
  BY <1>5, <1>6, <1>7 DEF Truncate, Write

\* On Linux.
LEMMA RuleMoves ==
  ASSUME TypeOK, TaskInv, NEW t \in Slots, Lift(t) \/ Add(t) \/ Delete(t)
  PROVE  /\ Moves(t) /\ UNCHANGED <<anchor, refs, record, holder, leaked>> /\ os # "macos"
         /\ task[t].kind \notin {"none", "restore"}
         /\ task[t].step \in {"lift", "in", "out", "delete"}
         /\ task'[t].step \in {"idle", "in", "out", "load"}
<1>1. /\ task[t].kind \in Kinds \ {"none", "restore"} /\ task[t] \in Tasks
      /\ task[t].step \in {"lift", "in", "out", "delete"} /\ os # "macos"
      /\ Lift(t) \/ Add(t) => task[t].kind = "block"
      /\ Delete(t) => task[t].kind # "block"
      /\ task[t].token = NoToken
  BY StepTells DEF Lift, Add, Delete, At, TypeOK, Tasks, TaskInv, Changing
<1>2. /\ UNCHANGED <<os, leaked, process, todo, timers, anchor, refs, record, holder>>
      /\ broken \subseteq broken'
  BY DEF Lift, Add, AddFailed, Delete, FirewallFails
<1>3. ASSUME NEW s \in {"in", "out"}, GoTo(t, s), Lift(t) \/ Add(t)
      PROVE  /\ task'[t].step = s /\ task'[t].kind = task[t].kind
             /\ task'[t].names = task[t].names /\ s \in StepsOf(task[t].kind)
             /\ task'[t].token = NoToken
             /\ \A u \in Slots : u # t => task'[u] = task[u]
  <2>1. /\ task'[t] = [task[t] EXCEPT !.step = s]
        /\ \A u \in Slots : u # t => task'[u] = task[u]
    BY <1>3 DEF GoTo, TypeOK
  <2> QED
    BY <1>1, <1>3, <2>1, StepsOfKinds DEF Tasks
<1>4. ASSUME FirewallDone(t)
      PROVE  /\ \A u \in Slots : u # t => task'[u] = task[u]
             /\ \/ task'[t] = Idle
                \/ /\ task'[t].step = "load" /\ task'[t].kind = task[t].kind
                   /\ task'[t].names = task[t].names /\ "load" \in StepsOf(task[t].kind)
                   /\ task'[t].token = NoToken
  BY <1>1, <1>4, FirewallDoneType, StepsOfKinds
<1>5. ASSUME task' = [task EXCEPT ![t] = Idle]
      PROVE  task'[t] = Idle /\ \A u \in Slots : u # t => task'[u] = task[u]
  BY <1>5 DEF TypeOK
<1>6. \/ \E s \in {"in", "out"} : GoTo(t, s) /\ (Lift(t) \/ Add(t))
      \/ FirewallDone(t) \/ task' = [task EXCEPT ![t] = Idle]
  BY DEF Lift, Add, Delete, FirewallFails
<1> QED
  BY <1>1, <1>2, <1>3, <1>4, <1>5, <1>6, IdleTask DEF Moves

\* On macOS.
LEMMA ListMoves ==
  ASSUME TypeOK, TaskInv, LockInv, NEW t \in Slots,
         \/ Lock(t) \/ Enable(t) \/ LoadAnchor(t) \/ Save(t) \/ Undo(t) \/ Release(t) \/ Forget(t)
  PROVE  /\ Moves(t) /\ UNCHANGED <<rules, ledger, timers>> /\ os = "macos"
         /\ task[t].step \in Changing \union {"lock"}
         /\ task'[t].step \in {"idle", "load"} \union Changing
<1>1. /\ task[t].kind \in Kinds \ {"none"} /\ task[t] \in Tasks
      /\ task[t].step \in Changing \union {"lock"} /\ os = "macos"
  <2>1. task[t].step \in Changing \union {"lock"}
    BY DEF Lock, Enable, LoadAnchor, Save, Undo, Release, Forget, At, Changing
  <2> QED
    BY <2>1, StepTells DEF TypeOK, Tasks
<1>2. /\ UNCHANGED <<os, process, todo, timers, rules, ledger>>
      /\ broken \subseteq broken'
  BY FaultsCounted DEF Lock, Enable, LoadAnchor, Save, Undo, Release, Forget, FirewallFails
<1>3. ASSUME NEW s \in Changing, s = "forget" => task[t].kind \notin {"block", "restore"},
             NEW r \in Tasks, r.step = s, r.kind = task[t].kind, r.names = task[t].names,
             task' = [task EXCEPT ![t] = r]
      PROVE  /\ task'[t].step \in Changing /\ task'[t].kind = task[t].kind
             /\ task'[t].names = task[t].names /\ task'[t].step \in StepsOf(task[t].kind)
             /\ \A u \in Slots : u # t => task'[u] = task[u]
  <2>1. task'[t] = r /\ \A u \in Slots : u # t => task'[u] = task[u]
    BY <1>3 DEF TypeOK
  <2> QED
    BY <1>1, <1>3, <2>1, StepsOfKinds DEF Changing
<1> DEFINE Goes == \E r \in Tasks :
                     /\ r.step \in Changing /\ r.kind = task[t].kind /\ r.names = task[t].names
                     /\ r.step = "forget" => task[t].kind \notin {"block", "restore"}
                     /\ task' = [task EXCEPT ![t] = r]
<1>a. ASSUME Goes PROVE Moves(t) /\ task'[t].step \in Changing
  <2>1. PICK r \in Tasks : /\ r.step \in Changing /\ r.kind = task[t].kind /\ r.names = task[t].names
                           /\ r.step = "forget" => task[t].kind \notin {"block", "restore"}
                           /\ task' = [task EXCEPT ![t] = r]
    BY <1>a DEF Goes
  <2>2. /\ task'[t].step \in Changing /\ task'[t].kind = task[t].kind
        /\ task'[t].names = task[t].names /\ task'[t].step \in StepsOf(task[t].kind)
        /\ \A u \in Slots : u # t => task'[u] = task[u]
    BY <1>3, <2>1
  <2> QED
    BY <1>1, <1>2, <2>2 DEF Moves
<1> HIDE DEF Goes
<1>4. ASSUME FirewallDone(t)
      PROVE  /\ \A u \in Slots : u # t => task'[u] = task[u]
             /\ \/ task'[t] = Idle
                \/ /\ task'[t].step = "load" /\ task'[t].kind = task[t].kind
                   /\ task'[t].names = task[t].names /\ "load" \in StepsOf(task[t].kind)
                   /\ task'[t].token = NoToken
  BY <1>1, <1>4, FirewallDoneType, StepsOfKinds
<1>5. ASSUME task' = [task EXCEPT ![t] = Idle]
      PROVE  task'[t] = Idle /\ \A u \in Slots : u # t => task'[u] = task[u]
  BY <1>5 DEF TypeOK
<1>6. \A s \in Changing :
        /\ [task[t] EXCEPT !.step = s] \in Tasks
        /\ [task[t] EXCEPT !.step = s].step = s
        /\ [task[t] EXCEPT !.step = s].kind = task[t].kind
        /\ [task[t] EXCEPT !.step = s].names = task[t].names
  BY <1>1 DEF Tasks, Changing, Steps
<1>7. CASE Lock(t)
  <2>1. PICK current \in {record, NoRecord}, s \in {"anchor", "enable"} :
          /\ ReadRecord(current)
          /\ \/ FirewallDone(t)
             \/ task' = [task EXCEPT ![t].next = NextList(t, current.blocked),
                                     ![t].previous = current, ![t].step = s]
    BY <1>7 DEF Lock
  <2>2. current \in Records /\ NextList(t, current.blocked) \subseteq Addresses
    <3>1. current \in Records
      BY <2>1, FaultsCounted
    <3> QED
      BY <1>1, <3>1, NamesOne DEF NextList, Records
  <2> DEFINE r == [task[t] EXCEPT !.next = NextList(t, current.blocked), !.previous = current,
                                  !.step = s]
  <2>3. r \in Tasks /\ r.step = s /\ r.kind = task[t].kind /\ r.names = task[t].names
    <3>1. s \in Steps
      BY DEF Steps
    <3> QED
      BY <1>1, <2>2, <3>1 DEF Tasks
  <2>4. task' = [task EXCEPT ![t] = r] \/ FirewallDone(t)
    BY <2>1 DEF TypeOK
  <2> HIDE DEF r
  <2>5. Goes \/ FirewallDone(t)
    BY <2>3, <2>4 DEF Changing, Goes
  <2>6. CASE FirewallDone(t)
    BY <1>1, <1>2, <1>4, <2>6, IdleTask DEF Moves
  <2> QED
    BY <1>1, <1>2, <1>a, <2>5, <2>6
<1>8. CASE Enable(t)
  <2> DEFINE r == [task[t] EXCEPT !.token = Unused, !.step = "anchor"]
  <2>1. CASE task' = [task EXCEPT ![t] = r]
    <3>1. r.step = "anchor" /\ r.kind = task[t].kind /\ r.names = task[t].names
      BY <1>1 DEF Tasks
    <3>2. task'[t] = r /\ \A u \in Slots : u # t => task'[u] = task[u]
      BY <2>1 DEF TypeOK
    <3>3. task'[t].step = "anchor" /\ task'[t].kind = task[t].kind /\ task'[t].names = task[t].names
      BY <3>1, <3>2
    <3> QED
      BY <1>1, <1>2, <3>2, <3>3, StepsOfKinds DEF Moves, Changing
  <2>2. CASE task' = [task EXCEPT ![t] = Idle]
    BY <1>1, <1>2, <1>5, <2>2, IdleTask DEF Moves
  <2>3. CASE GoTo(t, "anchor")
    <3>1. Goes
      BY <1>6, <2>3 DEF Changing, GoTo, TypeOK, Goes
    <3> QED
      BY <1>1, <1>2, <1>a, <3>1
  <2> QED
    BY <1>8, <2>1, <2>2, <2>3 DEF Enable, FirewallFails, TypeOK
<1>9. CASE LoadAnchor(t) \/ Save(t)
  <2>1. \/ task' = [task EXCEPT ![t] = Idle]
        \/ \E s \in {"release", "save", "undo"} : task' = [task EXCEPT ![t] = [task[t] EXCEPT !.step = s]]
    BY <1>9 DEF LoadAnchor, Save, GoTo, FirewallFails, TypeOK
  <2>2. task' = [task EXCEPT ![t] = Idle] \/ Goes
    BY <1>6, <2>1 DEF Changing, Goes
  <2>3. CASE task' = [task EXCEPT ![t] = Idle]
    BY <1>1, <1>2, <1>5, <2>3, IdleTask DEF Moves
  <2> QED
    BY <1>1, <1>2, <1>a, <2>2, <2>3
<1>10. CASE Undo(t)
  BY <1>1, <1>2, <1>5, <1>10, IdleTask DEF Moves, Undo, FirewallFails
<1>11. CASE Release(t)
  <2>1. holder = t /\ ChangeInv(t)
    BY <1>11 DEF Release, At, LockInv, Changing
  <2>2. CASE task[t].next = {} /\ GoTo(t, "forget")
    <3>1. task[t].kind \notin {"block", "restore"}
      BY <2>1, <2>2 DEF ChangeInv
    <3>2. Goes
      BY <1>6, <2>2, <3>1 DEF Changing, GoTo, TypeOK, Goes
    <3> QED
      BY <1>1, <1>2, <1>a, <3>2
  <2>3. CASE FirewallDone(t)
    BY <1>1, <1>2, <1>4, <2>3, IdleTask DEF Moves
  <2> QED
    BY <1>11, <2>2, <2>3 DEF Release
<1>12. CASE Forget(t)
  BY <1>1, <1>2, <1>4, <1>5, <1>12, IdleTask DEF Moves, Forget, FirewallFails
<1> QED
  BY <1>7, <1>8, <1>9, <1>10, <1>11, <1>12

\* An operation begins: a request, a timer, an expired entry of the ledger.
Begins(t) ==
  /\ task[t] = Idle /\ \A u \in Slots : u # t => task'[u] = task[u]
  /\ \E n \in Names : task'[t].names = {n} /\ (Address(n) \in Busy => Address(n) \in broken')
  /\ task'[t].kind \in {"block", "unblock", "timer", "expired"} /\ task'[t].token = NoToken
  /\ task'[t].step \in {"load", "lift", "lock"}
  /\ task'[t].step = "lock" => task'[t].kind = "block" /\ os = "macos"
  /\ task'[t].step = "lift" => task'[t].kind = "block" /\ os # "macos"
  /\ process # "down"
  /\ UNCHANGED <<os, process, firewall, until, leaked>> /\ broken \subseteq broken'

\* A step of no operation: the clock, a start that reads the ledger or is over.
Waits ==
  /\ UNCHANGED <<os, firewall, until, leaked, task>> /\ broken \subseteq broken'
  /\ \/ process' = process
     \/ process = "restoring" /\ ~Restoring /\ process' = "reconciling"
     \/ process = "reconciling" /\ process' = "up"

LEMMA Beginnings ==
  ASSUME TypeOK, TaskInv, NEW t \in Slots, NEW n \in Names,
         \/ \E d \in Durations : Request(t, "block", n, d)
         \/ Request(t, "unblock", n, 0) \/ TimerFires(t, n)
         \/ \E e \in todo : ReconcileEntry(t, e) /\ e[1] = n /\ e[2] = 0
  PROVE  Begins(t)
<1>1. UNCHANGED <<os, process, firewall, until, leaked>> /\ process # "down"
  BY DEF Request, TimerFires, ReconcileEntry
<1>2. PICK kind \in {"block", "unblock", "timer", "expired"}, d \in Nat : Begin(t, kind, n, d)
  <2>1. 0 \in Nat /\ Durations \subseteq Nat
    OBVIOUS
  <2> QED
    BY <2>1 DEF Request, TimerFires, ReconcileEntry
<1> QED
  BY <1>1, <1>2, BeginType DEF Begins

\* The steps of the system.
LEMMA StepCases ==
  ASSUME TypeOK, TaskInv, [Next]_vars
  PROVE  \/ \E t \in Slots : Load(t) \/ Truncate(t) \/ Write(t)
         \/ \E t \in Slots : Lift(t) \/ Add(t) \/ Delete(t)
         \/ \E t \in Slots : \/ Lock(t) \/ Enable(t) \/ LoadAnchor(t) \/ Save(t) \/ Undo(t)
                             \/ Release(t) \/ Forget(t)
         \/ \E t \in Slots : Begins(t) \/ Start(t)
         \/ \E reboot \in BOOLEAN : Crash(reboot)
         \/ Waits
<1>1. ASSUME NEW t \in Slots, NEW e \in todo, ReconcileEntry(t, e)
      PROVE  Begins(t) \/ Waits
  <2>1. e[1] \in Names
    BY DEF TypeOK, LedgerType
  <2>2. CASE e[2] = 0
    BY <1>1, <2>1, <2>2, Beginnings
  <2>3. CASE e[2] # 0
    BY <1>1, <2>3 DEF ReconcileEntry, Waits
  <2> QED
    BY <2>2, <2>3
<1>2. ASSUME NEW t \in Slots, StartStep(t)
      PROVE  Begins(t) \/ Start(t) \/ Waits
  <2>1. StartLedger \/ Started => Waits
    BY DEF StartLedger, Started, Waits
  <2> QED
    BY <1>1, <1>2, <2>1 DEF StartStep
<1>3. Tick => Waits
  BY DEF Tick, Waits
<1>4. UNCHANGED vars => Waits
  BY DEF vars, Waits, firewall
<1>5. ASSUME NEW t \in Slots, NEW n \in Names,
             \/ \E d \in Durations : Request(t, "block", n, d)
             \/ Request(t, "unblock", n, 0) \/ TimerFires(t, n)
      PROVE  Begins(t)
  BY <1>5, Beginnings
<1> QED
  BY <1>2, <1>3, <1>4, <1>5 DEF Next, TaskStep

LEMMA OwnOf ==
  /\ \A t \in Slots : Own(t) = {Address(n) : n \in task[t].names}
  /\ \A t \in Slots : Own(t)' = {Address(n) : n \in task'[t].names}
  BY DEF Own

LEMMA SameSteps ==
  ASSUME os' = os, NEW u \in Slots
  PROVE  StepsOf(task[u].kind)' = StepsOf(task'[u].kind)
  BY DEF StepsOf

\* What TaskInv says of one operation.
TaskOf(u) ==
  /\ task[u].step \in StepsOf(task[u].kind)
  /\ task[u].kind = "none" => task[u] = Idle
  /\ task[u].kind = "restore" => os = "macos" /\ process = "restoring" /\ task[u].names = {}
  /\ task[u].kind \notin {"none", "restore"} =>
       /\ process # "down"
       /\ \E n \in Names : task[u].names = {n}
  /\ task[u].step \notin Changing => task[u].token = NoToken

LEMMA TaskInvStep ==
  ASSUME TypeOK, TaskInv, LockInv, [Next]_vars
  PROVE  TaskInv'
<1>a. \A u \in Slots : TaskOf(u) /\ task[u].kind \in Kinds
  BY DEF TaskInv, TaskOf, TypeOK, Tasks
<1>b. ASSUME \A u \in Slots : TaskOf(u)',
             \A u \in Slots : task'[u].kind = "restore" => task[u].kind = "restore"
      PROVE  TaskInv'
  BY <1>b DEF TaskInv, TaskOf
<1>c. "idle" \in StepsOf("none")'
  BY DEF StepsOf
<1>1. ASSUME NEW t \in Slots, Moves(t) PROVE TaskInv'
  <2>1. ASSUME NEW u \in Slots PROVE TaskOf(u)'
    <3>1. StepsOf(task[u].kind)' = StepsOf(task'[u].kind)
          /\ StepsOf(task[u].kind)' = StepsOf(task'[u].kind)
      BY <1>1, SameSteps DEF Moves
    <3>2. "idle" \in StepsOf("none") /\ "none" \in Kinds
      BY DEF StepsOf, Kinds
    <3>3. TaskOf(u) /\ TaskOf(t) /\ task[u].kind \in Kinds /\ task[t].kind \in Kinds
      BY <1>a
    <3>4. CASE u # t
      BY <1>1, <3>1, <3>3, <3>4 DEF Moves, TaskOf
    <3>5. CASE u = t /\ task'[t] = Idle
      BY <1>1, <3>1, <3>2, <3>5, IdleTask DEF TaskOf
    <3>6. CASE u = t /\ task'[t] # Idle
      BY <1>1, <3>1, <3>3, <3>6 DEF Moves, TaskOf
    <3> QED
      BY <3>4, <3>5, <3>6
  <2>2. \A u \in Slots : task'[u].kind = "restore" => task[u].kind = "restore"
    BY <1>1, IdleTask DEF Moves
  <2> QED
    BY <1>b, <2>1, <2>2
<1>2. ASSUME NEW t \in Slots, Begins(t) PROVE TaskInv'
  <2>1. ASSUME NEW u \in Slots PROVE TaskOf(u)'
    <3>1. StepsOf(task[u].kind)' = StepsOf(task'[u].kind)
      BY <1>2, SameSteps DEF Begins
    <3>2. task[u].kind \in Kinds /\ TaskOf(u)
      BY <1>a
    <3>3. CASE u # t
      BY <1>2, <3>1, <3>2, <3>3 DEF Begins, TaskOf
    <3>4. CASE u = t
      BY <1>2, <3>1, <3>4 DEF Begins, StepsOf, Kinds, TaskOf
    <3> QED
      BY <3>3, <3>4
  <2>2. \A u \in Slots : task'[u].kind = "restore" => task[u].kind = "restore"
    BY <1>2 DEF Begins
  <2> QED
    BY <1>b, <2>1, <2>2
<1>3. ASSUME NEW t \in Slots, Start(t) PROVE TaskInv'
  <2>1. \A u \in Slots : task[u] = Idle
    BY <1>3, <1>a DEF Start, TaskOf
  <2> DEFINE r == [Idle EXCEPT !.kind = "restore", !.step = "lock"]
  <2>2. r.kind = "restore" /\ r.names = {} /\ r.step = "lock" /\ r.token = NoToken
    BY DEF Idle
  <2>3. os \in {"linux", "macos"} /\ task \in [Slots -> Tasks]
    BY DEF TypeOK
  <2>4. task' = task \/ (task' = [task EXCEPT ![t] = r] /\ os # "linux")
    BY <1>3 DEF Start
  <2>5. process' = "restoring" /\ os' = os
    BY <1>3 DEF Start
  <2> HIDE DEF r
  <2>6. ASSUME NEW u \in Slots
        PROVE  task'[u] = Idle \/ (u = t /\ task'[u] = r /\ os' = "macos")
    BY <2>1, <2>3, <2>4, <2>5
  <2>7. "lock" \in StepsOf("restore")' \/ os' # "macos"
    BY DEF StepsOf
  <2>8. \A u \in Slots : TaskOf(u)'
    BY <1>c, <2>2, <2>5, <2>6, <2>7, IdleTask DEF TaskOf
  <2>9. \A u, v \in Slots : task'[u].kind = "restore" /\ task'[v].kind = "restore" => u = v
    BY <2>6, IdleTask
  <2> QED
    BY <2>8, <2>9 DEF TaskInv, TaskOf
<1>4. ASSUME NEW reboot \in BOOLEAN, Crash(reboot) PROVE TaskInv'
  BY <1>4, <1>c, IdleTask DEF Crash, TaskInv
<1>5. ASSUME Waits PROVE TaskInv'
  <2>1. \A u \in Slots : StepsOf(task[u].kind)' = StepsOf(task'[u].kind)
    BY <1>5, SameSteps DEF Waits
  <2>2. ASSUME NEW u \in Slots PROVE TaskOf(u)'
    <3>1. TaskOf(u) /\ task'[u] = task[u] /\ task[u].kind \in Kinds /\ os' = os
      BY <1>5, <1>a DEF Waits
    <3>2. task[u].kind = "restore" => process' = process
      BY <1>5, <3>1 DEF Waits, Restoring, TaskOf
    <3>3. process # "down" => process' # "down"
      BY <1>5 DEF Waits
    <3> QED
      BY <2>1, <3>1, <3>2, <3>3 DEF TaskOf
  <2> QED
    BY <1>5, <1>b, <2>2 DEF Waits
<1> QED
  BY <1>1, <1>2, <1>3, <1>4, <1>5, StepCases, LedgerMoves, RuleMoves, ListMoves

LEMMA ApartStep ==
  ASSUME TypeOK, TaskInv, ApartInv, LockInv, [Next]_vars
  PROVE  ApartInv'
<1>1. ASSUME NEW t \in Slots, Moves(t) PROVE ApartInv'
  <2>1. \A u \in Slots : Own(u)' \subseteq Own(u)
    BY <1>1, OwnOf, IdleTask DEF Moves
  <2> QED
    BY <1>1, <2>1 DEF Moves, ApartInv
<1>2. ASSUME NEW t \in Slots, Begins(t) PROVE ApartInv'
  <2>1. PICK n \in Names : task'[t].names = {n} /\ (Address(n) \in Busy => Address(n) \in broken')
    BY <1>2 DEF Begins
  <2>2. Own(t)' = {Address(n)}
    BY <2>1, OwnOf
  <2>5. \A u \in Slots : u # t => task'[u] = task[u]
    BY <1>2 DEF Begins
  <2>3. \A u \in Slots : u # t => Own(u)' = Own(u)
    BY <2>5, OwnOf
  <2>4. \A u \in Slots : Own(u) \subseteq Busy
    BY IdleTask DEF Own, Busy, Running
  <2> QED
    BY <1>2, <2>1, <2>2, <2>3, <2>4 DEF Begins, ApartInv
<1>3. ASSUME NEW t \in Slots, Start(t) PROVE ApartInv'
  <2>1. \A u \in Slots : task'[u].names = {} \/ task'[u] = task[u]
    BY <1>3, IdleTask DEF Start, TypeOK, Idle
  <2>2. \A u \in Slots : Own(u)' \subseteq Own(u)
    BY <2>1, OwnOf
  <2> QED
    BY <1>3, <2>2 DEF Start, ApartInv
<1>4. ASSUME NEW reboot \in BOOLEAN, Crash(reboot) PROVE ApartInv'
  <2>1. \A u \in Slots : Own(u)' = {}
    BY <1>4, OwnOf, IdleTask DEF Crash
  <2> QED
    BY <2>1 DEF ApartInv
<1>5. ASSUME Waits PROVE ApartInv'
  BY <1>5 DEF Waits, ApartInv, Own
<1> QED
  BY <1>1, <1>2, <1>3, <1>4, <1>5, StepCases, LedgerMoves, RuleMoves, ListMoves

-----------------------------------------------------------------------------
(* Linux: the rules *)

\* A step of another operation leaves the rules of an address as they are.
LEMMA RuleKept ==
  ASSUME NEW a \in Addresses, RuleInv(a), rules'[a] = rules[a], until'[a] = until[a],
         \A u \in Slots : \/ task'[u] = task[u]
                          \/ a \notin Own(u) /\ a \notin Own(u)'
                          \/ task[u].step \notin {"in", "out"} /\ task'[u].step \notin {"in", "out"}
  PROVE  RuleInv(a)'
<1>0. \A u \in Slots : task'[u] = task[u] => Own(u)' = Own(u)
  BY OwnOf
<1>1. CASE /\ rules[a]["in"] = rules[a]["out"] /\ rules[a]["in"] \in {0, 1}
           /\ until[a] # NoBlock <=> rules[a]["in"] = 1
           /\ \A t \in Slots : a \in Own(t) => task[t].step \notin {"in", "out"}
  <2>1. \A u \in Slots : a \in Own(u)' => task'[u].step \notin {"in", "out"}
    BY <1>0, <1>1
  <2> QED
    BY <1>1, <2>1 DEF RuleInv
<1>2. CASE \E t \in Slots :
             /\ a \in Own(t) /\ rules[a]["out"] = 0
             /\ \/ At(t, "in") /\ rules[a]["in"] = 0
                \/ At(t, "out") /\ rules[a]["in"] = 1
  <2>1. PICK t \in Slots :
             /\ a \in Own(t) /\ rules[a]["out"] = 0
             /\ \/ At(t, "in") /\ rules[a]["in"] = 0
                \/ At(t, "out") /\ rules[a]["in"] = 1
    BY <1>2
  <2>2. task'[t] = task[t] /\ a \in Own(t)'
    BY <1>0, <2>1 DEF At
  <2> QED
    BY <2>1, <2>2 DEF RuleInv, At
<1> QED
  BY <1>1, <1>2 DEF RuleInv

LEMMA RulesKept ==
  ASSUME RulesInv, UNCHANGED <<os, rules, until>>, broken \subseteq broken',
         \A u \in Slots : \/ task'[u] = task[u]
                          \/ task[u].step \notin {"in", "out"} /\ task'[u].step \notin {"in", "out"}
  PROVE  RulesInv'
<1>1. ASSUME os = "linux", NEW a \in Addresses, a \notin broken' PROVE RuleInv(a)'
  BY <1>1, RuleKept DEF RulesInv
<1> QED
  BY <1>1 DEF RulesInv

\* The address of an operation is in no other's hands.
LEMMA Alone ==
  ASSUME ApartInv, NEW t \in Slots, NEW a \in Own(t) \ broken
  PROVE  \A u \in Slots : a \in Own(u) => u = t
  BY DEF ApartInv

LEMMA LiftRules ==
  ASSUME TypeOK, TaskInv, ApartInv, RulesInv, NEW t \in Slots, Lift(t)
  PROVE  RulesInv'
<1>1. Moves(t) /\ os # "macos" /\ task[t].kind \notin {"none", "restore"}
  BY RuleMoves
<1>2. PICK b \in Addresses : b = Address(Name(t)) /\ Own(t) = {b}
  BY <1>1, NamesOne
<1>3. PICK kept \in SUBSET Directions :
        rules' = RemoveOne(b, kept) /\ broken' = broken \union Stuck(b, kept)
  BY <1>2 DEF Lift
<1>4. At(t, "lift") /\ UNCHANGED <<os, until>> /\ At(t, "in")' /\ Own(t)' = Own(t)
  <2>1. task'[t] = [task[t] EXCEPT !.step = "in"] /\ task[t] \in Tasks
    BY DEF Lift, GoTo, TypeOK
  <2>2. task'[t].step = "in" /\ task'[t].names = task[t].names
    BY <2>1 DEF Tasks
  <2> QED
    BY <2>2, OwnOf DEF Lift, At
<1>5. ASSUME NEW a \in Addresses \ broken' PROVE RuleInv(a)'
  <2>1. RuleInv(a) /\ a \notin broken
    BY <1>1, <1>3, <1>5 DEF RulesInv, TypeOK
  <2>2. CASE a # b
    <3>1. rules'[a] = rules[a] /\ until'[a] = until[a]
      BY <1>3, <1>4, <2>2, RemovedType
    <3> QED
      BY <1>1, <1>2, <1>4, <2>1, <2>2, <3>1, RuleKept DEF Moves
  <2>3. CASE a = b
    <3>1. \A u \in Slots : a \in Own(u) => u = t
      BY <1>2, <2>1, <2>3, Alone
    <3>2. rules[a]["in"] = rules[a]["out"] /\ rules[a]["in"] \in {0, 1}
      BY <1>4, <2>1, <3>1 DEF RuleInv, At
    <3>3. a \notin Stuck(b, kept)
      BY <1>3, <1>5
    <3>4. rules'[a]["in"] = 0 /\ rules'[a]["out"] = 0
      BY <1>3, <2>3, <3>2, <3>3, RemovedType DEF Directions, Less
    <3> QED
      BY <1>2, <1>4, <2>3, <3>4 DEF RuleInv, At
  <2> QED
    BY <2>2, <2>3
<1> QED
  BY <1>1, <1>4, <1>5 DEF RulesInv

LEMMA AddRules ==
  ASSUME TypeOK, TaskInv, ApartInv, RulesInv, NEW t \in Slots, Add(t)
  PROVE  RulesInv'
<1>1. Moves(t) /\ os # "macos" /\ task[t].kind = "block" /\ os' = os /\ broken \subseteq broken'
  BY RuleMoves, StepTells DEF Add, Moves
<1>2. PICK b \in Addresses : b = Address(Name(t)) /\ Own(t) = {b}
  BY <1>1, NamesOne
<1>3. \A u \in Slots : u # t => task'[u] = task[u] /\ Own(u)' = Own(u)
  <2>1. \A u \in Slots : u # t => task'[u] = task[u]
    BY <1>1 DEF Moves
  <2> QED
    BY <2>1, OwnOf
<1>4. Own(t)' \subseteq Own(t)
  BY <1>1, IdleTask, OwnOf DEF Moves
<1>5. /\ rules \in [Addresses -> [Directions -> Nat]]
      /\ until \in [Addresses -> Nat \union {Forever}]
  BY DEF TypeOK, FirewallType, HistoryType
<1>6. ASSUME b \notin broken
      PROVE  /\ \A u \in Slots : b \in Own(u) => u = t
             /\ rules[b]["out"] = 0
             /\ At(t, "in") => rules[b]["in"] = 0
             /\ At(t, "out") => rules[b]["in"] = 1
  <2>1. \A u \in Slots : b \in Own(u) => u = t
    BY <1>2, <1>6, Alone
  <2>2. RuleInv(b) /\ task[t].step \in {"in", "out"}
    BY <1>1, <1>6 DEF RulesInv, TypeOK, Add
  <2> QED
    BY <1>2, <2>1, <2>2 DEF RuleInv, At
<1>7. CASE /\ rules' = [rules EXCEPT ![b][task[t].step] = @ + 1]
           /\ At(t, "in") /\ GoTo(t, "out") /\ UNCHANGED <<until, broken>>
  <2>1. At(t, "out")' /\ Own(t)' = Own(t)
    <3>1. task'[t] = [task[t] EXCEPT !.step = "out"] /\ task[t] \in Tasks
      BY <1>7 DEF GoTo, TypeOK
    <3>2. task'[t].step = "out" /\ task'[t].names = task[t].names
      BY <3>1 DEF Tasks
    <3> QED
      BY <3>2, OwnOf DEF At
  <2>2. ASSUME NEW a \in Addresses \ broken PROVE RuleInv(a)'
    <3>1. CASE a # b
      <4>1. rules'[a] = rules[a] /\ RuleInv(a)
        BY <1>1, <1>5, <1>7, <2>2, <3>1 DEF RulesInv, TypeOK
      <4> QED
        BY <1>2, <1>3, <1>4, <1>7, <3>1, <4>1, RuleKept
    <3>2. CASE a = b
      <4>1. rules'[a]["in"] = 1 /\ rules'[a]["out"] = 0
        BY <1>5, <1>6, <1>7, <2>2, <3>2 DEF At, Directions
      <4> QED
        BY <1>2, <2>1, <3>2, <4>1 DEF RuleInv, At
    <3> QED
      BY <3>1, <3>2
  <2> QED
    BY <1>1, <2>2 DEF RulesInv
<1>8. CASE /\ rules' = [rules EXCEPT ![b][task[t].step] = @ + 1]
           /\ At(t, "out") /\ FirewallDone(t) /\ UNCHANGED broken
  <2>1. /\ \A a \in Addresses : IF a \in Own(t) THEN until'[a] # NoBlock ELSE until'[a] = until[a]
        /\ task'[t].step \notin {"in", "out"}
    BY <1>1, <1>8, FirewallDoneType, IdleTask
  <2>2. ASSUME NEW a \in Addresses \ broken PROVE RuleInv(a)'
    <3>1. CASE a # b
      <4>1. rules'[a] = rules[a] /\ RuleInv(a) /\ until'[a] = until[a]
        BY <1>1, <1>2, <1>5, <1>8, <2>1, <2>2, <3>1 DEF RulesInv, TypeOK
      <4> QED
        BY <1>2, <1>3, <1>4, <3>1, <4>1, RuleKept
    <3>2. CASE a = b
      <4>1. rules'[a]["in"] = 1 /\ rules'[a]["out"] = 1 /\ until'[a] # NoBlock
        BY <1>2, <1>5, <1>6, <1>8, <2>1, <2>2, <3>2 DEF At, Directions
      <4>2. \A u \in Slots : a \in Own(u)' => task'[u].step \notin {"in", "out"}
        BY <1>3, <1>6, <2>1, <2>2, <3>2
      <4> QED
        BY <4>1, <4>2 DEF RuleInv
    <3> QED
      BY <3>1, <3>2
  <2> QED
    BY <1>1, <2>2 DEF RulesInv
<1>9. CASE /\ \E kept \in SUBSET Directions : AddFailed(t, kept)
           /\ until' = [until EXCEPT ![b] = NoBlock]
           /\ task' = [task EXCEPT ![t] = Idle]
  <2>1. task'[t].step \notin {"in", "out"}
    BY <1>9, IdleTask DEF TypeOK
  <2>2. PICK kept \in SUBSET Directions :
          rules' = RemoveOne(b, kept) /\ broken' = broken \union Stuck(b, kept)
    BY <1>2, <1>9 DEF AddFailed
  <2>3. ASSUME NEW a \in Addresses \ broken' PROVE RuleInv(a)'
    <3>0. a \notin broken
      BY <1>1, <2>3
    <3>1. CASE a # b
      <4>1. rules'[a] = rules[a] /\ until'[a] = until[a]
        BY <1>5, <1>9, <2>2, <2>3, <3>1, RemovedType
      <4>2. RuleInv(a)
        BY <1>1, <2>3, <3>0 DEF RulesInv, TypeOK
      <4> QED
        BY <1>2, <1>3, <1>4, <3>1, <4>1, <4>2, RuleKept
    <3>2. CASE a = b
      <4>1. rules[a]["in"] \in {0, 1} /\ rules[a]["out"] = 0 /\ a \notin Stuck(b, kept)
        BY <1>6, <1>1, <2>2, <2>3, <3>0, <3>2 DEF Add, At
      <4>2. rules'[a]["in"] = 0 /\ rules'[a]["out"] = 0
        BY <2>2, <3>2, <4>1, RemovedType DEF Less, Directions
      <4>3. until'[a] = NoBlock
        BY <1>5, <1>9, <3>2
      <4>4. \A u \in Slots : a \in Own(u)' => task'[u].step \notin {"in", "out"}
        BY <1>3, <1>6, <2>1, <3>0, <3>2
      <4> QED
        BY <4>2, <4>3, <4>4 DEF RuleInv
    <3> QED
      BY <3>1, <3>2
  <2> QED
    BY <1>1, <2>3 DEF RulesInv
<1> QED
  BY <1>2, <1>7, <1>8, <1>9 DEF Add, At

LEMMA DeleteRules ==
  ASSUME TypeOK, TaskInv, ApartInv, RulesInv, NEW t \in Slots, Delete(t)
  PROVE  RulesInv'
<1>1. /\ Moves(t) /\ os # "macos" /\ task[t].kind \notin {"none", "restore", "block"}
      /\ os' = os /\ broken \subseteq broken'
  BY RuleMoves, StepTells DEF Delete, At, Moves
<1>2. Unblocks(Name(t)) \subseteq Own(t)
  BY <1>1, NamesOne
<1>3. /\ \A u \in Slots : u # t => task'[u] = task[u] /\ Own(u)' = Own(u)
      /\ Own(t)' \subseteq Own(t)
  <2>1. \A u \in Slots : u # t => task'[u] = task[u]
    BY <1>1 DEF Moves
  <2>2. Own(t)' \subseteq Own(t)
    BY <1>1, OwnOf, IdleTask DEF Moves
  <2> QED
    BY <2>1, <2>2, OwnOf
<1>4. /\ rules \in [Addresses -> [Directions -> Nat]]
      /\ until \in [Addresses -> Nat \union {Forever}]
  BY DEF TypeOK, FirewallType, HistoryType
<1>5. task[t].step \notin {"in", "out"} /\ task'[t].step \notin {"in", "out"}
  <2>1. task'[t] = Idle
    BY <1>1, FirewallDoneType DEF Delete, FirewallFails, TypeOK
  <2> QED
    BY <2>1, IdleTask DEF Delete, At
<1>6. ASSUME NEW a \in Addresses \ broken', rules'[a] = rules[a], until'[a] = until[a]
      PROVE  RuleInv(a)'
  <2>1. RuleInv(a)
    BY <1>1, <1>6 DEF RulesInv, TypeOK
  <2> QED
    BY <1>3, <1>5, <1>6, <2>1, RuleKept
<1>7. CASE Unblocks(Name(t)) = {} /\ FirewallDone(t) /\ UNCHANGED <<rules, broken>>
  <2>1. \A a \in Addresses : until'[a] = until[a]
    BY <1>1, <1>7, FirewallDoneType
  <2>2. \A a \in Addresses \ broken' : RuleInv(a)'
    BY <1>6, <1>7, <2>1
  <2> QED
    BY <1>1, <2>2 DEF RulesInv
<1>8. ASSUME Unblocks(Name(t)) # {}, NEW kept \in SUBSET Directions,
             rules' = RemoveOne(Address(Name(t)), kept),
             \/ FirewallFails(t, {Address(Name(t))}) /\ UNCHANGED until
             \/ FirewallDone(t) /\ broken' = broken \union Stuck(Address(Name(t)), kept)
      PROVE  RulesInv'
  <2>1. PICK b \in Addresses : b = Address(Name(t)) /\ Own(t) = {b} /\ Unblocks(Name(t)) = {b}
    BY <1>1, <1>8, NamesOne
  <2>2. \A a \in Addresses : a # b => until'[a] = until[a] /\ rules'[a] = rules[a]
    BY <1>1, <1>8, <2>1, FirewallDoneType, RemovedType
  <2>3. ASSUME b \notin broken' PROVE RuleInv(b)'
    <3>1. /\ FirewallDone(t) /\ b \notin Stuck(b, kept) /\ b \notin broken
      BY <1>8, <2>1, <2>3 DEF FirewallFails
    <3>2. \A u \in Slots : b \in Own(u) => u = t
      BY <2>1, <3>1, Alone
    <3>3. RuleInv(b)
      BY <1>1, <3>1 DEF RulesInv, TypeOK
    <3>4. rules[b]["in"] = rules[b]["out"] /\ rules[b]["in"] \in {0, 1}
      BY <1>5, <3>2, <3>3 DEF RuleInv, At
    <3>5. rules'[b]["in"] = 0 /\ rules'[b]["out"] = 0
      BY <1>8, <2>1, <3>1, <3>4, RemovedType DEF Less, Directions
    <3>6. until'[b] = NoBlock
      BY <1>1, <2>1, <3>1, FirewallDoneType
    <3>7. \A u \in Slots : b \in Own(u)' => task'[u].step \notin {"in", "out"}
      BY <1>3, <1>5, <3>2
    <3> QED
      BY <3>5, <3>6, <3>7 DEF RuleInv
  <2>4. \A a \in Addresses \ broken' : RuleInv(a)'
    BY <1>6, <2>2, <2>3
  <2> QED
    BY <1>1, <2>4 DEF RulesInv
<1> QED
  BY <1>7, <1>8 DEF Delete

LEMMA CrashRules ==
  ASSUME TypeOK, TaskInv, RulesInv, NEW reboot \in BOOLEAN, Crash(reboot)
  PROVE  RulesInv'
<1>1. \A u \in Slots : Own(u)' = {}
  BY OwnOf, IdleTask DEF Crash
<1>2. os' = os /\ os \in {"linux", "macos"}
  BY DEF Crash, TypeOK
<1>3. CASE reboot
  <2>1. rules' = [a \in Addresses |-> [i \in Directions |-> 0]]
        /\ (os = "linux" => until' = [a \in Addresses |-> NoBlock])
    BY <1>3 DEF Crash
  <2>2. ASSUME os = "linux", NEW a \in Addresses PROVE RuleInv(a)'
    BY <1>1, <2>1, <2>2 DEF RuleInv, Directions
  <2> QED
    BY <1>2, <2>1, <2>2 DEF RulesInv
<1>4. CASE ~reboot
  <2>1. UNCHANGED <<rules, until>> /\ broken \union Busy \subseteq broken'
    BY <1>4 DEF Crash
  <2>2. ASSUME os = "linux", NEW a \in Addresses \ broken' PROVE RuleInv(a)'
    <3>1. RuleInv(a) /\ a \notin Busy
      BY <2>1, <2>2 DEF RulesInv
    <3>2. \A u \in Slots : a \notin Own(u)
      BY <3>1, IdleTask DEF Own, Busy, Running
    <3> QED
      BY <1>1, <2>1, <3>1, <3>2 DEF RuleInv
  <2> QED
    BY <1>2, <2>1, <2>2 DEF RulesInv
<1> QED
  BY <1>3, <1>4

LEMMA RulesStep ==
  ASSUME TypeOK, TaskInv, ApartInv, RulesInv, LockInv, [Next]_vars
  PROVE  RulesInv'
<1>1. ASSUME NEW t \in Slots, Load(t) \/ Truncate(t) \/ Write(t) PROVE RulesInv'
  <2>1. /\ Moves(t) /\ UNCHANGED <<firewall, until>> /\ task[t].step \notin {"in", "out"}
        /\ task'[t].step \notin {"in", "out"}
    BY <1>1, LedgerMoves
  <2> QED
    BY <2>1, RulesKept DEF Moves, firewall
<1>2. ASSUME NEW t \in Slots, Lift(t) \/ Add(t) \/ Delete(t) PROVE RulesInv'
  BY <1>2, LiftRules, AddRules, DeleteRules
<1>3. ASSUME NEW t \in Slots, \/ Lock(t) \/ Enable(t) \/ LoadAnchor(t) \/ Save(t) \/ Undo(t)
                              \/ Release(t) \/ Forget(t)
      PROVE  RulesInv'
  <2>1. Moves(t) /\ UNCHANGED rules /\ os = "macos"
    BY <1>3, ListMoves
  <2> QED
    BY <2>1 DEF Moves, RulesInv
<1>4. ASSUME NEW t \in Slots, Begins(t) PROVE RulesInv'
  BY <1>4, RulesKept, IdleTask DEF Begins, firewall
<1>5. ASSUME NEW t \in Slots, Start(t) PROVE RulesInv'
  <2>1. \A u \in Slots : \/ task'[u] = task[u]
                         \/ task[u].step = "idle" /\ task'[u].step = "lock"
    <3>1. \A u \in Slots : task[u] = Idle
      BY <1>5 DEF Start, TaskInv
    <3> DEFINE r == [Idle EXCEPT !.kind = "restore", !.step = "lock"]
    <3>2. r.step = "lock"
      BY DEF Idle
    <3> HIDE DEF r
    <3>3. task' = task \/ task' = [task EXCEPT ![t] = r]
      BY <1>5 DEF Start, r
    <3> QED
      BY <3>1, <3>2, <3>3, IdleTask DEF TypeOK
  <2> QED
    BY <1>5, <2>1, RulesKept DEF Start, firewall
<1>6. ASSUME Waits PROVE RulesInv'
  BY <1>6, RulesKept DEF Waits, firewall
<1> QED
  BY <1>1, <1>2, <1>3, <1>4, <1>5, <1>6, CrashRules, StepCases

-----------------------------------------------------------------------------
(* macOS: the recorded list, the anchor and the references *)

LEMMA HoldersOwnIs ==
  /\ \A t \in Slots : holder = t => HoldersOwn = Own(t)
  /\ \A t \in Slots : holder' = t => HoldersOwn' = Own(t)'
  /\ holder = NoHolder => HoldersOwn = {}
  /\ holder' = NoHolder => HoldersOwn' = {}
<1>1. \A t \in Slots : holder = t => HoldersOwn = Own(t)
  BY DEF HoldersOwn
<1>2. \A t \in Slots : holder' = t => HoldersOwn' = Own(t)'
  BY DEF HoldersOwn
<1>3. holder = NoHolder => HoldersOwn = {}
  BY DEF HoldersOwn
<1>4. holder' = NoHolder => HoldersOwn' = {}
  BY DEF HoldersOwn
<1> QED
  BY <1>1, <1>2, <1>3, <1>4

LEMMA TokensAre ==
  /\ \A t \in Slots : Enabling(t) => Tokens = {task[t].token, task[t].previous.token}
  /\ \A t \in Slots : Enabling(t)' => Tokens' = {task'[t].token, task'[t].previous.token}
  /\ (\A t \in Slots : ~Enabling(t)) => Tokens = {}
  /\ (\A t \in Slots : ~Enabling(t)') => Tokens' = {}
<1>1. \A t \in Slots : Enabling(t) => Tokens = {task[t].token, task[t].previous.token}
  BY DEF Tokens, Enabling
<1>2. \A t \in Slots : Enabling(t)' => Tokens' = {task'[t].token, task'[t].previous.token}
  BY DEF Tokens, Enabling
<1>3. (\A t \in Slots : ~Enabling(t)) => Tokens = {}
  BY DEF Tokens
<1>4. (\A t \in Slots : ~Enabling(t)') => Tokens' = {}
  BY DEF Tokens
<1> QED
  BY <1>1, <1>2, <1>3, <1>4

LEMMA SameNames ==
  ASSUME NEW t \in Slots, task'[t].names = task[t].names
  PROVE  Name(t)' = Name(t) /\ Own(t)' = Own(t)
  BY DEF Name, Own

LEMMA SameList ==
  ASSUME NEW t \in Slots, task'[t].names = task[t].names, task'[t].kind = task[t].kind, NEW b,
         task'[t].previous.blocked = b
  PROVE  NextList(t, task[t].previous.blocked)' = NextList(t, b)
<1>1. Name(t)' = Name(t)
  BY SameNames
<1> QED
  BY <1>1 DEF NextList, Address, Unblocks

\* What an operation makes of the list: its own address at most changes.
LEMMA ListOf ==
  ASSUME TypeOK, TaskInv, NEW t \in Slots, task[t].kind # "none", NEW b \in SUBSET Addresses
  PROVE  /\ NextList(t, b) \subseteq b \union Own(t)
         /\ b \ Own(t) \subseteq NextList(t, b)
         /\ task[t].kind = "restore" => NextList(t, b) = b /\ Own(t) = {}
         /\ task[t].kind = "block" => Own(t) \subseteq NextList(t, b) /\ Own(t) # {}
         /\ task[t].kind \notin {"block", "restore"} =>
              /\ NextList(t, b) = b \ Unblocks(Name(t))
              /\ Unblocks(Name(t)) \subseteq Own(t)
              /\ Unblocks(Name(t)) # {} => Own(t) \subseteq Unblocks(Name(t))
         /\ Own(t) \subseteq Harmed(t)
         /\ task[t].kind = "restore" => Harmed(t) = Addresses
<1>1. CASE task[t].kind = "restore"
  BY <1>1 DEF TaskInv, NextList, Own, Harmed
<1>2. CASE task[t].kind # "restore"
  <2>1. /\ Own(t) = {Address(Name(t))} /\ Unblocks(Name(t)) \subseteq {Address(Name(t))}
    BY <1>2, NamesOne
  <2>2. Harmed(t) = Own(t)
    BY <1>2 DEF Harmed, Own
  <2> QED
    BY <1>2, <2>1, <2>2 DEF NextList
<1> QED
  BY <1>1, <1>2

\* What a change read is recorded, but for what is in doubt.
LEMMA ReadOf ==
  ASSUME TypeOK, RefsInv, NEW t \in Slots, ReadInv(t)
  PROVE  /\ task[t].previous.blocked \subseteq record.blocked
         /\ record.blocked \ broken \subseteq task[t].previous.blocked
         /\ task[t].previous.token \in {record.token, NoToken}
         /\ task[t].previous.token \notin leaked
  BY DEF ReadInv, NoRecord, RefsInv

LEMMA NextOf ==
  ASSUME TypeOK, TaskInv, RefsInv, NEW t \in Slots, task[t].kind # "none", ReadInv(t),
         task[t].next = NextList(t, task[t].previous.blocked),
         task[t].kind \notin {"block", "restore"} => Own(t) \subseteq Unblocks(Name(t))
  PROVE  /\ task[t].next \subseteq record.blocked \union Own(t)
         /\ record.blocked \ (Own(t) \union broken) \subseteq task[t].next
         /\ task[t].kind = "block" => Own(t) \subseteq task[t].next
         /\ task[t].kind \notin {"block", "restore"} => Own(t) \intersect task[t].next = {}
<1> DEFINE b == task[t].previous.blocked
<1>1. b \subseteq record.blocked /\ record.blocked \ broken \subseteq b /\ b \in SUBSET Addresses
  BY ReadOf DEF TypeOK, Tasks, Records
<1>2. task[t].next = NextList(t, b)
  OBVIOUS
<1> HIDE DEF b
<1> QED
  BY <1>1, <1>2, ListOf

\* A start has its lists when no operation but that start is over.
LEMMA StillRestored ==
  ASSUME NEW t \in Slots, \A u \in Slots : u # t => task'[u] = task[u], process' = process,
         task[t].kind # "restore" \/ task'[t].kind = "restore"
  PROVE  Restored' => Restored
  BY DEF Restored, Restoring

\* Only the operation that holds the lock is at a step of a change.
LEMMA HolderAlone ==
  ASSUME LockInv, NEW t \in Slots, (At(t, "lock") /\ Free) \/ task[t].step \in Changing
  PROVE  /\ \A u \in Slots : u # t => task[u].step \notin Changing /\ holder # u
         /\ holder = IF At(t, "lock") THEN NoHolder ELSE t
  BY DEF LockInv, Free, At, Changing

LEMMA LockAfter ==
  ASSUME LockInv, NEW t \in Slots, \A u \in Slots : u # t => task'[u] = task[u],
         \A u \in Slots : u # t => task[u].step \notin Changing,
         \/ holder' = NoHolder /\ task'[t].step \notin Changing
         \/ holder' = t /\ task'[t].step \in Changing /\ ChangeInv(t)'
  PROVE  LockInv'
  BY DEF LockInv

\* Steps that are none of a change.
Elsewhere ==
  /\ UNCHANGED <<os, anchor, refs, record, holder, leaked>> /\ broken \subseteq broken'
  /\ os = "macos" => until' = until /\ (Restored' => Restored)
  /\ \A u \in Slots : \/ task'[u] = task[u]
                      \/ task[u].step \notin Changing /\ task'[u].step \notin Changing

BlocklistInv == LockInv /\ ListInv /\ RefsInv

LEMMA ChangeKept ==
  ASSUME NEW t \in Slots, ChangeInv(t), task'[t] = task[t],
         UNCHANGED <<anchor, refs, record, leaked>>, broken \subseteq broken'
  PROVE  ChangeInv(t)'
<1>1. /\ Name(t)' = Name(t) /\ Own(t)' = Own(t) /\ Unblocks(Name(t))' = Unblocks(Name(t))
      /\ NextList(t, task[t].previous.blocked)' = NextList(t, task[t].previous.blocked)
  BY SameNames, SameList DEF Unblocks
<1>2. ReadInv(t) => ReadInv(t)'
  BY DEF ReadInv
<1> QED
  BY <1>1, <1>2 DEF ChangeInv, Saved, At

LEMMA ElsewhereStep ==
  ASSUME BlocklistInv, Elsewhere
  PROVE  BlocklistInv'
<1>1. ASSUME NEW u \in Slots, holder = u PROVE task'[u] = task[u] /\ Own(u)' = Own(u)
  <2>1. task'[u] = task[u]
    BY <1>1 DEF BlocklistInv, LockInv, Elsewhere
  <2> QED
    BY <2>1, SameNames
<1>2. LockInv'
  <2>1. ASSUME NEW u \in Slots, holder = u PROVE ChangeInv(u)'
    BY <1>1, <2>1, ChangeKept DEF BlocklistInv, LockInv, Elsewhere
  <2>2. ASSUME NEW u \in Slots PROVE task'[u].step \in Changing <=> holder' = u
    BY <2>2 DEF BlocklistInv, LockInv, Elsewhere
  <2> QED
    BY <2>1, <2>2 DEF Elsewhere, LockInv
<1>3. HoldersOwn' = HoldersOwn
  BY <1>1 DEF HoldersOwn, Elsewhere
<1>4. ListInv'
  <2>1. \A u \in Slots : holder = u => (Saved(u)' <=> Saved(u)) /\ (At(u, "forget")' <=> At(u, "forget"))
    BY <1>1 DEF Saved, At
  <2> SUFFICES ASSUME os = "macos" PROVE ListInv'
    BY DEF ListInv, Elsewhere
  <2>2. \A a \in Addresses \ broken' :
         \/ until'[a] # NoBlock <=> a \in record'.blocked
         \/ \E t \in Slots : holder' = t /\ Saved(t)' /\ a \in Own(t)'
    BY <1>1, <2>1 DEF BlocklistInv, ListInv, Elsewhere
  <2>3. anchor' \ broken' \subseteq record'.blocked \union HoldersOwn'
    BY <1>3 DEF BlocklistInv, ListInv, Elsewhere
  <2>4. Restored' =>
         /\ record'.blocked \ broken' \subseteq anchor' \union HoldersOwn'
         /\ \/ record'.blocked \subseteq broken' \/ record'.token \in refs'
            \/ record'.token = NoToken /\ leaked' # {}
            \/ \E t \in Slots : holder' = t /\ At(t, "forget")'
    BY <1>3, <2>1 DEF BlocklistInv, ListInv, Elsewhere
  <2> QED
    BY <2>2, <2>3, <2>4 DEF ListInv
<1>5. RefsInv'
  <2>1. Tokens' = Tokens
    <3>1. \A u \in Slots : Enabling(u)' <=> Enabling(u)
      BY <1>1 DEF Enabling, Elsewhere, At
    <3>2. CASE \E u \in Slots : Enabling(u)
      BY <1>1, <3>1, <3>2, TokensAre DEF Enabling
    <3>3. CASE \A u \in Slots : ~Enabling(u)
      BY <3>1, <3>3, TokensAre
    <3> QED
      BY <3>2, <3>3
  <2> QED
    BY <2>1 DEF BlocklistInv, RefsInv, Elsewhere
<1> QED
  BY <1>2, <1>4, <1>5 DEF BlocklistInv

LEMMA ElsewhereSteps ==
  ASSUME TypeOK, TaskInv, NEW t \in Slots,
         \/ Load(t) \/ Truncate(t) \/ Write(t) \/ Lift(t) \/ Add(t) \/ Delete(t)
         \/ Begins(t) \/ Start(t) \/ Waits
  PROVE  Elsewhere
<1>1. CASE Load(t) \/ Truncate(t) \/ Write(t)
  <2>1. /\ Moves(t) /\ UNCHANGED <<firewall, until, leaked>>
        /\ task[t].step \notin Changing /\ task'[t].step \notin Changing
        /\ task[t].step \in {"load", "truncate", "write"}
    BY <1>1, LedgerMoves DEF Changing
  <2>2. task[t].kind # "restore"
    BY <2>1, StepTells
  <2>3. Restored' => Restored
    BY <2>1, <2>2, StillRestored DEF Moves
  <2> QED
    BY <2>1, <2>3 DEF Moves, Elsewhere, firewall
<1>2. CASE Lift(t) \/ Add(t) \/ Delete(t)
  <2>1. /\ Moves(t) /\ UNCHANGED <<anchor, refs, record, holder, leaked>> /\ os # "macos"
        /\ task[t].step \notin Changing /\ task'[t].step \notin Changing
    BY <1>2, RuleMoves DEF Changing
  <2> QED
    BY <2>1 DEF Moves, Elsewhere
<1>3. CASE Begins(t)
  <2>1. Restored' => Restored
    BY <1>3, StillRestored, IdleTask DEF Begins
  <2> QED
    BY <1>3, <2>1, IdleTask DEF Begins, Elsewhere, Changing, firewall
<1>4. CASE Start(t)
  <2>1. \A u \in Slots : task[u] = Idle
    BY <1>4 DEF Start, TaskInv
  <2>2. UNCHANGED <<os, anchor, refs, record, holder, leaked, until, broken>>
    BY <1>4 DEF Start, firewall
  <2>3. CASE os = "linux"
    BY <1>4, <2>1, <2>2, <2>3 DEF Elsewhere, Start
  <2>4. CASE os # "linux"
    <3> DEFINE r == [Idle EXCEPT !.kind = "restore", !.step = "lock"]
    <3>1. r.step = "lock" /\ r.kind = "restore"
      BY DEF Idle
    <3>2. task' = [task EXCEPT ![t] = r]
      BY <1>4, <2>4 DEF Start
    <3> HIDE DEF r
    <3>3. task'[t] = r /\ \A u \in Slots : u # t => task'[u] = task[u]
      BY <3>2 DEF TypeOK
    <3>4. ~Restored'
      BY <3>1, <3>3 DEF Restored, Restoring
    <3> QED
      BY <2>1, <2>2, <3>1, <3>3, <3>4, IdleTask DEF Elsewhere, Changing
  <2> QED
    BY <2>3, <2>4
<1>5. CASE Waits
  <2>1. Restored' => Restored
    BY <1>5 DEF Waits, Restored, Restoring
  <2> QED
    BY <1>5, <2>1 DEF Waits, Elsewhere, firewall
<1> QED
  BY <1>1, <1>2, <1>3, <1>4, <1>5

LEMMA CrashList ==
  ASSUME TypeOK, TaskInv, BlocklistInv, NEW reboot \in BOOLEAN, Crash(reboot)
  PROVE  BlocklistInv'
<1>1. /\ holder' = NoHolder /\ process' = "down" /\ UNCHANGED <<os, record>>
      /\ \A u \in Slots : task'[u] = Idle
      /\ os = "macos" => broken \union Busy \subseteq broken' /\ until' = until
  BY DEF Crash
<1>2. LockInv'
  BY <1>1, IdleTask DEF LockInv, Changing
<1>3. ListInv'
  <2>1. \A u \in Slots : Own(u) \subseteq Busy
    BY IdleTask DEF Own, Busy, Running
  <2>2. anchor' \subseteq anchor
    BY DEF Crash
  <2>3. HoldersOwn \subseteq Busy
    BY <2>1 DEF HoldersOwn
  <2>4. ~Restored'
    BY <1>1 DEF Restored
  <2> SUFFICES ASSUME os = "macos" PROVE ListInv'
    BY <1>1 DEF ListInv
  <2>5. \A a \in Addresses \ broken' : until'[a] # NoBlock <=> a \in record'.blocked
    BY <1>1, <2>1 DEF BlocklistInv, ListInv
  <2>6. anchor' \ broken' \subseteq record'.blocked
    BY <1>1, <2>2, <2>3 DEF BlocklistInv, ListInv
  <2> QED
    BY <2>4, <2>5, <2>6 DEF ListInv
<1>4. RefsInv'
  <2>1. CASE reboot
    <3>1. refs' = {} /\ leaked' = {} /\ IsFiniteSet({})
      BY <2>1, FS_EmptySet DEF Crash
    <3> QED
      BY <1>1, <3>1 DEF RefsInv, BlocklistInv
  <2>2. CASE ~reboot
    <3>1. refs' = refs /\ leaked' = leaked \union (refs \ {record.token})
      BY <2>2 DEF Crash
    <3> QED
      BY <1>1, <3>1 DEF RefsInv, BlocklistInv
  <2> QED
    BY <2>1, <2>2
<1> QED
  BY <1>2, <1>3, <1>4 DEF BlocklistInv

\* A change is over, or one that began goes on.
LEMMA ChangeEnds ==
  ASSUME LockInv, NEW t \in Slots, (At(t, "lock") /\ Free) \/ task[t].step \in Changing,
         \A u \in Slots : u # t => task'[u] = task[u],
         holder' = NoHolder, task'[t].step \in {"idle", "load"}
  PROVE  LockInv' /\ HoldersOwn' = {} /\ Tokens' = {}
<1>1. LockInv'
  BY HolderAlone, LockAfter DEF Changing
<1>2. \A u \in Slots : ~Enabling(u)'
  BY DEF Enabling
<1> QED
  BY <1>1, <1>2, HoldersOwnIs, TokensAre

LEMMA LockStep ==
  ASSUME TypeOK, TaskInv, BlocklistInv, NEW t \in Slots, Lock(t)
  PROVE  BlocklistInv'
<1>1. /\ Moves(t) /\ os = "macos" /\ task[t].kind # "none" /\ task[t].kind \in Kinds
      /\ UNCHANGED <<os, anchor, refs, record, leaked, process>> /\ task[t].token = NoToken
      /\ At(t, "lock") /\ Free /\ holder = NoHolder /\ LockInv /\ RefsInv
  BY ListMoves DEF Lock, Moves, TypeOK, Tasks, BlocklistInv, Free, TaskInv, At, Changing
<1>2. HoldersOwn = {} /\ \A u \in Slots : ~Enabling(u) /\ holder # u
  BY <1>1, HoldersOwnIs DEF Enabling
<1>3. Tokens = {}
  BY <1>2, TokensAre
<1>4. /\ \A a \in Addresses \ broken : until[a] # NoBlock <=> a \in record.blocked
      /\ anchor \ broken \subseteq record.blocked
      /\ Restored => /\ record.blocked \ broken \subseteq anchor
                     /\ \/ record.blocked \subseteq broken \/ record.token \in refs
                        \/ record.token = NoToken /\ leaked # {}
  BY <1>1, <1>2 DEF BlocklistInv, ListInv
<1>5. task[t].kind # "restore" => (Restored' => Restored)
  BY <1>1, StillRestored DEF Moves
<1>6. PICK current \in {record, NoRecord} :
        /\ ReadRecord(current)
        /\ \/ /\ NextList(t, current.blocked) = current.blocked /\ task[t].kind # "block"
              /\ task[t].kind # "restore" \/ NextList(t, current.blocked) = {}
              /\ FirewallDone(t) /\ UNCHANGED holder
           \/ /\ ~(/\ NextList(t, current.blocked) = current.blocked /\ task[t].kind # "block"
                   /\ task[t].kind # "restore" \/ NextList(t, current.blocked) = {})
              /\ holder' = t
              /\ task' = [task EXCEPT ![t].next = NextList(t, current.blocked), ![t].previous = current,
                          ![t].step = IF NextList(t, current.blocked) = {} THEN "anchor" ELSE "enable"]
              /\ UNCHANGED until
  BY DEF Lock
<1>7. /\ current.blocked \subseteq record.blocked /\ current.blocked \subseteq Addresses
      /\ current = record \/ (current = NoRecord /\ record.blocked \subseteq broken')
      /\ broken \subseteq broken' /\ record.blocked \ broken' \subseteq current.blocked
  <2>1. current \in Records /\ broken \subseteq broken'
    BY <1>6, FaultsCounted
  <2>2. current = record \/ (current = NoRecord /\ record.blocked \subseteq broken')
    BY <1>6 DEF ReadRecord
  <2>3. current = NoRecord => current.blocked = {}
    BY DEF NoRecord
  <2> QED
    BY <2>1, <2>2, <2>3 DEF Records
<1> DEFINE next == NextList(t, current.blocked)
<1>8. /\ task[t].kind = "block" => next # {}
      /\ task[t].kind \notin {"block", "restore"} =>
           /\ next = current.blocked \ Unblocks(Name(t))
           /\ Unblocks(Name(t)) # {} => Own(t) \subseteq Unblocks(Name(t))
      /\ task[t].kind = "restore" => next = current.blocked
  <2> DEFINE b == current.blocked
  <2>1. b \in SUBSET Addresses
    BY <1>7
  <2> HIDE DEF b
  <2>2. /\ task[t].kind = "restore" => NextList(t, b) = b
        /\ task[t].kind = "block" => Own(t) \subseteq NextList(t, b) /\ Own(t) # {}
        /\ task[t].kind \notin {"block", "restore"} =>
             /\ NextList(t, b) = b \ Unblocks(Name(t))
             /\ Unblocks(Name(t)) # {} => Own(t) \subseteq Unblocks(Name(t))
    BY <1>1, <2>1, ListOf, Zenon
  <2>3. task[t].kind = "block" => NextList(t, b) # {}
    BY <2>2
  <2> QED
    BY <2>2, <2>3 DEF b
<1>9. CASE /\ next = current.blocked /\ task[t].kind # "block"
           /\ task[t].kind # "restore" \/ next = {}
           /\ FirewallDone(t) /\ UNCHANGED holder
  <2>1. /\ task'[t].step \in {"idle", "load"}
        /\ task[t].kind = "restore" => until' = until
        /\ task[t].kind \notin {"restore", "block"} =>
              \A a \in Addresses : IF a \in Unblocks(Name(t)) THEN until'[a] = NoBlock
                                                              ELSE until'[a] = until[a]
    BY <1>1, <1>9, FirewallDoneType, IdleTask
  <2>2. LockInv' /\ HoldersOwn' = {} /\ Tokens' = {}
    BY <1>1, <1>9, <2>1, ChangeEnds DEF Moves
  <2>3. \A a \in Addresses \ broken' : until'[a] # NoBlock <=> a \in record'.blocked
    <3>1. CASE task[t].kind = "restore"
      BY <1>1, <1>4, <1>7, <2>1, <3>1
    <3>2. CASE task[t].kind # "restore"
      BY <1>1, <1>4, <1>7, <1>8, <1>9, <2>1, <3>2
    <3> QED
      BY <3>1, <3>2
  <2>4. Restored' => /\ record'.blocked \ broken' \subseteq anchor'
                     /\ \/ record'.blocked \subseteq broken' \/ record'.token \in refs'
                        \/ record'.token = NoToken /\ leaked' # {}
    <3>1. CASE task[t].kind = "restore"
      <4>1. record.blocked \subseteq broken'
        BY <1>7, <1>9, <3>1
      <4> QED
        BY <1>1, <4>1
    <3>2. CASE task[t].kind # "restore"
      BY <1>1, <1>4, <1>5, <1>7, <3>2
    <3> QED
      BY <3>1, <3>2
  <2>5. ListInv'
    BY <1>1, <1>4, <1>7, <2>2, <2>3, <2>4 DEF ListInv
  <2>6. RefsInv'
    BY <1>1, <1>3, <1>7, <2>2 DEF RefsInv
  <2> QED
    BY <2>2, <2>5, <2>6 DEF BlocklistInv
<1>10. CASE /\ ~(/\ next = current.blocked /\ task[t].kind # "block"
                 /\ task[t].kind # "restore" \/ next = {})
            /\ holder' = t
            /\ task' = [task EXCEPT ![t].next = next, ![t].previous = current,
                                    ![t].step = IF next = {} THEN "anchor" ELSE "enable"]
            /\ UNCHANGED until
  <2> DEFINE r == [task[t] EXCEPT !.next = next, !.previous = current,
                                  !.step = IF next = {} THEN "anchor" ELSE "enable"]
  <2>1. /\ r.step = IF next = {} THEN "anchor" ELSE "enable"
        /\ r.next = next /\ r.previous = current /\ r.token = task[t].token
        /\ r.kind = task[t].kind /\ r.names = task[t].names
    BY DEF TypeOK, Tasks
  <2>2. task'[t] = r /\ \A u \in Slots : u # t => task'[u] = task[u]
    BY <1>10 DEF TypeOK
  <2> HIDE DEF r
  <2>3. /\ task'[t].step = IF next = {} THEN "anchor" ELSE "enable"
        /\ task'[t].next = next /\ task'[t].previous = current /\ task'[t].token = NoToken
        /\ task'[t].kind = task[t].kind /\ task'[t].names = task[t].names
    BY <1>1, <2>1, <2>2
  <2>4. /\ Name(t)' = Name(t) /\ Own(t)' = Own(t)
        /\ NextList(t, task[t].previous.blocked)' = next
        /\ Unblocks(Name(t))' = Unblocks(Name(t))
    BY <1>1, <2>3, SameNames, SameList DEF Unblocks
  <2>5. ChangeInv(t)'
    <3>1. task[t].kind \in {"block", "restore"} => next # {}
      BY <1>1, <1>8, <1>10
    <3>2. task[t].kind \notin {"block", "restore"} => Own(t) \subseteq Unblocks(Name(t))
      BY <1>1, <1>8, <1>10
    <3>3. ~Saved(t)' /\ ~At(t, "forget")'
      BY <2>3 DEF Saved, At
    <3>4. ReadInv(t)'
      BY <1>1, <1>7, <2>3 DEF ReadInv
    <3>5. next = {} => current = record
      <4>1. SUFFICES ASSUME next = {}, current = NoRecord PROVE FALSE
        BY <1>7
      <4>2. current.blocked = {}
        BY <4>1 DEF NoRecord
      <4> QED
        BY <1>8, <1>10, <4>1, <4>2
    <3>6. /\ task'[t].step = IF task'[t].next = {} THEN "anchor" ELSE "enable"
          /\ task'[t].next = NextList(t, task[t].previous.blocked)'
          /\ task'[t].next = {} => task'[t].previous = record'
          /\ task'[t].kind \in {"block", "restore"} => task'[t].next # {}
          /\ task'[t].kind \notin {"block", "restore"} => Own(t)' \subseteq Unblocks(Name(t))'
      BY <1>1, <2>3, <2>4, <3>1, <3>2, <3>5
    <3> HIDE DEF next
    <3> QED
      BY <2>3, <3>3, <3>4, <3>6 DEF ChangeInv, At
  <2>6. LockInv'
    BY <1>1, <1>10, <2>2, <2>3, <2>5, HolderAlone, LockAfter DEF At, Changing
  <2>7. \A u \in Slots : ~Enabling(u)'
    BY <1>10, <2>3 DEF Enabling, At
  <2>8. Restored' => Restored
    BY <1>1, <2>2, <2>3, StillRestored
  <2>9. ListInv'
    BY <1>1, <1>4, <1>7, <1>10, <2>8 DEF ListInv
  <2>10. RefsInv'
    BY <1>1, <1>3, <1>7, <2>7, TokensAre DEF RefsInv
  <2> QED
    BY <2>6, <2>9, <2>10 DEF BlocklistInv
<1> QED
  BY <1>6, <1>9, <1>10

\* What is known of the change under way, one conjunct after the other.
LEMMA Holding ==
  ASSUME TypeOK, TaskInv, BlocklistInv, NEW t \in Slots, task[t].step \in Changing
  PROVE  /\ holder = t /\ ChangeInv(t) /\ os = "macos" /\ task[t].kind \in Kinds \ {"none"}
         /\ HoldersOwn = Own(t) /\ LockInv /\ RefsInv
         /\ \A u \in Slots : u # t => holder # u /\ ~Enabling(u) /\ task[u].step \notin Changing
         /\ Tokens = IF Enabling(t) THEN {task[t].token, task[t].previous.token} ELSE {}
         /\ task[t].kind = "restore" => ~Restored
<1>1. /\ holder = t /\ ChangeInv(t) /\ os = "macos" /\ task[t].kind \in Kinds \ {"none"}
      /\ HoldersOwn = Own(t) /\ LockInv /\ RefsInv
      /\ \A u \in Slots : u # t => holder # u /\ ~Enabling(u) /\ task[u].step \notin Changing
  BY StepTells, HoldersOwnIs DEF BlocklistInv, LockInv, Enabling, TypeOK, Tasks
<1>2. Tokens = IF Enabling(t) THEN {task[t].token, task[t].previous.token} ELSE {}
  BY <1>1, TokensAre
<1>3. task[t].kind = "restore" => ~Restored
  BY DEF Restored, Restoring
<1> QED
  BY <1>1, <1>2, <1>3

\* A change that fails leaves its own address in doubt, and nothing else.
LEMMA ChangeFails ==
  ASSUME TypeOK, TaskInv, BlocklistInv, NEW t \in Slots, task[t].step \in Changing, ~Saved(t),
         FirewallFails(t, Harmed(t)), holder' = NoHolder,
         UNCHANGED <<os, process, record, until>>,
         anchor' \in {anchor, task[t].previous.blocked},
         record.token \in refs => record.token \in refs',
         IsFiniteSet(refs'), NoToken \notin refs',
         leaked \subseteq leaked', leaked' \subseteq refs' \ {record.token},
         broken = {} => refs' \ leaked' \subseteq {record.token},
         At(t, "forget") => record.blocked \subseteq Own(t)
  PROVE  BlocklistInv'
<1>1. /\ holder = t /\ os = "macos" /\ task[t].kind \in Kinds \ {"none"} /\ ReadInv(t)
      /\ HoldersOwn = Own(t) /\ LockInv /\ RefsInv
  BY Holding DEF ChangeInv
<1>2. /\ task'[t] = Idle /\ \A u \in Slots : u # t => task'[u] = task[u]
      /\ broken' = broken \union Harmed(t) /\ Own(t) \subseteq Harmed(t)
      /\ task[t].kind = "restore" => Harmed(t) = Addresses
  <2>1. Own(t) \subseteq Harmed(t) /\ (task[t].kind = "restore" => Harmed(t) = Addresses)
    BY <1>1, ListOf
  <2> QED
    BY <2>1 DEF FirewallFails, TypeOK
<1>3. LockInv' /\ HoldersOwn' = {} /\ Tokens' = {}
  BY <1>1, <1>2, ChangeEnds, IdleTask
<1>4. /\ \A a \in Addresses \ broken : until[a] # NoBlock <=> a \in record.blocked
      /\ anchor \ broken \subseteq record.blocked \union Own(t)
      /\ Restored => /\ record.blocked \ broken \subseteq anchor \union Own(t)
                     /\ \/ record.blocked \subseteq broken \/ record.token \in refs
                        \/ record.token = NoToken /\ leaked # {}
                        \/ At(t, "forget")
  BY <1>1 DEF BlocklistInv, ListInv
<1>5. record.blocked \subseteq Addresses
  BY DEF TypeOK, FirewallType, Records
<1>6. /\ task[t].previous.blocked \subseteq record.blocked
      /\ record.blocked \ broken \subseteq task[t].previous.blocked
  BY <1>1, ReadOf
<1>7. ListInv'
  <2>1. \A a \in Addresses \ broken' : until'[a] # NoBlock <=> a \in record'.blocked
    BY <1>2, <1>4
  <2>2. anchor' \ broken' \subseteq record'.blocked
    BY <1>2, <1>4, <1>6
  <2>3. Restored' => /\ record'.blocked \ broken' \subseteq anchor'
                     /\ \/ record'.blocked \subseteq broken' \/ record'.token \in refs'
                        \/ record'.token = NoToken /\ leaked' # {}
    <3>1. CASE task[t].kind = "restore"
      BY <1>2, <1>5, <3>1
    <3>2. CASE task[t].kind # "restore"
      <4>1. Restored' => Restored
        BY <1>2, <3>2, StillRestored
      <4> QED
        BY <1>2, <1>4, <1>6, <4>1
    <3> QED
      BY <3>1, <3>2
  <2> QED
    BY <1>3, <2>1, <2>2, <2>3 DEF ListInv
<1>8. RefsInv'
  <2>1. broken' = {} => broken = {}
    BY <1>2
  <2> QED
    BY <1>1, <1>3, <2>1 DEF RefsInv
<1> QED
  BY <1>3, <1>7, <1>8 DEF BlocklistInv

\* A step within a change.
LEMMA ChangeGoesOn ==
  ASSUME TypeOK, TaskInv, BlocklistInv, NEW t \in Slots, task[t].step \in Changing,
         task' = [task EXCEPT ![t] = task'[t]],
         task'[t].names = task[t].names, task'[t].kind = task[t].kind,
         task'[t].previous = task[t].previous,
         task'[t].step \in Changing, holder' = holder, UNCHANGED <<os, broken, process, until>>
  PROVE  /\ ChangeInv(t)' => LockInv'
         /\ HoldersOwn' = Own(t) /\ Own(t)' = Own(t) /\ Name(t)' = Name(t)
         /\ Unblocks(Name(t))' = Unblocks(Name(t))
         /\ NextList(t, task[t].previous.blocked)' = NextList(t, task[t].previous.blocked)
         /\ record' = record => ReadInv(t)' = ReadInv(t)
         /\ Tokens' = IF Enabling(t)' THEN {task'[t].token, task'[t].previous.token} ELSE {}
         /\ Restored' => Restored
<1>1. holder = t /\ LockInv /\ \A u \in Slots : u # t => task[u].step \notin Changing
  BY Holding
<1>2. \A u \in Slots : u # t => task'[u] = task[u]
  BY DEF TypeOK
<1>3. ChangeInv(t)' => LockInv'
  BY <1>1, <1>2, LockAfter
<1>4. /\ Own(t)' = Own(t) /\ Name(t)' = Name(t) /\ Unblocks(Name(t))' = Unblocks(Name(t))
      /\ NextList(t, task[t].previous.blocked)' = NextList(t, task[t].previous.blocked)
  BY SameNames, SameList DEF Unblocks
<1>5. HoldersOwn' = Own(t)
  BY <1>1, <1>4, HoldersOwnIs
<1>6. \A u \in Slots : u # t => ~Enabling(u)'
  BY <1>1 DEF Enabling
<1>7. Tokens' = IF Enabling(t)' THEN {task'[t].token, task'[t].previous.token} ELSE {}
  BY <1>6, TokensAre
<1>8. Restored' => Restored
  BY <1>2, StillRestored
<1>9. record' = record => ReadInv(t)' = ReadInv(t)
  BY DEF ReadInv
<1> QED
  BY <1>3, <1>4, <1>5, <1>7, <1>8, <1>9

LEMMA EnableStep ==
  ASSUME TypeOK, TaskInv, BlocklistInv, NEW t \in Slots, Enable(t)
  PROVE  BlocklistInv'
<1>1. At(t, "enable") /\ task[t].step \in Changing /\ ~Saved(t) /\ ~Enabling(t)
  BY DEF Enable, At, Changing, Saved, Enabling
<1>2. /\ holder = t /\ ChangeInv(t) /\ os = "macos" /\ task[t].kind \in Kinds \ {"none"}
      /\ HoldersOwn = Own(t) /\ LockInv /\ RefsInv /\ Tokens = {}
  BY <1>1, Holding
<1>3. /\ UNCHANGED <<os, process, anchor, record, until>>
      /\ IsFiniteSet(refs) /\ refs \subseteq Nat
  BY <1>2 DEF Enable, RefsInv, TypeOK, FirewallType
<1>4. ASSUME NEW k \in Nat, NEW r, task' = [task EXCEPT ![t] = r],
             r.step = "anchor", r.token = k, r.next = task[t].next, r.previous = task[t].previous,
             r.kind = task[t].kind, r.names = task[t].names,
             refs' = refs \union {Unused}, UNCHANGED <<holder, broken>>,
             \/ k = Unused /\ leaked' = leaked
             \/ k = NoToken /\ leaked' = leaked \union {Unused}
      PROVE  BlocklistInv'
  <2>1. PICK x \in Nat \ {NoToken} :
          /\ x \notin refs /\ x # record.token /\ refs' = refs \union {x}
          /\ \/ k = x /\ leaked' = leaked
             \/ k = NoToken /\ leaked' = leaked \union {x}
    BY <1>3, <1>4, UnusedIsFree
  <2>2. task'[t] = r /\ task' = [task EXCEPT ![t] = task'[t]]
    BY <1>4 DEF TypeOK
  <2>3. /\ task'[t].step = "anchor" /\ task'[t].next = task[t].next /\ task'[t].token = k
        /\ task'[t].previous = task[t].previous /\ task'[t].kind = task[t].kind
        /\ task'[t].names = task[t].names
    BY <1>4, <2>2
  <2>4. /\ ChangeInv(t)' => LockInv'
        /\ HoldersOwn' = Own(t) /\ Own(t)' = Own(t) /\ Name(t)' = Name(t)
        /\ Unblocks(Name(t))' = Unblocks(Name(t))
        /\ NextList(t, task[t].previous.blocked)' = NextList(t, task[t].previous.blocked)
        /\ record' = record => ReadInv(t)' = ReadInv(t)
        /\ Tokens' = IF Enabling(t)' THEN {task'[t].token, task'[t].previous.token} ELSE {}
        /\ Restored' => Restored
    BY <1>1, <1>3, <1>4, <2>2, <2>3, ChangeGoesOn DEF Changing
  <2>5. /\ task[t].next = NextList(t, task[t].previous.blocked) /\ task[t].next # {}
        /\ task[t].kind \notin {"block", "restore"} => Own(t) \subseteq Unblocks(Name(t))
        /\ ReadInv(t)
    BY <1>1, <1>2 DEF ChangeInv, At
  <2>6. /\ task[t].previous.token \in {record.token, NoToken}
        /\ x \notin leaked /\ leaked \subseteq refs \ {record.token}
    BY <1>2, <2>1, <2>5, ReadOf DEF RefsInv
  <2>7. ~Saved(t)' /\ Enabling(t)' /\ At(t, "anchor")'
    BY <1>2, <1>4, <2>3, <2>5 DEF Saved, At, Enabling
  <2>8. ChangeInv(t)'
    <3>1. IF task'[t].token = NoToken THEN leaked' # {}
          ELSE /\ task'[t].token \in refs' \ leaked' /\ task'[t].token # task'[t].previous.token
               /\ task'[t].token # record'.token
      BY <1>3, <2>1, <2>3, <2>6
    <3>2. /\ ReadInv(t)' /\ task'[t].next = NextList(t, task[t].previous.blocked)'
          /\ task'[t].next # {}
          /\ task'[t].kind \notin {"block", "restore"} => Own(t)' \subseteq Unblocks(Name(t))'
      BY <1>3, <2>3, <2>4, <2>5
    <3> QED
      BY <2>3, <2>7, <3>1, <3>2 DEF ChangeInv, At
  <2>9. ListInv'
    <3>1. ~Saved(t)' /\ ~Saved(t) /\ ~At(t, "forget")
      BY <1>1, <2>7 DEF At
    <3>2. \A u \in Slots : holder = u <=> u = t
      BY <1>2
    <3>3. \A a \in Addresses \ broken' : until'[a] # NoBlock <=> a \in record'.blocked
      BY <1>2, <1>3, <1>4, <3>1, <3>2 DEF BlocklistInv, ListInv
    <3>4. anchor' \ broken' \subseteq record'.blocked \union HoldersOwn'
      BY <1>2, <1>3, <1>4, <2>4 DEF BlocklistInv, ListInv
    <3>5. Restored' => /\ record'.blocked \ broken' \subseteq anchor' \union HoldersOwn'
                       /\ \/ record'.blocked \subseteq broken' \/ record'.token \in refs'
                          \/ record'.token = NoToken /\ leaked' # {}
      BY <1>2, <1>3, <1>4, <2>1, <2>4, <3>1, <3>2 DEF BlocklistInv, ListInv
    <3> QED
      BY <3>3, <3>4, <3>5 DEF ListInv
  <2>10. RefsInv'
    <3>1. IsFiniteSet(refs') /\ NoToken \notin refs'
      BY <1>2, <1>3, <2>1, FS_AddElement DEF RefsInv
    <3>2. broken' = {} => refs' \ leaked' \subseteq {record'.token} \union Tokens'
      BY <1>2, <1>3, <1>4, <2>1, <2>3, <2>4, <2>7 DEF RefsInv
    <3> QED
      BY <1>2, <1>3, <2>1, <2>6, <3>1, <3>2 DEF RefsInv
  <2> QED
    BY <2>4, <2>8, <2>9, <2>10 DEF BlocklistInv
<1>5. CASE holder' = NoHolder /\ FirewallFails(t, Harmed(t)) /\ UNCHANGED <<refs, leaked>>
  BY <1>1, <1>2, <1>3, <1>5, ChangeFails DEF At, RefsInv
<1>6. CASE /\ refs' = refs \union {Unused} /\ UNCHANGED <<holder, broken, leaked>>
           /\ task' = [task EXCEPT ![t].token = Unused, ![t].step = "anchor"]
  <2> DEFINE k == Unused
             r == [task[t] EXCEPT !.token = k, !.step = "anchor"]
  <2>1. /\ r.step = "anchor" /\ r.token = k /\ r.next = task[t].next
        /\ r.previous = task[t].previous /\ r.kind = task[t].kind /\ r.names = task[t].names
    BY DEF TypeOK, Tasks
  <2>2. task' = [task EXCEPT ![t] = r] /\ k \in Nat
    BY <1>3, <1>6, UnusedIsFree DEF TypeOK
  <2>3. k = Unused
    OBVIOUS
  <2> HIDE DEF k, r
  <2> QED
    BY <1>4, <1>6, <2>1, <2>2, <2>3
<1>7. CASE /\ refs' = refs \union {Unused} /\ UNCHANGED <<holder, broken>>
           /\ GoTo(t, "anchor") /\ leaked' = leaked \union {Unused}
  <2> DEFINE k == NoToken
             r == [task[t] EXCEPT !.step = "anchor"]
  <2>1. task[t].token = NoToken
    BY <1>1, <1>2 DEF ChangeInv, At
  <2>2. /\ r.step = "anchor" /\ r.token = k /\ r.next = task[t].next
        /\ r.previous = task[t].previous /\ r.kind = task[t].kind /\ r.names = task[t].names
    BY <2>1 DEF TypeOK, Tasks
  <2>3. task' = [task EXCEPT ![t] = r] /\ k \in Nat /\ k = NoToken
    BY <1>7 DEF GoTo, TypeOK
  <2> HIDE DEF k, r
  <2> QED
    BY <1>4, <1>7, <2>2, <2>3
<1> QED
  BY <1>5, <1>6, <1>7 DEF Enable

LEMMA GoesTo ==
  ASSUME TypeOK, NEW t \in Slots, NEW s, GoTo(t, s)
  PROVE  /\ task'[t].step = s /\ task'[t].next = task[t].next
         /\ task'[t].previous = task[t].previous
         /\ task'[t].token = task[t].token /\ task'[t].kind = task[t].kind
         /\ task'[t].names = task[t].names /\ task' = [task EXCEPT ![t] = task'[t]]
<1> DEFINE r == [task[t] EXCEPT !.step = s]
<1>1. /\ r.step = s /\ r.next = task[t].next /\ r.previous = task[t].previous
      /\ r.token = task[t].token /\ r.kind = task[t].kind /\ r.names = task[t].names
  BY DEF TypeOK, Tasks
<1>2. task' = [task EXCEPT ![t] = r]
  BY DEF GoTo, TypeOK
<1> HIDE DEF r
<1>3. task'[t] = r /\ task' = [task EXCEPT ![t] = task'[t]]
  BY <1>2 DEF TypeOK
<1> QED
  BY <1>1, <1>3

\* The change goes on, before the record is replaced and the references given
\* back: what an operation that has no record to change yet does to the list.
LEMMA ChangeProceeds ==
  ASSUME TypeOK, TaskInv, BlocklistInv, NEW t \in Slots, NEW s \in Changing, GoTo(t, s),
         task[t].step \in {"anchor", "save"}, holder' = holder,
         UNCHANGED <<os, leaked, broken, process, until, refs, record>>,
         anchor' \in {anchor, task[t].next},
         s \notin {"enable", "forget"}, s = "release" => task[t].next = {},
         s \in {"save", "undo"} => task[t].next # {},
         s \in {"save", "release"} => anchor' = task[t].next
  PROVE  BlocklistInv'
<1>1. task[t].step \in Changing /\ ~Saved(t) /\ ~At(t, "forget") /\ ~At(t, "enable")
  BY DEF Changing, Saved, At
<1>2. /\ holder = t /\ ChangeInv(t) /\ os = "macos" /\ task[t].kind \in Kinds \ {"none"}
      /\ HoldersOwn = Own(t) /\ LockInv /\ RefsInv
      /\ \A u \in Slots : u # t => holder # u
      /\ Tokens = IF Enabling(t) THEN {task[t].token, task[t].previous.token} ELSE {}
  BY <1>1, Holding
<1>3. /\ task'[t].step = s /\ task'[t].next = task[t].next /\ task'[t].previous = task[t].previous
      /\ task'[t].token = task[t].token /\ task'[t].kind = task[t].kind
      /\ task'[t].names = task[t].names /\ task' = [task EXCEPT ![t] = task'[t]]
  BY GoesTo
<1>4. /\ ChangeInv(t)' => LockInv'
      /\ HoldersOwn' = Own(t) /\ Own(t)' = Own(t) /\ Name(t)' = Name(t)
      /\ Unblocks(Name(t))' = Unblocks(Name(t))
      /\ NextList(t, task[t].previous.blocked)' = NextList(t, task[t].previous.blocked)
      /\ record' = record => ReadInv(t)' = ReadInv(t)
      /\ Tokens' = IF Enabling(t)' THEN {task'[t].token, task'[t].previous.token} ELSE {}
      /\ Restored' => Restored
  BY <1>1, <1>3, ChangeGoesOn
<1>6. ~Saved(t)' /\ ~At(t, "forget")' /\ ~At(t, "enable")' /\ (Enabling(t)' <=> Enabling(t))
  BY <1>1, <1>3 DEF Saved, At, Enabling
<1>7. /\ task[t].kind \in {"block", "restore"} => task[t].next # {}
      /\ task[t].kind \notin {"block", "restore"} => Own(t) \subseteq Unblocks(Name(t))
      /\ task[t].next = NextList(t, task[t].previous.blocked) /\ ReadInv(t)
      /\ task[t].next = {} => task[t].previous = record
      /\ task[t].next # {} =>
           IF task[t].token = NoToken THEN leaked # {}
           ELSE /\ task[t].token \in refs \ leaked /\ task[t].token # task[t].previous.token
                /\ task[t].token # record.token
  BY <1>1, <1>2 DEF ChangeInv
<1>8. ChangeInv(t)'
  <2>1. /\ task'[t].kind \in {"block", "restore"} => task'[t].next # {}
        /\ task'[t].kind \notin {"block", "restore"} => Own(t)' \subseteq Unblocks(Name(t))'
        /\ task'[t].next = NextList(t, task[t].previous.blocked)' /\ ReadInv(t)'
        /\ task'[t].next = {} => task'[t].previous = record'
        /\ task'[t].next # {} =>
             IF task'[t].token = NoToken THEN leaked' # {}
             ELSE /\ task'[t].token \in refs' \ leaked' /\ task'[t].token # task'[t].previous.token
                  /\ task'[t].token # record'.token
    BY <1>3, <1>4, <1>7
  <2> QED
    BY <1>3, <1>6, <2>1 DEF ChangeInv, At
<1>9. ListInv'
  <2>1. \A a \in Addresses \ broken : until[a] # NoBlock <=> a \in record.blocked
    BY <1>1, <1>2 DEF BlocklistInv, ListInv
  <2>2. anchor \ broken \subseteq record.blocked \union Own(t)
    BY <1>2 DEF BlocklistInv, ListInv
  <2>3. Restored => /\ record.blocked \ broken \subseteq anchor \union Own(t)
                    /\ \/ record.blocked \subseteq broken \/ record.token \in refs
                       \/ record.token = NoToken /\ leaked # {}
    BY <1>1, <1>2 DEF BlocklistInv, ListInv
  <2>4. task[t].next \subseteq record.blocked \union Own(t)
        /\ record.blocked \ (Own(t) \union broken) \subseteq task[t].next
    BY <1>2, <1>7, NextOf
  <2> QED
    BY <1>4, <2>1, <2>2, <2>3, <2>4 DEF ListInv
<1>10. RefsInv'
  BY <1>2, <1>3, <1>4, <1>6 DEF RefsInv
<1> QED
  BY <1>4, <1>8, <1>9, <1>10 DEF BlocklistInv

LEMMA LoadAnchorStep ==
  ASSUME TypeOK, TaskInv, BlocklistInv, NEW t \in Slots, LoadAnchor(t)
  PROVE  BlocklistInv'
<1>1. /\ task[t].step = "anchor" /\ task[t].step \in Changing /\ ~Saved(t) /\ ~At(t, "forget")
      /\ UNCHANGED <<os, leaked, process, record, until, refs>>
  BY DEF LoadAnchor, At, Changing, Saved
<1>2. /\ holder = t /\ RefsInv
      /\ Tokens = IF Enabling(t) THEN {task[t].token, task[t].previous.token} ELSE {}
  BY <1>1, Holding
<1>3. CASE /\ anchor' = task[t].next /\ UNCHANGED <<holder, broken>>
           /\ GoTo(t, IF task[t].next = {} THEN "release" ELSE "save")
  BY <1>1, <1>3, ChangeProceeds DEF Changing
<1>4. CASE /\ task[t].next = {} /\ UNCHANGED anchor
           /\ holder' = NoHolder /\ FirewallFails(t, Harmed(t))
  <2>1. broken = {} => refs' \ leaked' \subseteq {record.token}
    BY <1>1, <1>2, <1>4 DEF RefsInv, Enabling
  <2> QED
    BY <1>1, <1>2, <1>4, <2>1, ChangeFails DEF RefsInv
<1>5. CASE task[t].next # {} /\ UNCHANGED <<anchor, holder, broken>> /\ GoTo(t, "undo")
  BY <1>1, <1>5, ChangeProceeds DEF Changing
<1> QED
  BY <1>3, <1>4, <1>5 DEF LoadAnchor

LEMMA SaveStep ==
  ASSUME TypeOK, TaskInv, BlocklistInv, NEW t \in Slots, Save(t)
  PROVE  BlocklistInv'
<1>1. /\ task[t].step = "save" /\ task[t].step \in Changing /\ ~Saved(t) /\ ~At(t, "forget")
      /\ UNCHANGED <<os, process, anchor, until, refs, holder, broken>>
  BY DEF Save, At, Changing, Saved
<1>2. /\ holder = t /\ ChangeInv(t) /\ os = "macos" /\ task[t].kind \in Kinds \ {"none"}
      /\ HoldersOwn = Own(t) /\ LockInv /\ RefsInv
      /\ \A u \in Slots : u # t => holder # u
      /\ Tokens = IF Enabling(t) THEN {task[t].token, task[t].previous.token} ELSE {}
  BY <1>1, Holding
<1>3. /\ task[t].kind \in {"block", "restore"} => task[t].next # {}
      /\ task[t].kind \notin {"block", "restore"} => Own(t) \subseteq Unblocks(Name(t))
      /\ task[t].next = NextList(t, task[t].previous.blocked) /\ anchor = task[t].next
      /\ task[t].next # {} /\ ReadInv(t)
      /\ IF task[t].token = NoToken THEN leaked # {}
         ELSE /\ task[t].token \in refs \ leaked /\ task[t].token # task[t].previous.token
              /\ task[t].token # record.token
  BY <1>1, <1>2 DEF ChangeInv
<1>4. CASE GoTo(t, "undo") /\ UNCHANGED <<record, leaked>>
  BY <1>1, <1>3, <1>4, ChangeProceeds DEF Changing
<1>5. CASE /\ GoTo(t, "release") /\ record' = [blocked |-> task[t].next, token |-> task[t].token]
           /\ leaked' = leaked \union (refs \intersect ({record.token} \ {task[t].previous.token}))
  <2>1. /\ task'[t].step = "release" /\ task'[t].next = task[t].next
        /\ task'[t].previous = task[t].previous
        /\ task'[t].token = task[t].token /\ task'[t].kind = task[t].kind
        /\ task'[t].names = task[t].names /\ task' = [task EXCEPT ![t] = task'[t]]
    BY <1>5, GoesTo
  <2>2. /\ ChangeInv(t)' => LockInv'
        /\ HoldersOwn' = Own(t) /\ Own(t)' = Own(t) /\ Name(t)' = Name(t)
        /\ Unblocks(Name(t))' = Unblocks(Name(t))
        /\ Tokens' = IF Enabling(t)' THEN {task'[t].token, task'[t].previous.token} ELSE {}
    BY <1>1, <2>1, ChangeGoesOn DEF Changing
  <2>3. Saved(t)' /\ Enabling(t)' /\ Enabling(t) /\ ~At(t, "forget")'
    BY <1>1, <1>2, <1>3, <2>1 DEF Saved, At, Enabling
  <2>4. record'.blocked = task[t].next /\ record'.token = task[t].token
    BY <1>5
  <2>5. /\ task[t].kind = "block" => Own(t) \subseteq task[t].next
        /\ task[t].kind \notin {"block", "restore"} => Own(t) \intersect task[t].next = {}
        /\ task[t].next \subseteq record.blocked \union Own(t)
        /\ record.blocked \ (Own(t) \union broken) \subseteq task[t].next
    BY <1>2, <1>3, NextOf
  <2>6. /\ task[t].previous.token \notin leaked /\ leaked \subseteq refs \ {record.token}
        /\ task[t].previous.token \in {record.token, NoToken} /\ NoToken \notin refs
    BY <1>2, <1>3, ReadOf DEF RefsInv
  <2>7. /\ task[t].token = NoToken => leaked' # {}
        /\ task[t].token # NoToken =>
             task[t].token \in refs \ leaked' /\ task[t].token # task[t].previous.token
        /\ task[t].previous.token \notin leaked' /\ leaked' \subseteq refs \ {task[t].token}
    BY <1>3, <1>5, <2>6
  <2>8. ChangeInv(t)'
    <3>1. /\ record' = [blocked |-> task'[t].next, token |-> task'[t].token]
          /\ task'[t].previous.token \notin leaked'
          /\ task'[t].kind = "block" => Own(t)' \subseteq record'.blocked
          /\ task'[t].kind \notin {"block", "restore"} => Own(t)' \intersect record'.blocked = {}
      BY <1>5, <2>1, <2>2, <2>4, <2>5, <2>7
    <3>2. /\ task'[t].kind \notin {"block", "restore"} => Own(t)' \subseteq Unblocks(Name(t))'
          /\ task'[t].next # {} /\ anchor' = task'[t].next
          /\ IF task'[t].token = NoToken THEN leaked' # {}
             ELSE task'[t].token \in refs' \ leaked' /\ task'[t].token # task'[t].previous.token
      BY <1>1, <1>3, <2>1, <2>2, <2>7
    <3> QED
      BY <2>1, <2>3, <3>1, <3>2 DEF ChangeInv, At
  <2>9. ListInv'
    <3>1. \A a \in Addresses \ broken : until[a] # NoBlock <=> a \in record.blocked
      BY <1>1, <1>2 DEF BlocklistInv, ListInv
    <3>2. \A a \in Addresses \ broken' :
             \/ until'[a] # NoBlock <=> a \in record'.blocked
             \/ holder' = t /\ Saved(t)' /\ a \in Own(t)'
      BY <1>1, <1>2, <2>2, <2>3, <2>4, <2>5, <3>1
    <3>3. /\ anchor' = record'.blocked
          /\ record'.token \in refs' \/ (record'.token = NoToken /\ leaked' # {})
      BY <1>1, <1>3, <2>4, <2>7
    <3> QED
      BY <3>2, <3>3 DEF ListInv
  <2>10. RefsInv'
    <3>1. broken' = {} => refs' \ leaked' \subseteq {record'.token} \union Tokens'
      BY <1>1, <1>2, <1>5, <2>1, <2>2, <2>3, <2>4 DEF RefsInv
    <3> QED
      BY <1>1, <1>2, <1>3, <2>4, <2>7, <3>1 DEF RefsInv
  <2> QED
    BY <2>2, <2>8, <2>9, <2>10 DEF BlocklistInv
<1> QED
  BY <1>4, <1>5 DEF Save

LEMMA UndoStep ==
  ASSUME TypeOK, TaskInv, BlocklistInv, NEW t \in Slots, Undo(t)
  PROVE  BlocklistInv'
<1>1. /\ task[t].step = "undo" /\ task[t].step \in Changing /\ ~Saved(t) /\ ~At(t, "forget")
      /\ UNCHANGED <<os, process, until, record>>
      /\ holder' = NoHolder /\ FirewallFails(t, Harmed(t))
      /\ anchor' \in {anchor, task[t].previous.blocked}
  BY DEF Undo, At, Changing, Saved
<1>2. PICK refused \in BOOLEAN : GiveBack(task[t].token, refused)
  <2>1. PICK failed \in SUBSET {"anchor", "release"} :
          GiveBack(task[t].token, "release" \in failed)
    BY DEF Undo
  <2>2. ("release" \in failed) \in BOOLEAN
    OBVIOUS
  <2> QED
    BY <2>1, <2>2
<1>3. /\ holder = t /\ ChangeInv(t) /\ RefsInv
      /\ Tokens = IF Enabling(t) THEN {task[t].token, task[t].previous.token} ELSE {}
  BY <1>1, Holding
<1>4. /\ ReadInv(t) /\ task[t].next # {}
      /\ task[t].token # NoToken => task[t].token \in refs \ leaked /\ task[t].token # record.token
  BY <1>1, <1>3 DEF ChangeInv
<1>5. /\ IsFiniteSet(refs') /\ NoToken \notin refs' /\ leaked \subseteq leaked'
      /\ record.token \in refs => record.token \in refs'
      /\ leaked' \subseteq refs' \ {record.token}
  <2>1. IsFiniteSet(refs \ {task[t].token})
    BY <1>3, FS_Subset DEF RefsInv
  <2> QED
    BY <1>2, <1>3, <1>4, <2>1 DEF RefsInv, GiveBack
<1>6. broken = {} => refs' \ leaked' \subseteq {record.token}
  <2>1. task[t].previous.token \in {record.token, NoToken}
    BY <1>3, <1>4, ReadOf
  <2> QED
    BY <1>2, <1>3, <2>1 DEF RefsInv, GiveBack
<1> QED
  BY <1>1, <1>5, <1>6, ChangeFails

\* The change is over.
LEMMA ChangeSucceeds ==
  ASSUME TypeOK, TaskInv, BlocklistInv, NEW t \in Slots, task[t].step \in Changing,
         FirewallDone(t), holder' = NoHolder,
         UNCHANGED <<os, process, anchor, broken>>,
         anchor = record'.blocked,
         \A a \in Addresses \ (broken \union Own(t)) : a \in record'.blocked <=> a \in record.blocked,
         task[t].kind = "block" => Own(t) \subseteq record'.blocked,
         task[t].kind \notin {"block", "restore"} =>
           Own(t) \subseteq Unblocks(Name(t)) /\ Own(t) \intersect record'.blocked = {},
         \/ record'.blocked = {} \/ record'.token \in refs'
         \/ record'.token = NoToken /\ leaked' # {},
         Tokens' = {} => RefsInv'
  PROVE  BlocklistInv'
<1>1. /\ holder = t /\ os = "macos" /\ task[t].kind \in Kinds \ {"none"} /\ LockInv
      /\ \A u \in Slots : u # t => holder # u
  BY Holding
<1>2. /\ task'[t].step \in {"idle", "load"} /\ \A u \in Slots : u # t => task'[u] = task[u]
      /\ task[t].kind = "restore" => until' = until
      /\ task[t].kind = "block" =>
           \A a \in Addresses : IF a \in Own(t) THEN until'[a] # NoBlock ELSE until'[a] = until[a]
      /\ task[t].kind \notin {"restore", "block"} =>
           \A a \in Addresses : IF a \in Unblocks(Name(t)) THEN until'[a] = NoBlock
                                                           ELSE until'[a] = until[a]
  BY <1>1, FirewallDoneType, IdleTask
<1>3. LockInv' /\ HoldersOwn' = {} /\ Tokens' = {}
  BY <1>1, <1>2, ChangeEnds
<1>4. \A a \in Addresses \ (broken \union Own(t)) : until[a] # NoBlock <=> a \in record.blocked
  BY <1>1 DEF BlocklistInv, ListInv
<1>5. /\ task[t].kind = "restore" => Own(t) = {}
      /\ task[t].kind \notin {"block", "restore"} => Unblocks(Name(t)) \subseteq Own(t)
  BY <1>1, ListOf
<1>6. \A a \in Addresses \ broken' : until'[a] # NoBlock <=> a \in record'.blocked
  <2>1. CASE task[t].kind = "restore"
    BY <1>2, <1>4, <1>5, <2>1
  <2>2. CASE task[t].kind = "block"
    BY <1>2, <1>4, <2>2
  <2>3. CASE task[t].kind \notin {"block", "restore"}
    BY <1>2, <1>4, <1>5, <2>3
  <2> QED
    BY <2>1, <2>2, <2>3
<1>7. ListInv'
  BY <1>3, <1>6 DEF ListInv
<1> QED
  BY <1>3, <1>7 DEF BlocklistInv

LEMMA ReleaseStep ==
  ASSUME TypeOK, TaskInv, BlocklistInv, NEW t \in Slots, Release(t)
  PROVE  BlocklistInv'
<1>1. /\ task[t].step = "release" /\ task[t].step \in Changing /\ ~At(t, "forget")
      /\ UNCHANGED <<os, process, anchor, record, broken>>
  BY DEF Release, At, Changing
<1>2. PICK refused \in BOOLEAN : GiveBack(task[t].previous.token, refused)
  BY DEF Release, GivenBack
<1>3. /\ holder = t /\ ChangeInv(t) /\ os = "macos" /\ task[t].kind \in Kinds \ {"none"}
      /\ HoldersOwn = Own(t) /\ LockInv /\ RefsInv
      /\ \A u \in Slots : u # t => holder # u
      /\ Tokens = IF Enabling(t) THEN {task[t].token, task[t].previous.token} ELSE {}
  BY <1>1, Holding
<1>4. anchor = task[t].next
  BY <1>1, <1>3 DEF ChangeInv
<1>5. IsFiniteSet(refs') /\ NoToken \notin refs'
  <2>1. IsFiniteSet(refs \ {task[t].previous.token})
    BY <1>3, FS_Subset DEF RefsInv
  <2> QED
    BY <1>2, <1>3, <2>1 DEF RefsInv, GiveBack
<1>6. CASE task[t].next = {} /\ GoTo(t, "forget") /\ UNCHANGED <<holder, until>>
  <2>1. /\ task'[t].step = "forget" /\ task'[t].next = task[t].next
        /\ task'[t].previous = task[t].previous
        /\ task'[t].token = task[t].token /\ task'[t].kind = task[t].kind
        /\ task'[t].names = task[t].names /\ task' = [task EXCEPT ![t] = task'[t]]
    BY <1>6, GoesTo
  <2>2. /\ ChangeInv(t)' => LockInv'
        /\ HoldersOwn' = Own(t) /\ Own(t)' = Own(t) /\ Name(t)' = Name(t)
        /\ Unblocks(Name(t))' = Unblocks(Name(t))
        /\ NextList(t, task[t].previous.blocked)' = NextList(t, task[t].previous.blocked)
        /\ Tokens' = IF Enabling(t)' THEN {task'[t].token, task'[t].previous.token} ELSE {}
        /\ Restored' => Restored
    BY <1>1, <1>6, <2>1, ChangeGoesOn DEF Changing
  <2>3. ~Saved(t)' /\ ~Saved(t) /\ ~Enabling(t)' /\ ~Enabling(t) /\ At(t, "forget")'
    BY <1>6, <2>1 DEF Saved, At, Enabling
  <2>4. /\ task[t].kind \notin {"block", "restore"} /\ Own(t) \subseteq Unblocks(Name(t))
        /\ task[t].next = NextList(t, task[t].previous.blocked) /\ task[t].previous = record
    BY <1>3, <1>6, <2>3 DEF ChangeInv
  <2>5. ChangeInv(t)'
    <3>1. /\ ReadInv(t)' /\ task'[t].previous = record' /\ task'[t].next = {} /\ anchor' = {}
          /\ task'[t].next = NextList(t, task[t].previous.blocked)'
          /\ task'[t].kind \notin {"block", "restore"} /\ Own(t)' \subseteq Unblocks(Name(t))'
      BY <1>1, <1>4, <1>6, <2>1, <2>2, <2>4 DEF ReadInv
    <3> QED
      BY <2>1, <2>3, <3>1 DEF ChangeInv, At
  <2>6. ListInv'
    <3>1. \A a \in Addresses \ broken : until[a] # NoBlock <=> a \in record.blocked
      BY <1>3, <2>3 DEF BlocklistInv, ListInv
    <3>2. anchor \ broken \subseteq record.blocked \union Own(t)
      BY <1>3 DEF BlocklistInv, ListInv
    <3>3. Restored => record.blocked \ broken \subseteq anchor \union Own(t)
      BY <1>3 DEF BlocklistInv, ListInv
    <3> QED
      BY <1>1, <1>3, <1>6, <2>2, <2>3, <3>1, <3>2, <3>3 DEF ListInv
  <2>7. leaked' = leaked /\ refs' \in {refs, refs \ {record.token}}
    BY <1>2, <2>4 DEF GiveBack
  <2>8. RefsInv'
    BY <1>1, <1>3, <1>5, <2>2, <2>3, <2>7 DEF RefsInv
  <2> QED
    BY <2>2, <2>5, <2>6, <2>8 DEF BlocklistInv
<1>7. CASE task[t].next # {} /\ holder' = NoHolder /\ FirewallDone(t)
  <2>1. Saved(t) /\ Enabling(t)
    BY <1>1, <1>3, <1>7 DEF Saved, At, Enabling
  <2>2. /\ record.blocked = task[t].next /\ record.token = task[t].token
        /\ task[t].previous.token \notin leaked
        /\ task[t].kind = "block" => Own(t) \subseteq record.blocked
        /\ task[t].kind \notin {"block", "restore"} =>
             Own(t) \subseteq Unblocks(Name(t)) /\ Own(t) \intersect record.blocked = {}
        /\ IF task[t].token = NoToken THEN leaked # {}
           ELSE task[t].token \in refs \ leaked /\ task[t].token # task[t].previous.token
    BY <1>1, <1>3, <1>7, <2>1 DEF ChangeInv
  <2>3. /\ leaked \subseteq leaked' /\ leaked' \subseteq refs' \ {record.token}
        /\ record.token \in refs => record.token \in refs'
    BY <1>2, <1>3, <2>2 DEF GiveBack, RefsInv
  <2>4. broken = {} => refs' \ leaked' \subseteq {record.token}
    BY <1>2, <1>3, <2>1, <2>2 DEF GiveBack, RefsInv
  <2>5. Tokens' = {} => RefsInv'
    BY <1>1, <1>3, <1>5, <2>3, <2>4 DEF RefsInv
  <2>6. record.token \in refs' \/ (record.token = NoToken /\ leaked' # {})
    BY <2>2, <2>3
  <2> QED
    BY <1>1, <1>4, <1>7, <2>2, <2>5, <2>6, ChangeSucceeds
<1> QED
  BY <1>6, <1>7 DEF Release

LEMMA ForgetStep ==
  ASSUME TypeOK, TaskInv, BlocklistInv, NEW t \in Slots, Forget(t)
  PROVE  BlocklistInv'
<1>1. /\ task[t].step = "forget" /\ task[t].step \in Changing /\ ~Saved(t) /\ holder' = NoHolder
      /\ UNCHANGED <<os, process, anchor, refs>>
  BY DEF Forget, At, Changing, Saved
<1>2. /\ holder = t /\ ChangeInv(t) /\ task[t].kind \in Kinds \ {"none"} /\ RefsInv
      /\ Tokens = IF Enabling(t) THEN {task[t].token, task[t].previous.token} ELSE {}
  BY <1>1, Holding
<1>3. /\ task[t].next = {} /\ task[t].next = NextList(t, record.blocked)
      /\ anchor = {} /\ ~Enabling(t)
      /\ task[t].kind \notin {"block", "restore"} /\ Own(t) \subseteq Unblocks(Name(t))
  BY <1>1, <1>2 DEF ChangeInv, At, Enabling
<1>4. record.blocked \subseteq Own(t)
  <2>1. record.blocked \in SUBSET Addresses
    BY DEF TypeOK, FirewallType, Records
  <2> QED
    BY <1>2, <1>3, <2>1, ListOf
<1>5. broken = {} => refs \ leaked \subseteq {record.token}
  BY <1>2, <1>3 DEF RefsInv
<1>6. CASE /\ record' = NoRecord /\ leaked' = leaked \union (refs \intersect {record.token})
           /\ FirewallDone(t) /\ UNCHANGED broken
  <2>1. record'.blocked = {} /\ record'.token = NoToken
    BY <1>6 DEF NoRecord
  <2>2. Tokens' = {} => RefsInv'
    BY <1>1, <1>2, <1>5, <1>6, <2>1 DEF RefsInv
  <2> QED
    BY <1>1, <1>3, <1>4, <1>6, <2>1, <2>2, ChangeSucceeds
<1>7. CASE FirewallFails(t, Harmed(t)) /\ UNCHANGED <<record, leaked, until>>
  BY <1>1, <1>2, <1>4, <1>5, <1>7, ChangeFails DEF RefsInv
<1> QED
  BY <1>6, <1>7 DEF Forget

-----------------------------------------------------------------------------
(* Every step *)

LEMMA BlocklistStep ==
  ASSUME TypeOK, TaskInv, BlocklistInv, [Next]_vars
  PROVE  BlocklistInv'
<1>1. ASSUME NEW t \in Slots, \/ Lock(t) \/ Enable(t) \/ LoadAnchor(t) \/ Save(t) \/ Undo(t)
                              \/ Release(t) \/ Forget(t)
      PROVE  BlocklistInv'
  BY <1>1, LockStep, EnableStep, LoadAnchorStep, SaveStep, UndoStep, ReleaseStep, ForgetStep
<1>2. ASSUME NEW t \in Slots,
             \/ Load(t) \/ Truncate(t) \/ Write(t) \/ Lift(t) \/ Add(t) \/ Delete(t)
             \/ Begins(t) \/ Start(t)
      PROVE  BlocklistInv'
  BY <1>2, ElsewhereSteps, ElsewhereStep
<1>3. ASSUME Waits PROVE BlocklistInv'
  <2>1. Restored' => Restored
    BY <1>3 DEF Waits, Restored, Restoring
  <2>2. Elsewhere
    BY <1>3, <2>1 DEF Waits, Elsewhere, firewall
  <2> QED
    BY <2>2, ElsewhereStep
<1> QED
  BY <1>1, <1>2, <1>3, CrashList, StepCases

LEMMA InvariantInit == Init => BlockInv
<1> SUFFICES ASSUME Init PROVE BlockInv
  OBVIOUS
<1>1. \A t \in Slots : task[t] = Idle /\ Own(t) = {}
  BY IdleTask DEF Init, Own
<1>2. TypeOK
  BY TypeInit
<1>3. TaskInv
  BY <1>1, IdleTask DEF TaskInv, StepsOf, Init
<1>4. ApartInv
  BY <1>1 DEF ApartInv
<1>5. RulesInv
  BY <1>1 DEF Init, RulesInv, RuleInv, Directions
<1>6. LockInv
  BY <1>1, IdleTask DEF Init, LockInv, Changing
<1>7. ListInv
  BY DEF Init, ListInv, NoRecord
<1>8. RefsInv
  BY FS_EmptySet DEF Init, RefsInv, NoRecord
<1> QED
  BY <1>2, <1>3, <1>4, <1>5, <1>6, <1>7, <1>8 DEF BlockInv

LEMMA InvariantStep == BlockInv /\ [Next]_vars => BlockInv'
<1> SUFFICES ASSUME BlockInv, [Next]_vars PROVE BlockInv'
  OBVIOUS
<1>1. TypeOK /\ TaskInv /\ ApartInv /\ RulesInv /\ LockInv /\ RefsInv /\ BlocklistInv
  BY DEF BlockInv, BlocklistInv
<1>2. TypeOK' /\ TaskInv' /\ ApartInv' /\ RulesInv'
  BY <1>1, TypeStep, TaskInvStep, ApartStep, RulesStep
<1>3. BlocklistInv'
  BY <1>1, BlocklistStep
<1> QED
  BY <1>2, <1>3 DEF BlockInv, BlocklistInv

LEMMA Invariant == Spec => []BlockInv
  BY InvariantInit, InvariantStep, PTL DEF Spec

-----------------------------------------------------------------------------
(* Theorems *)

\* The type invariant, for operations that meet and are killed anywhere.
THEOREM TypeCorrect == Spec => []TypeOK
<1>1. BlockInv => TypeOK
  BY DEF BlockInv
<1> QED
  BY <1>1, Invariant, PTL

\* Between operations the firewall drops exactly the addresses whose last
\* operation was a block (block, unblock and restore), but for those it failed
\* on, was cut short on, or met another one on, those lost with a file that could
\* not be read or written, and those with a rule that iptables refused to
\* remove, which lift does not report.
THEOREM FirewallAsAsked == Spec => []BlockedAsAsked
<1>1. BlockInv => BlockedAsAsked
  <2> SUFFICES ASSUME BlockInv, Quiet, NEW a \in Addresses \ broken
               PROVE  Enforced(a) <=> until[a] # NoBlock
    BY DEF BlockedAsAsked
  <2>1. process = "up" /\ \A t \in Slots : task[t] = Idle
    BY DEF Quiet, Running
  <2>2. \A t \in Slots : Own(t) = {} /\ task[t].step = "idle"
    BY <2>1, IdleTask DEF Own
  <2>3. CASE os = "linux"
    <3>1. RuleInv(a)
      BY <2>3 DEF BlockInv, RulesInv
    <3>2. /\ rules[a]["in"] = rules[a]["out"] /\ rules[a]["in"] \in {0, 1}
          /\ until[a] # NoBlock <=> rules[a]["in"] = 1
      BY <2>2, <3>1 DEF RuleInv
    <3> QED
      BY <2>3, <3>2 DEF Enforced, Directions
  <2>4. CASE os = "macos"
    <3>1. \A t \in Slots : holder # t
      BY <2>2 DEF BlockInv, LockInv, Changing
    <3>2. HoldersOwn = {} /\ Restored
      BY <2>1, <3>1, IdleTask DEF HoldersOwn, Restored, Restoring
    <3>3. /\ until[a] # NoBlock <=> a \in record.blocked
          /\ a \in record.blocked <=> a \in anchor
          /\ a \in record.blocked => record.token \in refs \/ leaked # {}
          /\ leaked \subseteq refs
      BY <2>4, <3>1, <3>2 DEF BlockInv, ListInv, RefsInv
    <3> QED
      BY <2>4, <3>3 DEF Enforced
  <2>5. os \in {"linux", "macos"}
    BY DEF BlockInv, TypeOK
  <2> QED
    BY <2>3, <2>4, <2>5
<1> QED
  BY <1>1, Invariant, PTL

\* Between operations no half of a block is left, and no second rule that a
\* single unblock would not remove (block), but for the same addresses: a rule
\* that iptables refused to remove does leave one.
THEOREM WholeBlocks == Spec => []NoHalfBlock
<1>1. BlockInv => NoHalfBlock
  <2> SUFFICES ASSUME BlockInv, Quiet, NEW a \in Addresses \ broken
               PROVE  rules[a]["in"] = rules[a]["out"] /\ rules[a]["in"] <= 1
    BY DEF NoHalfBlock
  <2>1. \A t \in Slots : Own(t) = {}
    BY IdleTask DEF Own, Quiet, Running
  <2>2. CASE os = "linux"
    BY <2>1, <2>2 DEF BlockInv, RulesInv, RuleInv
  <2>3. CASE os = "macos"
    BY <2>3 DEF BlockInv, RulesInv, Directions
  <2>4. os \in {"linux", "macos"}
    BY DEF BlockInv, TypeOK
  <2> QED
    BY <2>2, <2>3, <2>4
<1> QED
  BY <1>1, Invariant, PTL

\* While no change is under way and none failed, the anchor holds the recorded
\* addresses, pf is enabled when there are any, and the recorded reference is the
\* only one on pf, but for those a kill left, those pf gave no token for and those
\* it refused to take back (apply, release).
THEOREM RecordKept == Spec => []PfMatchesRecord
<1>1. BlockInv => PfMatchesRecord
  <2> SUFFICES ASSUME BlockInv, os = "macos", process = "up", holder = NoHolder, broken = {}
               PROVE  /\ anchor = record.blocked
                      /\ anchor # {} => refs # {}
                      /\ refs \ leaked = IF record.token = NoToken THEN {} ELSE {record.token}
    BY DEF PfMatchesRecord
  <2>1. HoldersOwn = {} /\ Tokens = {} /\ Restored /\ \A t \in Slots : holder # t
    <3>1. \A t \in Slots : ~Enabling(t) /\ holder # t
      BY DEF Enabling
    <3>2. Restored
      BY DEF BlockInv, TaskInv, Restored, Restoring
    <3> QED
      BY <3>1, <3>2, HoldersOwnIs, TokensAre
  <2>2. /\ anchor = record.blocked
        /\ record.blocked = {} \/ record.token \in refs \/ (record.token = NoToken /\ leaked # {})
    BY <2>1 DEF BlockInv, ListInv
  <2>3. /\ refs \ leaked \subseteq {record.token} /\ leaked \subseteq refs \ {record.token}
        /\ record.blocked = {} => record = NoRecord
        /\ NoToken \notin refs
    BY <2>1 DEF BlockInv, RefsInv
  <2>4. NoRecord.token = NoToken
    BY DEF NoRecord
  <2> QED
    BY <2>2, <2>3, <2>4
<1> QED
  BY <1>1, Invariant, PTL

-----------------------------------------------------------------------------
(* One address at a time: the list of blocked addresses *)

Enforcing == {a \in Addresses : Enforced(a)}

Changed == (Enforcing \ Enforcing') \union (Enforcing' \ Enforcing)

LEMMA SameFirewall ==
  ASSUME UNCHANGED <<os, rules, anchor, refs>>
  PROVE  Changed = {}
  BY DEF Changed, Enforcing, Enforced

LEMMA InHand ==
  ASSUME TaskInv, NEW t \in Slots, task[t].kind \notin {"none", "restore"}
  PROVE  Own(t) = {Address(Name(t))} /\ Address(Name(t)) \in Busy
<1>1. Own(t) = {Address(Name(t))} /\ t \in Running
  BY NamesOne, IdleTask DEF Running
<1> QED
  BY <1>1 DEF Busy, Own

LEMMA RuleChanges ==
  ASSUME TypeOK, TaskInv, NEW t \in Slots, Lift(t) \/ Add(t) \/ Delete(t)
  PROVE  \E a \in Busy : Changed \subseteq {a}
<1>1. /\ task[t].kind \notin {"none", "restore"} /\ os # "macos" /\ os' = os
      /\ rules \in [Addresses -> [Directions -> Nat]]
  BY RuleMoves DEF Moves, TypeOK, FirewallType
<1>2. PICK b \in Busy : b = Address(Name(t)) /\ b \in Addresses
  BY <1>1, InHand, NamesOne
<1>3. ASSUME NEW a \in Addresses, a # b PROVE rules'[a] = rules[a]
  <2>1. CASE \E kept : rules' = RemoveOne(b, kept)
    BY <1>2, <1>3, <2>1, RemovedType
  <2>2. CASE rules' = [rules EXCEPT ![b][task[t].step] = @ + 1]
    BY <1>1, <1>3, <2>2
  <2>3. CASE rules' = rules
    BY <2>3
  <2>4. \/ \E kept : rules' = RemoveOne(b, kept)
        \/ rules' = [rules EXCEPT ![b][task[t].step] = @ + 1]
        \/ rules' = rules
    BY <1>2 DEF Lift, Add, AddFailed, Delete
  <2> QED
    BY <2>1, <2>2, <2>3, <2>4
<1>4. os = "linux"
  BY <1>1 DEF TypeOK
<1>5. \A a \in Addresses : a # b => (Enforced(a)' <=> Enforced(a))
  BY <1>1, <1>3, <1>4 DEF Enforced
<1> QED
  BY <1>2, <1>5 DEF Changed, Enforcing

LEMMA ListChanges ==
  ASSUME TypeOK, TaskInv, BlocklistInv, NEW t \in Slots, ~Restoring,
         \/ Lock(t) \/ Enable(t) \/ LoadAnchor(t) \/ Save(t) \/ Undo(t) \/ Release(t) \/ Forget(t)
  PROVE  \E a \in Busy : Changed \ broken \subseteq {a}
<1>1. /\ task[t].kind \notin {"none", "restore"} /\ os = "macos" /\ os' = os
      /\ task[t].step \in Changing \union {"lock"} /\ task[t].kind \in Kinds
  BY ListMoves, StepTells DEF Moves, TypeOK, Tasks, BlocklistInv, Restoring
<1>2. PICK b \in Busy : b = Address(Name(t)) /\ Own(t) = {b}
  BY <1>1, InHand
<1>3. SUFFICES Changed \ broken \subseteq Own(t)
  BY <1>2
<1>4. CASE Lock(t) \/ Save(t) \/ Forget(t)
  <2>1. UNCHANGED <<os, rules, anchor, refs>>
    BY <1>4 DEF Lock, Save, Forget
  <2> QED
    BY <2>1, SameFirewall
<1>5. CASE Enable(t) \/ LoadAnchor(t) \/ Undo(t) \/ Release(t)
  <2>1. task[t].step \in Changing \ {"forget"}
    BY <1>5 DEF Enable, LoadAnchor, Undo, Release, At, Changing
  <2>2. /\ holder = t /\ ChangeInv(t) /\ HoldersOwn = Own(t) /\ Restored /\ RefsInv
        /\ \A u \in Slots : u # t => holder # u
    <3>1. Restored
      BY <1>1, NamesOne DEF Restored
    <3> QED
      BY <1>1, <2>1, <3>1, Holding
  <2>3. /\ anchor \ broken \subseteq record.blocked \union Own(t)
        /\ record.blocked \ broken \subseteq anchor \union Own(t)
        /\ record.blocked \subseteq broken \/ record.token \in refs \/ leaked # {}
    BY <1>1, <2>1, <2>2 DEF BlocklistInv, ListInv, At
  <2>4. \A a \in Changed : \/ a \in anchor /\ refs # {} /\ ~(a \in anchor' /\ refs' # {})
                           \/ a \in anchor' /\ refs' # {} /\ ~(a \in anchor /\ refs # {})
    BY <1>1 DEF Changed, Enforcing, Enforced
  <2>5. leaked \subseteq refs /\ NoToken \notin refs
    BY <2>2 DEF RefsInv
  <2>6. CASE Enable(t)
    <3>1. anchor' = anchor /\ refs \subseteq refs'
      BY <2>6 DEF Enable
    <3>2. refs # {} => Changed = {}
      BY <2>4, <3>1
    <3>3. refs = {} => Changed \subseteq anchor /\ record.blocked \subseteq broken
      BY <2>3, <2>4, <2>5, <3>1
    <3> QED
      BY <2>3, <3>2, <3>3
  <2>7. CASE LoadAnchor(t)
    <3>1. anchor' \in {anchor, task[t].next} /\ refs' = refs
      BY <2>7 DEF LoadAnchor
    <3>2. task[t].next = NextList(t, task[t].previous.blocked) /\ ReadInv(t)
      BY <2>2, <2>7 DEF ChangeInv, LoadAnchor, Saved, At
    <3>3. /\ task[t].next \subseteq record.blocked \union Own(t)
          /\ record.blocked \ (Own(t) \union broken) \subseteq task[t].next
      BY <1>1, <2>2, <3>2, NextOf DEF ChangeInv
    <3> QED
      BY <2>3, <2>4, <3>1, <3>3
  <2>8. CASE Undo(t)
    <3>1. anchor' \in {anchor, task[t].previous.blocked} /\ refs' \in {refs, refs \ {task[t].token}}
      BY <2>8 DEF Undo, GiveBack
    <3>2. /\ task[t].token # NoToken => task[t].token # record.token /\ task[t].token \notin leaked
          /\ ReadInv(t)
      BY <2>2, <2>8 DEF ChangeInv, Undo, Saved, At
    <3>3. /\ task[t].previous.blocked \subseteq record.blocked
          /\ record.blocked \ broken \subseteq task[t].previous.blocked
      BY <2>2, <3>2, ReadOf
    <3>4. CASE record.token \in refs \/ leaked # {}
      <4>1. refs' # {} /\ refs # {}
        BY <2>5, <3>1, <3>2, <3>4
      <4> QED
        BY <2>3, <2>4, <3>1, <3>3, <4>1
    <3>5. CASE record.blocked \subseteq broken
      BY <2>3, <2>4, <3>1, <3>3, <3>5
    <3> QED
      BY <2>3, <3>4, <3>5
  <2>9. CASE Release(t)
    <3>1. /\ anchor' = anchor /\ refs' \in {refs, refs \ {task[t].previous.token}}
          /\ anchor = task[t].next
      BY <2>2, <2>9 DEF Release, GivenBack, GiveBack, ChangeInv, At
    <3>2. \/ anchor = {}
          \/ /\ task[t].previous.token \notin leaked
             /\ \/ leaked # {}
                \/ task[t].token \in refs /\ task[t].token # task[t].previous.token
      BY <2>2, <2>9, <3>1 DEF Release, ChangeInv, Saved, At
    <3>3. anchor = {} \/ (refs # {} /\ refs' # {})
      BY <2>5, <3>1, <3>2
    <3> QED
      BY <2>4, <3>1, <3>3
  <2> QED
    BY <1>5, <2>6, <2>7, <2>8, <2>9
<1> QED
  BY <1>4, <1>5

LEMMA FirewallChanges ==
  ASSUME BlockInv, [Next]_vars
  PROVE  \/ \E a \in Busy : Changed \ broken \subseteq {a}
         \/ process = "down" \/ Restoring \/ process' = "down"
         \/ Changed = {}
<1>1. TypeOK /\ TaskInv /\ BlocklistInv
  BY DEF BlockInv, BlocklistInv
<1>2. ASSUME NEW t \in Slots,
             \/ Load(t) \/ Truncate(t) \/ Write(t) \/ Begins(t) \/ Start(t) \/ Waits
      PROVE  Changed = {}
  <2>1. UNCHANGED <<os, rules, anchor, refs>>
    BY <1>2 DEF Load, Truncate, Write, Begins, Start, Waits, firewall
  <2> QED
    BY <2>1, SameFirewall
<1>3. Waits => Changed = {}
  BY SameFirewall DEF Waits, firewall
<1>4. ASSUME NEW t \in Slots, Lift(t) \/ Add(t) \/ Delete(t)
      PROVE  \E a \in Busy : Changed \ broken \subseteq {a}
  BY <1>1, <1>4, RuleChanges
<1>5. ASSUME NEW t \in Slots, \/ Lock(t) \/ Enable(t) \/ LoadAnchor(t) \/ Save(t) \/ Undo(t)
                              \/ Release(t) \/ Forget(t)
      PROVE  \/ \E a \in Busy : Changed \ broken \subseteq {a}
             \/ Restoring
  BY <1>1, <1>5, ListChanges
<1>6. ASSUME NEW reboot \in BOOLEAN, Crash(reboot) PROVE process' = "down"
  BY <1>6 DEF Crash
<1> QED
  BY <1>1, <1>2, <1>3, <1>4, <1>5, <1>6, StepCases

\* Blocking implements the list of blocked addresses: a step changes whether the
\* address of an operation gets through, and no other, although the anchor is
\* rewritten as a whole; only a restart or an operation that went wrong does more.
THEOREM ImplementsBlocklist == Spec => OneAddressAtATime
<1>1. Init => List!Init
  <2> SUFFICES ASSUME Init PROVE List!Init
    OBVIOUS
  <2>1. \A a \in Addresses : ~Enforced(a)
    BY DEF Init, Enforced, Directions
  <2>2. Busy = {}
    BY IdleTask DEF Init, Busy, Running
  <2>3. broken = {} /\ ~(process = "down" \/ Restoring)
    BY IdleTask DEF Init, Restoring
  <2> QED
    BY <2>1, <2>2, <2>3 DEF List!Init
<1>2. BlockInv /\ BlockInv' /\ [Next]_vars => [List!Next]_(List!vars)
  <2> SUFFICES ASSUME BlockInv, BlockInv', [Next]_vars PROVE List!Next
    OBVIOUS
  <2>1. \A n \in Names : Address(n) \in Addresses
    BY DEF Names, Address
  <2>2. Busy' \subseteq Addresses
    <3>1. \A t \in Slots : task'[t].names \subseteq Names
      BY DEF BlockInv, TypeOK, Tasks
    <3> QED
      BY <2>1, <3>1 DEF Busy, Running
  <2>3. broken' \subseteq Addresses
    BY DEF BlockInv, TypeOK, HistoryType
  <2>4. \/ \E a \in Busy : Changed \ broken \subseteq {a}
        \/ process = "down" \/ Restoring \/ process' = "down"
        \/ Changed = {}
    BY FirewallChanges
  <2>5. Changed = List!Changed
    BY DEF Changed, Enforcing, List!Changed
  <2>6. List!Bookkeeping /\ Enforcing' \subseteq Addresses
    BY <2>2, <2>3 DEF List!Bookkeeping, Enforcing
  <2>7. List!Operate \/ List!Restart \/ List!Changed = {}
    BY <2>4, <2>5 DEF List!Operate, List!Restart
  <2> QED
    BY <2>6, <2>7 DEF List!Next, Enforcing
<1> QED
  BY <1>1, <1>2, Invariant, PTL DEF Spec, OneAddressAtATime, List!Spec
=============================================================================
