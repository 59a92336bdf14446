------------------------ MODULE HostIsolationProofs ------------------------
(***************************************************************************)
(* Theorems about HostIsolation, for any networks, durations, failures,    *)
(* kills and reboots. The types and the release timers need nothing of the *)
(* order of operations; Agreement and Recording are about the runs in      *)
(* which operations do not overlap, which the code leaves to its callers.  *)
(***************************************************************************)
EXTENDS HostIsolation, FiniteSetTheorems, WellFoundedInduction, TLAPS

USE IsolationAssumption

-----------------------------------------------------------------------------
(* Tasks and rules *)

Kinds == {"none", "isolate", "release", "timer", "reconcile"}
Steps == {"idle", "clear", "build", "hook", "undo", "store", "write", "drop"}

LEMMA IdleTask == Idle \in Tasks /\ Idle.kind = "none" /\ Idle.step = "idle"
  BY DEF Idle, Tasks, Families, Untils, Forever

\* The fields of a task.
LEMMA TaskFields ==
  ASSUME TypeOK, NEW t \in Slots
  PROVE  /\ task[t].kind \in Kinds /\ task[t].step \in Steps /\ task[t].fam \in {4, 6}
         /\ task[t].after \in Nat /\ task[t].until \in Untils
         /\ task[t].net \in Networks \union {NoNet}
  BY DEF TypeOK, Tasks, Kinds, Steps, Families

\* A step of an operation moves that operation alone, to another step.
LEMMA Moved ==
  ASSUME TypeOK, NEW t \in Slots, NEW s \in Steps, NEW f \in Families, GoTo(t, s, f)
  PROVE  /\ task' \in [Slots -> Tasks]
         /\ \A u \in Slots : u # t => task'[u] = task[u]
         /\ task'[t].step = s /\ task'[t].fam = f
         /\ task'[t].kind = task[t].kind /\ task'[t].net = task[t].net
<1>1. task[t] \in Tasks /\ task \in [Slots -> Tasks]
  BY DEF TypeOK
<1>2. task' = [task EXCEPT ![t] = [task[t] EXCEPT !.step = s, !.fam = f]]
  BY <1>1 DEF GoTo
<1>3. PICK r \in Tasks : r = [task[t] EXCEPT !.step = s, !.fam = f]
  BY <1>1 DEF Tasks, Steps
<1>4. /\ r.step = s /\ r.fam = f /\ r.kind = task[t].kind /\ r.net = task[t].net
  BY <1>1, <1>3 DEF Tasks
<1> QED
  BY <1>1, <1>2, <1>3, <1>4

\* A new operation clears first.
LEMMA Began ==
  ASSUME TypeOK, NEW t \in Slots, NEW kind \in Kinds, NEW after \in Nat,
         NEW until \in Untils, NEW net \in Networks \union {NoNet},
         Begin(t, kind, after, until, net)
  PROVE  /\ task' \in [Slots -> Tasks] /\ task[t] = Idle
         /\ \A u \in Slots : u # t => task'[u] = task[u]
         /\ task'[t].step = "clear" /\ task'[t].fam = 4
         /\ task'[t].kind = kind /\ task'[t].net = net
<1>1. PICK r \in Tasks : r = [kind |-> kind, step |-> "clear", fam |-> 4,
                              after |-> after, until |-> until, net |-> net]
  BY DEF Tasks, Kinds, Families
<1>2. r.step = "clear" /\ r.fam = 4 /\ r.kind = kind /\ r.net = net
  BY <1>1
<1>3. task' = [task EXCEPT ![t] = r] /\ task[t] = Idle /\ task \in [Slots -> Tasks]
  BY <1>1 DEF Begin, TypeOK
<1> QED
  BY <1>2, <1>3

\* An operation that ends leaves its slot, and the process up.
LEMMA Ended ==
  ASSUME TypeOK, NEW t \in Slots, Finish(t)
  PROVE  /\ task' \in [Slots -> Tasks] /\ task'[t] = Idle
         /\ \A u \in Slots : u # t => task'[u] = task[u]
         /\ process' = "up" /\ timers' \subseteq Nat
<1>1. task' = [task EXCEPT ![t] = Idle] /\ task \in [Slots -> Tasks]
  BY DEF Finish, TypeOK
<1>2. timers' \subseteq Nat
  BY TaskFields DEF Finish, TypeOK
<1> QED
  BY <1>1, <1>2, IdleTask DEF Finish

LEMMA GivenUp ==
  ASSUME TypeOK, NEW t \in Slots, GiveUp(t)
  PROVE  /\ task' \in [Slots -> Tasks] /\ task'[t] = Idle /\ failed' = TRUE
         /\ \A u \in Slots : u # t => task'[u] = task[u]
         /\ timers' \subseteq Nat
         /\ process' = IF task[t].kind = "isolate" THEN process ELSE "up"
<1>1. CASE task[t].kind = "isolate"
  <2>1. /\ task' = [task EXCEPT ![t] = Idle] /\ task \in [Slots -> Tasks]
        /\ UNCHANGED <<process, timers>> /\ timers \subseteq Nat
    BY <1>1 DEF GiveUp, TypeOK
  <2> QED
    BY <1>1, <2>1, IdleTask DEF GiveUp
<1>2. CASE task[t].kind # "isolate"
  BY <1>2, Ended DEF GiveUp
<1> QED
  BY <1>1, <1>2

\* iptables_release for one family leaves the other one alone.
LEMMA Lifted ==
  ASSUME TypeOK, NEW f \in Families, Lift(f)
  PROVE  /\ chain' \in [Families -> {"absent", "empty", "built"}]
         /\ loaded' \in [Families -> Networks \union {NoNet}]
         /\ jumps' \in [Families -> Nat] /\ leftover' \subseteq Families
         /\ \A g \in Families : g # f =>
              /\ chain'[g] = chain[g] /\ loaded'[g] = loaded[g] /\ jumps'[g] = jumps[g]
              /\ g \in leftover' <=> g \in leftover
         /\ jumps[f] <= 1 => jumps'[f] = 0 /\ chain'[f] = "absent"
         /\ chain'[f] # "built" /\ f \notin leftover'
<1> DEFINE left == IF jumps[f] > 0 THEN jumps[f] - 1 ELSE 0
<1>1. left \in Nat /\ (jumps[f] <= 1 => left = 0)
  BY DEF TypeOK
<1>2. PICK c \in {"absent", "empty"} :
        /\ c = IF left = 0 \/ chain[f] = "absent" THEN "absent" ELSE "empty"
        /\ left = 0 => c = "absent"
  OBVIOUS
<1>3. /\ jumps' = [jumps EXCEPT ![f] = left] /\ chain' = [chain EXCEPT ![f] = c]
      /\ loaded' = [loaded EXCEPT ![f] = NoNet] /\ leftover' = leftover \ {f}
  BY <1>2 DEF Lift, TypeOK
<1> HIDE DEF left
<1> QED
  BY <1>1, <1>2, <1>3 DEF TypeOK

\* Commands of it that fail leave rules behind, never more than there were.
LEMMA PartlyLifted ==
  ASSUME TypeOK, NEW f \in Families, LiftPartly(f)
  PROVE  /\ chain' \in [Families -> {"absent", "empty", "built"}]
         /\ loaded' \in [Families -> Networks \union {NoNet}]
         /\ jumps' \in [Families -> Nat] /\ faults' \in 0 .. MaxFaults
         /\ leftover' \subseteq Families /\ leftover' = leftover \union {f}
         /\ \A g \in Families : g # f =>
              chain'[g] = chain[g] /\ loaded'[g] = loaded[g] /\ jumps'[g] = jumps[g]
         /\ chain'[f] = "absent" <=> chain[f] = "absent"
         /\ jumps'[f] <= jumps[f]
<1>1. /\ jumps' \in [Families -> Nat] /\ jumps'[f] <= jumps[f]
      /\ \A g \in Families : g # f => jumps'[g] = jumps[g]
  BY DEF LiftPartly, TypeOK
<1>2. /\ chain' \in [Families -> {"absent", "empty", "built"}]
      /\ loaded' \in [Families -> Networks \union {NoNet}]
      /\ chain'[f] = "absent" <=> chain[f] = "absent"
      /\ \A g \in Families : g # f => chain'[g] = chain[g] /\ loaded'[g] = loaded[g]
  BY DEF LiftPartly, TypeOK
<1>3. faults' \in 0 .. MaxFaults /\ leftover' = leftover \union {f}
  BY DEF LiftPartly, MayFail, TypeOK
<1> QED
  BY <1>1, <1>2, <1>3 DEF TypeOK

-----------------------------------------------------------------------------
(* Types *)

TypeInv == TypeOK /\ \A t \in Slots : NetInv(t)

\* A step changes one task: the others keep what is known of their networks.
LEMMA OthersKeepNets ==
  ASSUME TypeInv, NEW t \in Slots, \A u \in Slots : u # t => task'[u] = task[u], NetInv(t)'
  PROVE  \A u \in Slots : NetInv(u)'
<1> TAKE u \in Slots
<1>1. CASE u = t
  BY <1>1
<1>2. CASE u # t
  <2>1. task'[u] = task[u] /\ NetInv(u)
    BY <1>2 DEF TypeInv
  <2> QED
    BY <2>1 DEF NetInv
<1> QED
  BY <1>1, <1>2

LEMMA IdleNets == ASSUME NEW t \in Slots, task'[t] = Idle PROVE NetInv(t)'
  BY IdleTask DEF NetInv

LEMMA RequestTypes ==
  ASSUME TypeInv, NEW t \in Slots,
         (\E d \in Durations, n \in Networks : Isolate(t, d, n)) \/ Release(t) \/ TimerLifts(t)
  PROVE  TypeInv'
<1> USE DEF TypeInv
<1>0. Forever \in Untils /\ "isolate" \in Kinds /\ "release" \in Kinds /\ "timer" \in Kinds
  BY DEF Untils, Kinds
<1>1. ASSUME NEW d \in Durations, NEW n \in Networks, Isolate(t, d, n) PROVE TypeInv'
  <2>1. Request /\ Begin(t, "isolate", d, Forever, n)
    BY <1>1 DEF Isolate
  <2>2. /\ task' \in [Slots -> Tasks] /\ task'[t].step = "clear"
        /\ \A u \in Slots : u # t => task'[u] = task[u]
        /\ task'[t].kind = "isolate" /\ task'[t].net = n
    BY <1>0, <2>1, Began
  <2>3. NetInv(t)'
    BY <2>2 DEF NetInv
  <2>4. requests' \in 0..MaxRequests
    BY <2>1 DEF Request, TypeOK
  <2> QED
    BY <2>1, <2>2, <2>3, <2>4, OthersKeepNets DEF Request, TypeOK, firewall, history, Recorded
<1>2. CASE Release(t)
  <2>1. Request /\ Begin(t, "release", 0, Forever, NoNet)
    BY <1>2 DEF Release
  <2>2. /\ task' \in [Slots -> Tasks] /\ task'[t].step = "clear"
        /\ \A u \in Slots : u # t => task'[u] = task[u]
        /\ task'[t].kind = "release" /\ task'[t].net = NoNet
    BY <1>0, <2>1, Began
  <2>3. NetInv(t)'
    BY <2>2 DEF NetInv
  <2>4. requests' \in 0..MaxRequests
    BY <2>1 DEF Request, TypeOK
  <2> QED
    BY <2>1, <2>2, <2>3, <2>4, OthersKeepNets DEF Request, TypeOK, firewall, history, Recorded
<1>3. CASE TimerLifts(t)
  <2>1. /\ lifting' \subseteq Records
        /\ UNCHANGED <<process, firewall, record, isolated, timers, clock, counters, history>>
    BY <1>3 DEF TimerLifts, TypeOK
  <2>2. PICK r \in Records : Begin(t, "timer", 0, r.until, NoNet)
    BY <1>3 DEF TimerLifts, TypeOK
  <2>3. r.until \in Untils
    BY DEF Records
  <2>4. /\ task' \in [Slots -> Tasks] /\ task'[t].step = "clear"
        /\ \A u \in Slots : u # t => task'[u] = task[u]
        /\ task'[t].kind = "timer" /\ task'[t].net = NoNet
    BY <1>0, <2>2, <2>3, Began
  <2>5. NetInv(t)'
    BY <2>4 DEF NetInv
  <2> QED
    BY <2>1, <2>4, <2>5, OthersKeepNets DEF TypeOK, firewall, history, counters, Recorded
<1> QED
  BY <1>1, <1>2, <1>3

\* An operation under way is of some kind.
LEMMA AtWork == ASSUME TypeInv, NEW t \in Slots, task[t].step # "idle" PROVE task[t].kind # "none"
  BY IdleTask DEF TypeInv, NetInv

\* An operation goes to a step that puts rules in only if it has a network.
LEMMA MovedNets ==
  ASSUME TypeInv, NEW t \in Slots, task[t].step # "idle",
         NEW s \in Steps, NEW f \in Families, GoTo(t, s, f),
         s \in {"build", "hook", "undo", "store", "write"} => task[t].net \in Networks
  PROVE  task' \in [Slots -> Tasks] /\ \A u \in Slots : NetInv(u)'
<1>1. /\ task' \in [Slots -> Tasks] /\ task'[t].step = s
      /\ \A u \in Slots : u # t => task'[u] = task[u]
      /\ task'[t].kind = task[t].kind /\ task'[t].net = task[t].net
  BY Moved DEF TypeInv
<1>2. NetInv(t) /\ task[t].kind # "none"
  BY AtWork DEF TypeInv
<1>3. NetInv(t)'
  BY <1>1, <1>2 DEF NetInv
<1> QED
  BY <1>1, <1>3, OthersKeepNets

LEMMA CommandTypes ==
  ASSUME TypeInv, NEW t \in Slots, Clear(t) \/ Build(t) \/ Hook(t) \/ Undo(t)
  PROVE  TypeInv'
<1> USE DEF TypeInv
<1>0. /\ task[t].net \in Networks \union {NoNet} /\ task[t].fam \in Families
      /\ {"clear", "drop", "build", "hook", "undo", "store"} \subseteq Steps
      /\ 4 \in Families /\ 6 \in Families
  BY TaskFields DEF Steps, Families
<1>1. CASE Clear(t)
  <2>1. /\ chain' \in [Families -> {"absent", "empty", "built"}]
        /\ loaded' \in [Families -> Networks \union {NoNet}]
        /\ jumps' \in [Families -> Nat] /\ leftover' \subseteq Families
        /\ faults' \in 0..MaxFaults
    <3>1. CASE Lift(task[t].fam) /\ UNCHANGED faults
      BY <1>0, <3>1, Lifted DEF TypeOK
    <3>2. CASE LiftPartly(task[t].fam)
      BY <1>0, <3>2, PartlyLifted
    <3> QED
      BY <1>1, <3>1, <3>2 DEF Clear
  <2>2. PICK s \in {"clear", "drop", "build"}, f \in Families :
          GoTo(t, s, f) /\ (s = "build" => task[t].net \in Networks)
    BY <1>0, <1>1 DEF Clear
  <2>3. task' \in [Slots -> Tasks] /\ \A u \in Slots : NetInv(u)'
    BY <1>0, <1>1, <2>2, MovedNets DEF Clear, At
  <2> QED
    BY <1>1, <2>1, <2>3 DEF Clear, TypeOK, Recorded
<1>2. CASE Build(t)
  <2>0. task[t].step = "build" /\ task[t].net \in Networks
    BY <1>2 DEF Build, At, NetInv
  <2>1. /\ chain' \in [Families -> {"absent", "empty", "built"}]
        /\ loaded' \in [Families -> Networks \union {NoNet}]
        /\ faults' \in 0..MaxFaults
    BY <1>0, <1>2 DEF Build, TypeOK, MayFail
  <2>2. PICK s \in {"hook", "undo"}, f \in Families : GoTo(t, s, f)
    BY <1>0, <1>2 DEF Build
  <2>3. task' \in [Slots -> Tasks] /\ \A u \in Slots : NetInv(u)'
    BY <1>0, <2>0, <2>2, MovedNets
  <2> QED
    BY <1>2, <2>1, <2>3 DEF Build, TypeOK, Recorded, history
<1>3. CASE Hook(t)
  <2>0. task[t].step = "hook" /\ task[t].net \in Networks
    BY <1>3 DEF Hook, At, NetInv
  <2>1. jumps' \in [Families -> Nat] /\ faults' \in 0..MaxFaults
    BY <1>0, <1>3 DEF Hook, TypeOK, MayFail
  <2>2. PICK s \in {"build", "store", "undo"}, f \in Families : GoTo(t, s, f)
    BY <1>0, <1>3 DEF Hook
  <2>3. task' \in [Slots -> Tasks] /\ \A u \in Slots : NetInv(u)'
    BY <1>0, <2>0, <2>2, MovedNets
  <2> QED
    BY <1>3, <2>1, <2>3 DEF Hook, TypeOK, Recorded, history
<1>4. CASE Undo(t)
  <2>0. task[t].step = "undo" /\ task[t].net \in Networks
    BY <1>4 DEF Undo, At, NetInv
  <2>1. /\ chain' \in [Families -> {"absent", "empty", "built"}]
        /\ loaded' \in [Families -> Networks \union {NoNet}]
        /\ jumps' \in [Families -> Nat] /\ leftover' \subseteq Families
        /\ faults' \in 0 .. MaxFaults
    <3>1. CASE Lift(task[t].fam) /\ UNCHANGED faults
      BY <1>0, <3>1, Lifted DEF TypeOK
    <3>2. CASE LiftPartly(task[t].fam)
      BY <1>0, <3>2, PartlyLifted
    <3> QED
      BY <1>4, <3>1, <3>2 DEF Undo
  <2>2. /\ task' \in [Slots -> Tasks] /\ \A u \in Slots : NetInv(u)'
        /\ timers' \subseteq Nat /\ process' \in {"down", "starting", "up"}
        /\ failed' \in BOOLEAN
    <3>1. CASE GoTo(t, "undo", 6) /\ UNCHANGED <<process, timers, failed>>
      BY <1>0, <2>0, <3>1, MovedNets DEF TypeOK
    <3>2. CASE GiveUp(t)
      BY <3>2, GivenUp, IdleNets, OthersKeepNets DEF TypeOK
    <3> QED
      BY <1>4, <3>1, <3>2 DEF Undo
  <2> QED
    BY <1>4, <2>1, <2>2 DEF Undo, TypeOK, Recorded, counters
<1> QED
  BY <1>1, <1>2, <1>3, <1>4

LEMMA RecordTypes ==
  ASSUME TypeInv, NEW t \in Slots, Store(t) \/ Write(t) \/ Drop(t)
  PROVE  TypeInv'
<1> USE DEF TypeInv
<1>1. CASE Store(t)
  <2>0. task[t].step = "store" /\ task[t].net \in Networks /\ task[t].kind # "none"
    BY <1>1, AtWork DEF Store, At, NetInv
  <2>1. CASE /\ record' = Torn
             /\ task' = [task EXCEPT ![t].step = "write",
                                     ![t].until = IF task[t].kind = "isolate"
                                                  THEN End(task[t].after) ELSE @]
             /\ UNCHANGED <<process, isolated, timers, faults, history>>
    <3>1. task[t] \in Tasks /\ task \in [Slots -> Tasks]
      BY DEF TypeOK
    <3>2. PICK e \in Untils :
            e = IF task[t].kind = "isolate" THEN End(task[t].after) ELSE task[t].until
      BY TaskFields DEF End, Untils, TypeOK
    <3>3. PICK r \in Tasks : r = [task[t] EXCEPT !.step = "write", !.until = e]
      BY <3>1 DEF Tasks
    <3>4. r.step = "write" /\ r.kind = task[t].kind /\ r.net = task[t].net
      BY <3>1, <3>3 DEF Tasks
    <3>5. task' = [task EXCEPT ![t] = r]
      BY <2>1, <3>1, <3>2, <3>3
    <3>6. task' \in [Slots -> Tasks] /\ task'[t] = r /\ \A u \in Slots : u # t => task'[u] = task[u]
      BY <3>1, <3>5
    <3>7. NetInv(t)' /\ \A u \in Slots : NetInv(u)'
      BY <2>0, <3>4, <3>6, OthersKeepNets DEF NetInv
    <3> QED
      BY <1>1, <2>1, <3>6, <3>7 DEF Store, TypeOK, firewall, history
  <2>2. CASE /\ MayFail("store")
             /\ record' \in {record, Torn}
             /\ IF task[t].kind = "isolate"
                THEN GoTo(t, "undo", 4) /\ UNCHANGED <<process, isolated, timers, history>>
                ELSE /\ isolated' = TRUE
                     /\ GiveUp(t)
                     /\ leftover' = IF record' = Torn THEN Families ELSE leftover
    <3>1. faults' \in 0..MaxFaults /\ (record' \in {Missing, Torn} \/ Recorded')
      BY <2>2 DEF MayFail, TypeOK, Recorded
    <3>2. CASE task[t].kind = "isolate"
      <4>1. "undo" \in Steps /\ 4 \in Families
        BY DEF Steps, Families
      <4>2. task' \in [Slots -> Tasks] /\ \A u \in Slots : NetInv(u)'
        BY <2>0, <2>2, <3>2, <4>1, MovedNets
      <4> QED
        BY <1>1, <2>2, <3>1, <3>2, <4>2 DEF Store, TypeOK, firewall, history
    <3>3. CASE task[t].kind # "isolate"
      <4>1. /\ task' \in [Slots -> Tasks] /\ \A u \in Slots : NetInv(u)'
            /\ timers' \subseteq Nat /\ process' = "up" /\ failed' = TRUE
        BY <2>2, <3>3, GivenUp, IdleNets, OthersKeepNets
      <4>2. leftover' \subseteq Families
        BY <2>2, <3>3 DEF TypeOK
      <4> QED
        BY <1>1, <2>2, <3>1, <3>3, <4>1, <4>2 DEF Store, TypeOK, firewall
    <3> QED
      BY <3>2, <3>3
  <2> QED
    BY <1>1, <2>1, <2>2 DEF Store
<1>2. CASE Write(t)
  <2>1. Recorded'
    BY <1>2, TaskFields DEF Write, At, NetInv, Recorded, Records
  <2>2. /\ task' \in [Slots -> Tasks] /\ \A u \in Slots : NetInv(u)'
        /\ timers' \subseteq Nat /\ process' = "up"
    BY <1>2, Ended, IdleNets, OthersKeepNets DEF Write
  <2> QED
    BY <1>2, <2>1, <2>2 DEF Write, TypeOK, firewall, counters
<1>3. CASE Drop(t)
  <2>1. /\ record' \in {Missing, Torn} \/ Recorded'
        /\ failed' \in BOOLEAN /\ faults' \in 0..MaxFaults
    <3>1. CASE record' = Missing /\ failed' = FALSE /\ UNCHANGED faults
      BY <3>1 DEF TypeOK
    <3>2. CASE MayFail("drop") /\ failed' = TRUE /\ UNCHANGED record
      <4>1. faults' \in 0..MaxFaults
        BY <3>2 DEF MayFail, TypeOK
      <4> QED
        BY <3>2, <4>1 DEF TypeOK, Recorded
    <3> QED
      BY <1>3, <3>1, <3>2 DEF Drop
  <2>2. /\ task' \in [Slots -> Tasks] /\ \A u \in Slots : NetInv(u)'
        /\ timers' \subseteq Nat /\ process' = "up"
    BY <1>3, Ended, IdleNets, OthersKeepNets DEF Drop
  <2> QED
    BY <1>3, <2>1, <2>2 DEF Drop, TypeOK, firewall
<1> QED
  BY <1>1, <1>2, <1>3

\* A start with a record begins an operation.
LEMMA StartBegins ==
  ASSUME TypeOK, NEW t \in Slots, Start(t), Recorded
  PROVE  \E after \in Nat, until \in Untils, net \in Networks \union {NoNet} :
           Begin(t, "reconcile", after, until, net)
<1>1. /\ record.until \in Untils /\ record.net \in Networks /\ clock \in Nat
      /\ Forever \in Untils
  BY DEF Recorded, Records, TypeOK, Untils
<1>2. CASE Due
  BY <1>1, <1>2 DEF Start
<1>3. CASE ~Due
  <2>1. PICK after \in Nat :
          after = IF record.until = Forever THEN 0 ELSE record.until - clock
    BY <1>1, <1>3 DEF Due, Untils
  <2> QED
    BY <1>1, <1>3, <2>1 DEF Start
<1> QED
  BY <1>2, <1>3

LEMMA ProcessTypes ==
  ASSUME TypeInv, \/ (\E reboot \in BOOLEAN : Crash(reboot)) \/ (\E t \in Slots : Start(t))
                  \/ TimerChecks \/ Tick
  PROVE  TypeInv'
<1> USE DEF TypeInv
<1>1. ASSUME NEW reboot \in BOOLEAN, Crash(reboot) PROVE TypeInv'
  <2>1. task' \in [Slots -> Tasks] /\ \A t \in Slots : NetInv(t)'
    BY <1>1, IdleTask, IdleNets DEF Crash
  <2>2. /\ chain' \in [Families -> {"absent", "empty", "built"}]
        /\ loaded' \in [Families -> Networks \union {NoNet}]
        /\ jumps' \in [Families -> Nat] /\ leftover' \subseteq Families
    BY <1>1 DEF Crash, TypeOK, firewall
  <2>3. crashes' \in 0..MaxCrashes
    BY <1>1 DEF Crash, TypeOK
  <2> QED
    BY <1>1, <2>1, <2>2, <2>3 DEF Crash, TypeOK, Recorded
<1>2. ASSUME NEW t \in Slots, Start(t) PROVE TypeInv'
  <2>1. task' \in [Slots -> Tasks] /\ \A u \in Slots : NetInv(u)'
    <3>1. CASE ~Recorded
      BY <1>2, <3>1 DEF Start, TypeOK, NetInv
    <3>2. CASE Recorded
      <4>1. "reconcile" \in Kinds
        BY DEF Kinds
      <4>2. PICK after \in Nat, until \in Untils, net \in Networks \union {NoNet} :
              Begin(t, "reconcile", after, until, net)
        BY <1>2, <3>2, StartBegins
      <4>3. /\ task' \in [Slots -> Tasks] /\ task'[t].step = "clear"
            /\ \A u \in Slots : u # t => task'[u] = task[u]
            /\ task'[t].kind = "reconcile"
        BY <4>1, <4>2, Began
      <4> QED
        BY <4>3, OthersKeepNets DEF NetInv
    <3> QED
      BY <3>1, <3>2
  <2> QED
    BY <1>2, <2>1 DEF Start, TypeOK, Recorded, firewall, counters, history
<1>3. CASE Tick
  <2>1. clock' \in 0..MaxClock /\ timers' \subseteq Nat
    <3>1. clock' \in 0..MaxClock
      BY <1>3 DEF Tick, TypeOK
    <3>2. \A s \in timers : (IF s > 0 THEN s - 1 ELSE 0) \in Nat
      BY DEF TypeOK
    <3> QED
      BY <1>3, <3>1, <3>2 DEF Tick
  <2>2. \A t \in Slots : NetInv(t)'
    BY <1>3 DEF Tick, NetInv
  <2> QED
    BY <1>3, <2>1, <2>2 DEF Tick, TypeOK, Recorded, firewall, counters, history
<1>4. CASE TimerChecks
  <2>1. timers' \subseteq Nat /\ lifting' \subseteq Records
    BY <1>4 DEF TimerChecks, TypeOK, Due, Recorded
  <2>2. \A t \in Slots : NetInv(t)'
    BY <1>4 DEF TimerChecks, NetInv
  <2> QED
    BY <1>4, <2>1, <2>2 DEF TimerChecks, TypeOK, Recorded, firewall, counters, history
<1> QED
  BY <1>1, <1>2, <1>3, <1>4

LEMMA TypeInit == Init => TypeInv
<1> SUFFICES ASSUME Init PROVE TypeInv
  OBVIOUS
<1>1. \A t \in Slots : task[t] = Idle /\ NetInv(t)
  BY IdleTask DEF Init, NetInv
<1>2. task \in [Slots -> Tasks]
  BY IdleTask DEF Init
<1>3. /\ process \in {"down", "starting", "up"} /\ record \in {Missing, Torn} /\ timers \subseteq Nat
      /\ lifting \subseteq Records /\ isolated \in BOOLEAN /\ failed \in BOOLEAN /\ leftover \subseteq Families
  BY DEF Init
<1>4. /\ chain \in [Families -> {"absent", "empty", "built"}]
      /\ loaded \in [Families -> Networks \union {NoNet}]
      /\ jumps \in [Families -> Nat]
  BY DEF Init
<1>5. /\ clock \in 0 .. MaxClock /\ faults \in 0 .. MaxFaults
      /\ crashes \in 0 .. MaxCrashes /\ requests \in 0 .. MaxRequests
  BY DEF Init
<1> QED
  BY <1>1, <1>2, <1>3, <1>4, <1>5 DEF TypeInv, TypeOK

LEMMA TypeStep == TypeInv /\ [Next]_vars => TypeInv'
<1> SUFFICES ASSUME TypeInv, [Next]_vars PROVE TypeInv'
  OBVIOUS
<1>1. CASE UNCHANGED vars
  BY <1>1 DEF vars, TypeInv, TypeOK, NetInv, Recorded
<1>2. ASSUME NEW t \in Slots, TaskStep(t) PROVE TypeInv'
  BY <1>2, CommandTypes, RecordTypes DEF TaskStep
<1> QED
  BY <1>1, <1>2, RequestTypes, ProcessTypes DEF Next

\* The rules, the record and the tasks are well typed whatever the number of
\* operations, kills and reboots: what puts rules in always has a network to
\* keep open (isolate_host, reconcile_host_isolation).
THEOREM TypeCorrect == Spec => []TypeOK
<1>1. TypeInv => TypeOK
  BY DEF TypeInv
<1> QED
  BY <1>1, TypeInit, TypeStep, PTL DEF Spec

-----------------------------------------------------------------------------
(* Timers, whatever else runs *)

\* An operation goes on, or ends; the others are as they were.
LEMMA OperationStep ==
  ASSUME TypeInv, NEW t \in Slots, TaskStep(t)
  PROVE  /\ lifting' = lifting /\ clock' = clock
         /\ task[t].kind \in Kinds \ {"none"}
         /\ \A u \in Slots : u # t => task'[u] = task[u]
         /\ \/ /\ task'[t].kind = task[t].kind /\ process' = process
               /\ task[t].kind = "timer" => task'[t].until = task[t].until
            \/ /\ task'[t].kind = "none"
               /\ process' = "up" \/ (task[t].kind = "isolate" /\ process' = process)
<1>1. /\ lifting' = lifting /\ clock' = clock /\ task[t].step # "idle"
  BY DEF TaskStep, Clear, Build, Hook, Undo, Store, Write, Drop, At
<1>2. /\ TypeOK /\ NetInv(t) /\ task \in [Slots -> Tasks] /\ task[t] \in Tasks
      /\ task[t].kind \in Kinds \ {"none"}
  BY <1>1, AtWork, TaskFields DEF TypeInv, TypeOK
<1> DEFINE Same == \A u \in Slots : u # t => task'[u] = task[u]
           Goes == /\ task'[t].kind = task[t].kind
                   /\ task[t].kind = "timer" => task'[t].until = task[t].until
           Ends == /\ task'[t].kind = "none"
                   /\ process' = "up" \/ (task[t].kind = "isolate" /\ process' = process)
<1>3. ASSUME NEW s, NEW f, GoTo(t, s, f) PROVE Same /\ Goes
  BY <1>2, <1>3 DEF GoTo, Tasks
<1>4. ASSUME GiveUp(t) \/ Finish(t) PROVE Same /\ Ends
  <2>1. task' = [task EXCEPT ![t] = Idle]
    BY <1>4 DEF GiveUp, Finish
  <2> QED
    BY <1>2, <1>4, <2>1, IdleTask DEF GiveUp, Finish
<1>5. Same /\ ((Goes /\ process' = process) \/ Ends)
  <2>1. CASE Clear(t) \/ Build(t) \/ Hook(t)
    <3> HIDE DEF Same, Goes, Ends
    <3> QED
      BY <1>3, <2>1 DEF Clear, Build, Hook
  <2>2. CASE Undo(t) \/ Write(t) \/ Drop(t)
    <3> HIDE DEF Same, Goes, Ends
    <3> QED
      BY <1>3, <1>4, <2>2 DEF Undo, Write, Drop
  <2>3. CASE Store(t)
    <3>1. task[t].kind # "timer"
      BY <1>2, <2>3, IsolationAssumption DEF Store, At, NetInv
    <3>2. ASSUME task' = [task EXCEPT ![t].step = "write",
                                      ![t].until = IF task[t].kind = "isolate"
                                                   THEN End(task[t].after) ELSE @]
          PROVE  Same /\ Goes
      BY <1>2, <3>1, <3>2 DEF Tasks
    <3> HIDE DEF Same, Goes, Ends
    <3> QED
      BY <1>3, <1>4, <2>3, <3>2 DEF Store
  <2> QED
    BY <2>1, <2>2, <2>3 DEF TaskStep
<1> QED
  BY <1>1, <1>2, <1>5

\* Only a restart works on a process that is not up, and it works alone.
UpInv ==
  /\ \A t \in Slots : task[t].kind \in {"isolate", "release", "timer"} => process = "up"
  /\ \A t \in Slots : task[t].kind = "reconcile" => process = "starting"
  /\ \A t, u \in Slots : task[t].kind = "reconcile" /\ task[u].kind = "reconcile" => t = u

LEMMA UpInit == Init => UpInv
  BY IdleTask DEF Init, UpInv

\* A start begins one operation or none, and waits for no other.
LEMMA Started ==
  ASSUME TypeOK, NEW t \in Slots, Start(t)
  PROVE  /\ \A u \in Slots : u # t => task'[u] = task[u]
         /\ \/ task' = task /\ process' = "up"
            \/ task'[t].kind = "reconcile" /\ process' = "starting"
<1>1. CASE ~Recorded
  BY <1>1 DEF Start
<1>2. CASE Recorded
  <2>1. PICK after \in Nat, until \in Untils, net \in Networks \union {NoNet} :
          Begin(t, "reconcile", after, until, net)
    BY <1>2, StartBegins
  <2>2. (\A u \in Slots : u # t => task'[u] = task[u]) /\ task'[t].kind = "reconcile"
    BY <2>1, Began DEF Kinds
  <2> QED
    BY <1>2, <2>2 DEF Start
<1> QED
  BY <1>1, <1>2

\* A request or a timer begins an operation on a process that is up.
LEMMA Asked ==
  ASSUME TypeOK, NEW t \in Slots,
         (\E d \in Durations, n \in Networks : Isolate(t, d, n)) \/ Release(t) \/ TimerLifts(t)
  PROVE  /\ \A u \in Slots : u # t => task'[u] = task[u]
         /\ process = "up" /\ process' = process /\ clock' = clock
         /\ \/ task'[t].kind \in {"isolate", "release"} /\ lifting' = lifting
            \/ /\ task'[t].kind = "timer" /\ TimerLifts(t)
               /\ task'[t].until \in {r.until : r \in lifting}
<1>0. Forever \in Untils /\ {"isolate", "release", "timer"} \subseteq Kinds
  BY DEF Untils, Kinds
<1>1. CASE (\E d \in Durations, n \in Networks : Isolate(t, d, n)) \/ Release(t)
  <2>1. PICK after \in Nat, net \in Networks \union {NoNet}, kind \in {"isolate", "release"} :
          Request /\ Begin(t, kind, after, Forever, net)
    BY <1>1 DEF Isolate, Release
  <2>2. (\A u \in Slots : u # t => task'[u] = task[u]) /\ task'[t].kind \in {"isolate", "release"}
    BY <1>0, <2>1, Began
  <2> QED
    BY <2>1, <2>2 DEF Request
<1>2. CASE TimerLifts(t)
  <2>1. PICK r \in lifting : Begin(t, "timer", 0, r.until, NoNet)
    BY <1>2 DEF TimerLifts
  <2>2. r.until \in Untils
    BY DEF TypeOK, Records
  <2>3. (\A u \in Slots : u # t => task'[u] = task[u]) /\ task'[t].kind = "timer"
    BY <1>0, <2>1, <2>2, Began
  <2>4. task'[t].until = r.until
    BY <2>1 DEF Begin, TypeOK
  <2> QED
    BY <1>2, <2>3, <2>4 DEF TimerLifts
<1> QED
  BY <1>1, <1>2

LEMMA UpStep == TypeInv /\ UpInv /\ [Next]_vars => UpInv'
<1> SUFFICES ASSUME TypeInv, UpInv, [Next]_vars PROVE UpInv'
  OBVIOUS
<1>0. TypeOK /\ \A t \in Slots : task[t].kind \in Kinds
  BY TaskFields DEF TypeInv
<1>1. ASSUME NEW t \in Slots, TaskStep(t) PROVE UpInv'
  BY <1>0, <1>1, OperationStep DEF UpInv, Kinds
<1>2. ASSUME NEW t \in Slots,
             (\E d \in Durations, n \in Networks : Isolate(t, d, n)) \/ Release(t) \/ TimerLifts(t)
      PROVE  UpInv'
  BY <1>0, <1>2, Asked DEF UpInv
<1>3. ASSUME NEW t \in Slots, Start(t) PROVE UpInv'
  <2>1. process = "down"
    BY <1>3 DEF Start
  <2>2. \A u \in Slots : task[u].kind = "none"
    BY <1>0, <2>1 DEF UpInv, Kinds
  <2> QED
    BY <1>0, <1>3, <2>2, Started DEF UpInv
<1>4. ASSUME NEW reboot \in BOOLEAN, Crash(reboot) PROVE UpInv'
  BY <1>4, IdleTask DEF Crash, UpInv
<1>5. CASE Tick \/ TimerChecks \/ UNCHANGED vars
  BY <1>5 DEF Tick, TimerChecks, vars, UpInv
<1> QED
  BY <1>1, <1>2, <1>3, <1>4, <1>5 DEF Next

\* A timer that lifts found an end that had come: the clock only goes forward.
LEMMA LiftStep == TypeInv /\ LiftInv /\ [Next]_vars => LiftInv'
<1> SUFFICES ASSUME TypeInv, LiftInv, [Next]_vars PROVE LiftInv'
  OBVIOUS
<1>0. TypeOK /\ clock \in Nat
  BY DEF TypeInv, TypeOK
<1>1. ASSUME NEW t \in Slots, TaskStep(t) PROVE LiftInv'
  BY <1>1, OperationStep DEF LiftInv
<1>2. ASSUME NEW t \in Slots,
             (\E d \in Durations, n \in Networks : Isolate(t, d, n)) \/ Release(t) \/ TimerLifts(t)
      PROVE  LiftInv'
  <2>1. lifting' \subseteq lifting
    BY <1>0, <1>2, Asked DEF TimerLifts
  <2> QED
    BY <1>0, <1>2, <2>1, Asked DEF LiftInv
<1>3. CASE TimerChecks
  <2>1. Due => record.until \in 0 .. clock
    BY <1>0 DEF Due, Recorded, Records, Untils
  <2> QED
    BY <1>3, <2>1 DEF TimerChecks, LiftInv
<1>4. CASE Tick
  <2>1. clock' \in Nat /\ clock <= clock'
    BY <1>0, <1>4 DEF Tick
  <2>2. \A n : n \in 0 .. clock => n \in 0 .. clock'
    BY <1>0, <2>1
  <2> QED
    BY <1>4, <2>2 DEF Tick, LiftInv
<1>5. ASSUME NEW t \in Slots, Start(t) PROVE LiftInv'
  <2>1. lifting' = lifting /\ clock' = clock
    BY <1>5 DEF Start
  <2> QED
    BY <1>0, <1>5, <2>1, Started DEF LiftInv
<1>6. ASSUME NEW reboot \in BOOLEAN, Crash(reboot) PROVE LiftInv'
  <2>1. lifting' = {} /\ \A t \in Slots : task'[t] = Idle
    BY <1>6 DEF Crash
  <2> QED
    BY <2>1, IdleTask DEF LiftInv
<1>7. CASE UNCHANGED vars
  BY <1>7 DEF vars, LiftInv
<1> QED
  BY <1>1, <1>2, <1>3, <1>4, <1>5, <1>6, <1>7 DEF Next

LEMMA LiftInit == Init => LiftInv
  BY IdleTask DEF Init, LiftInv

\* A release timer lifts only what is due, or what replaced an isolation it had found
\* due before: the comparison with the recorded end is what tells them apart
\* (schedule_release). However many operations overlap.
THEOREM LiftedInTime == Spec => NotLiftedEarly
<1> DEFINE Lifts == (Contained /\ ~Contained' /\ Recorded /\ process = "up" /\ process' = "up")
                    => \/ record.until # Forever /\ record.until <= clock
                       \/ \E t \in Slots :
                            \/ task[t].kind \in {"isolate", "release"}
                            \/ /\ task[t].kind = "timer"
                               /\ task[t].until \in 0 .. clock
                               /\ task[t].until # record.until
           Inv == TypeInv /\ LiftInv /\ UpInv
<1>1. ASSUME Inv, [Next]_vars PROVE [Lifts]_vars
  <2> SUFFICES ASSUME Contained, ~Contained', Recorded, process = "up", process' = "up"
               PROVE  Lifts
    OBVIOUS
  <2>1. ~UNCHANGED firewall
    BY DEF Contained, Filtering, firewall
  <2>2. ASSUME NEW t \in Slots, TaskStep(t) PROVE Lifts
    <3>1. task[t].step # "idle" /\ TypeOK /\ NetInv(t) /\ task[t] # Idle
      BY <1>1, <2>2, IdleTask
      DEF TaskStep, Clear, Build, Hook, Undo, Store, Write, Drop, At, TypeInv
    <3>2. task[t].kind \in {"isolate", "release", "timer"}
      BY <1>1, <3>1, TaskFields DEF NetInv, UpInv, Kinds
    <3>3. CASE task[t].kind = "timer"
      <4>1. task[t].until \in 0 .. clock /\ clock \in Nat
        BY <1>1, <3>1, <3>3 DEF LiftInv, TypeOK
      <4>2. task[t].until = record.until => record.until # Forever /\ record.until <= clock
        BY <4>1 DEF Forever
      <4> QED
        BY <3>3, <4>1, <4>2
    <3> QED
      BY <3>2, <3>3
  <2>3. ASSUME NEW t \in Slots,
               \/ \E d \in Durations, n \in Networks : Isolate(t, d, n)
               \/ Release(t) \/ TimerLifts(t) \/ Start(t)
        PROVE  FALSE
    BY <2>1, <2>3 DEF Isolate, Release, Request, TimerLifts, Start
  <2>4. ASSUME NEW reboot \in BOOLEAN, Crash(reboot) PROVE FALSE
    BY <2>4 DEF Crash
  <2>5. ~TimerChecks /\ ~Tick /\ ~UNCHANGED vars
    BY <2>1 DEF TimerChecks, Tick, vars, firewall
  <2> QED
    BY <1>1, <2>2, <2>3, <2>4, <2>5 DEF Next
<1>2. Inv /\ [Next]_vars => [Lifts]_vars
  BY <1>1
<1>3. Init => Inv
  BY TypeInit, LiftInit, UpInit
<1>4. Inv /\ [Next]_vars => Inv'
  BY TypeStep, LiftStep, UpStep
<1> HIDE DEF Inv, Lifts
<1>5. Spec => [][Lifts]_vars
  BY <1>2, <1>3, <1>4, PTL DEF Spec
<1> QED
  BY <1>5 DEF NotLiftedEarly, Lifts

-----------------------------------------------------------------------------
(* One operation at a time *)

LEMMA InvTypes == IsolationInv => TypeInv
  BY DEF IsolationInv, TypeInv

LEMMA RecordKinds == ~(Missing \in Records) /\ ~(Torn \in Records)
<1>1. ~(-2 \in Untils) /\ ~(-3 \in Untils)
  BY DEF Untils, Forever
<1>2. \A r \in Records : r.until \in Untils
  BY DEF Records
<1> QED
  BY <1>1, <1>2 DEF Missing, Torn

\* The parts of the invariant about the order of operations.
OrderInv ==
  ChainInv /\ RestInv /\ \A t \in Slots : RecordInv(t) /\ RulesInv(t)

LEMMA InvParts == TypeInv /\ LiftInv /\ OrderInv <=> IsolationInv
  BY DEF IsolationInv, TypeInv, OrderInv

\* Nothing is claimed of the firewall between operations while one runs.
LEMMA RestWhileRunning ==
  ASSUME NEW t \in Slots, task'[t].step # "idle", process' # "up" => ~isolated'
  PROVE  RestInv'
<1>1. t \in Running'
  BY IdleTask DEF Running
<1> QED
  BY <1>1 DEF RestInv, InAgreement, Quiet

\* A slot whose operation ended.
LEMMA IdleOrder == ASSUME NEW t \in Slots, task'[t] = Idle PROVE RecordInv(t)' /\ RulesInv(t)'
  BY IdleTask DEF RecordInv, RulesInv, At

\* While an operation makes a step, the other slots are idle and stay so.
LEMMA OthersIdle ==
  ASSUME OneAtATime, TypeOK, NEW t \in Slots, TaskStep(t)
  PROVE  \A u \in Slots : u # t => task'[u] = Idle
<1> TAKE u \in Slots
<1> HAVE u # t
<1>1. task[t].step # "idle"
  BY DEF TaskStep, Clear, Build, Hook, Undo, Store, Write, Drop, At
<1>2. task[u] = Idle
  BY <1>1, IdleTask DEF OneAtATime, Running
<1>3. ASSUME NEW s, NEW f, GoTo(t, s, f) PROVE task'[u] = task[u]
  BY <1>3 DEF GoTo, TypeOK
<1>4. ASSUME GiveUp(t) \/ Finish(t) PROVE task'[u] = task[u]
  BY <1>4 DEF GiveUp, Finish, TypeOK
<1>5. CASE Clear(t) \/ Build(t) \/ Hook(t)
  BY <1>2, <1>3, <1>5 DEF Clear, Build, Hook
<1>6. CASE Undo(t) \/ Write(t) \/ Drop(t)
  BY <1>2, <1>3, <1>4, <1>6 DEF Undo, Write, Drop
<1>7. CASE Store(t)
  BY <1>2, <1>3, <1>4, <1>7 DEF Store, TypeOK
<1> QED
  BY <1>5, <1>6, <1>7 DEF TaskStep

\* An operation that goes on with the record as it was.
LEMMA GoesOn ==
  ASSUME OneAtATime, IsolationInv, NEW t \in Slots, task[t].step \notin {"idle", "write"},
         NEW s \in Steps \ {"idle"}, NEW f \in Families, GoTo(t, s, f),
         UNCHANGED <<process, record, isolated, clock>>
  PROVE  RestInv' /\ RecordInv(t)'
<1>1. /\ task'[t].step = s /\ task'[t].kind = task[t].kind /\ task'[t].net = task[t].net
  BY Moved DEF IsolationInv
<1>2. RecordInv(t) /\ (process # "up" => ~isolated)
  BY DEF IsolationInv, RestInv
<1>3. RecordInv(t)'
  BY <1>1, <1>2 DEF RecordInv, Due, Recorded
<1> QED
  BY <1>1, <1>2, <1>3, RestWhileRunning

LEMMA ClearOrder ==
  ASSUME OneAtATime, IsolationInv, NEW t \in Slots, Clear(t)
  PROVE  OrderInv'
<1>0. \A u \in Slots : u # t => task'[u] = Idle
  BY OthersIdle DEF TaskStep, IsolationInv
<1>1. PICK f \in {4, 6} : f = task[t].fam
  BY TaskFields DEF IsolationInv
<1>2. /\ TypeOK /\ ChainInv /\ NetInv(t) /\ RulesInv(t)
      /\ task[t].step = "clear" /\ Families = {4, 6}
      /\ {"clear", "drop", "build"} \subseteq Steps \ {"idle"}
      /\ UNCHANGED <<process, record, isolated, clock>>
  BY TaskFields DEF IsolationInv, Clear, At, Families, Steps
<1>3. jumps[f] <= 1
  BY <1>2 DEF ChainInv, TypeOK
<1>4. /\ ChainInv' /\ Cleared(f)'
      /\ \A g \in Families : g # f /\ Cleared(g) => Cleared(g)'
  <2>1. CASE Lift(f) /\ UNCHANGED faults
    BY <1>2, <1>3, <2>1, Lifted DEF ChainInv, Cleared
  <2>2. CASE LiftPartly(f)
    BY <1>2, <1>3, <2>2, PartlyLifted DEF ChainInv, Cleared, TypeOK
  <2> QED
    BY <1>1, <2>1, <2>2 DEF Clear
<1>5. CASE f = 4
  <2>1. GoTo(t, "clear", 6)
    BY <1>5, <1>1 DEF Clear
  <2>2. task'[t].step = "clear" /\ task'[t].fam = 6
    BY <1>2, <2>1, Moved
  <2>3. RulesInv(t)'
    BY <1>4, <1>5, <2>2 DEF RulesInv, At
  <2>4. RestInv' /\ RecordInv(t)'
    BY <1>2, <2>1, GoesOn
  <2> QED
    BY <1>2, <1>4, <2>3, <2>4, <1>0, IdleOrder DEF OrderInv
<1>6. CASE f = 6
  <2>1. PICK s \in {"drop", "build"} : GoTo(t, s, 4)
    BY <1>6, <1>1 DEF Clear
  <2>2. task'[t].step = s /\ task'[t].fam = 4
    BY <1>2, <2>1, Moved
  <2>3. Cleared(4)' /\ Cleared(6)'
    <3>1. Cleared(4)
      BY <1>2, <1>6, <1>1 DEF RulesInv, At
    <3> QED
      BY <1>2, <1>4, <1>6, <3>1
  <2>4. RulesInv(t)'
    BY <2>2, <2>3 DEF RulesInv, At
  <2>5. RestInv' /\ RecordInv(t)'
    BY <1>2, <2>1, GoesOn
  <2> QED
    BY <1>2, <1>4, <2>4, <2>5, <1>0, IdleOrder DEF OrderInv
<1> QED
  BY <1>2, <1>5, <1>6

LEMMA BuildOrder ==
  ASSUME OneAtATime, IsolationInv, NEW t \in Slots, Build(t)
  PROVE  OrderInv'
<1>0. \A u \in Slots : u # t => task'[u] = Idle
  BY OthersIdle DEF TaskStep, IsolationInv
<1>1. PICK f \in {4, 6}, net \in Networks \union {NoNet} :
        f = task[t].fam /\ net = task[t].net
  BY TaskFields DEF IsolationInv
<1>2. /\ TypeOK /\ ChainInv /\ NetInv(t) /\ RulesInv(t)
      /\ task[t].step = "build" /\ Families = {4, 6}
      /\ {"hook", "undo"} \subseteq Steps \ {"idle"}
      /\ UNCHANGED <<process, jumps, record, isolated, clock, leftover>>
  BY TaskFields DEF IsolationInv, Build, At, Families, Steps, history
<1>3. f = 6 => InForce(4, net)
  BY <1>2, <1>1 DEF RulesInv, At
<1>4. CASE /\ chain[f] = "absent"
           /\ chain' = [chain EXCEPT ![f] = "built"]
           /\ loaded' = [loaded EXCEPT ![f] = net]
           /\ GoTo(t, "hook", f)
  <2>1. jumps[f] = 0 /\ chain'[f] = "built" /\ loaded'[f] = net
        /\ \A g \in Families : g # f => chain'[g] = chain[g] /\ loaded'[g] = loaded[g]
    BY <1>2, <1>4 DEF ChainInv, TypeOK
  <2>2. task'[t].step = "hook" /\ task'[t].fam = f /\ task'[t].net = net
    BY <1>2, <1>4, <1>1, Moved
  <2>3. ChainInv'
    BY <1>2, <2>1 DEF ChainInv
  <2>4. f = 6 => InForce(4, net)'
    BY <1>2, <1>3, <2>1 DEF InForce, Filtering
  <2>5. RulesInv(t)'
    BY <1>2, <2>1, <2>2, <2>4 DEF RulesInv, At, InForce, Filtering
  <2>6. RestInv' /\ RecordInv(t)'
    BY <1>2, <1>4, GoesOn
  <2> QED
    BY <1>2, <2>3, <2>5, <2>6, <1>0, IdleOrder DEF OrderInv
<1>5. CASE GoTo(t, "undo", 4) /\ (chain' = chain \/ (chain[f] = "absent" /\ chain' = [chain EXCEPT ![f] = "empty"]))
  <2>1. task'[t].step = "undo" /\ task'[t].fam = 4
    BY <1>2, <1>5, Moved
  <2>2. RulesInv(t)'
    BY <2>1 DEF RulesInv, At
  <2>3. ChainInv'
    BY <1>2, <1>5 DEF ChainInv, TypeOK
  <2>4. RestInv' /\ RecordInv(t)'
    BY <1>2, <1>5, GoesOn
  <2> QED
    BY <1>2, <2>2, <2>3, <2>4, <1>0, IdleOrder DEF OrderInv
<1> QED
  BY <1>4, <1>5, <1>1 DEF Build

LEMMA HookOrder ==
  ASSUME OneAtATime, IsolationInv, NEW t \in Slots, Hook(t)
  PROVE  OrderInv'
<1>0. \A u \in Slots : u # t => task'[u] = Idle
  BY OthersIdle DEF TaskStep, IsolationInv
<1>1. PICK f \in {4, 6}, net \in Networks \union {NoNet} :
        f = task[t].fam /\ net = task[t].net
  BY TaskFields DEF IsolationInv
<1>2. /\ TypeOK /\ ChainInv /\ NetInv(t) /\ RulesInv(t)
      /\ task[t].step = "hook" /\ Families = {4, 6}
      /\ {"build", "undo", "store"} \subseteq Steps \ {"idle"}
      /\ UNCHANGED <<process, chain, loaded, record, isolated, clock, leftover>>
  BY TaskFields DEF IsolationInv, Hook, At, Families, Steps, history
<1>3. /\ f = 6 => InForce(4, net)
      /\ chain[f] = "built" /\ loaded[f] = net /\ jumps[f] = 0
  BY <1>2, <1>1 DEF RulesInv, At
<1>4. CASE /\ jumps' = [jumps EXCEPT ![f] = @ + 1]
           /\ IF f = 4 THEN GoTo(t, "build", 6) ELSE GoTo(t, "store", 6)
  <2>1. jumps'[f] = 1 /\ \A g \in Families : g # f => jumps'[g] = jumps[g]
    BY <1>2, <1>3, <1>4 DEF TypeOK
  <2>2. task'[t].step = (IF f = 4 THEN "build" ELSE "store")
        /\ task'[t].fam = 6 /\ task'[t].net = net
    BY <1>2, <1>4, <1>1, Moved
  <2>3. ChainInv'
    BY <1>2, <1>3, <2>1 DEF ChainInv
  <2>4. InForce(f, net)' /\ (f = 6 => InForce(4, net)')
    BY <1>2, <1>3, <2>1 DEF InForce, Filtering
  <2>5. RulesInv(t)'
    BY <1>2, <2>2, <2>4 DEF RulesInv, At, InForce, Filtering
  <2>6. RestInv' /\ RecordInv(t)'
    BY <1>2, <1>4, GoesOn
  <2> QED
    BY <1>2, <2>3, <2>5, <2>6, <1>0, IdleOrder DEF OrderInv
<1>5. CASE GoTo(t, "undo", 4) /\ UNCHANGED jumps
  <2>1. task'[t].step = "undo" /\ task'[t].fam = 4
    BY <1>2, <1>5, Moved
  <2>2. RulesInv(t)' /\ ChainInv'
    BY <1>2, <1>5, <2>1 DEF RulesInv, At, ChainInv
  <2>3. RestInv' /\ RecordInv(t)'
    BY <1>2, <1>5, GoesOn
  <2> QED
    BY <1>2, <2>2, <2>3, <1>0, IdleOrder DEF OrderInv
<1> QED
  BY <1>4, <1>5, <1>1 DEF Hook

LEMMA UndoOrder ==
  ASSUME OneAtATime, IsolationInv, NEW t \in Slots, Undo(t)
  PROVE  OrderInv'
<1>0. \A u \in Slots : u # t => task'[u] = Idle
  BY OthersIdle DEF TaskStep, IsolationInv
<1>1. PICK f \in {4, 6} : f = task[t].fam
  BY TaskFields DEF IsolationInv
<1>2. /\ TypeOK /\ ChainInv /\ RulesInv(t) /\ RecordInv(t) /\ RestInv
      /\ task[t].step = "undo" /\ Families = {4, 6} /\ "undo" \in Steps \ {"idle"}
      /\ UNCHANGED <<record, isolated, clock>>
  BY DEF IsolationInv, Undo, At, Families, Steps
<1>3. jumps[f] <= 1
  BY <1>2 DEF ChainInv, TypeOK
<1>4. /\ ChainInv' /\ Cleared(f)'
      /\ \A g \in Families : g # f /\ Cleared(g) => Cleared(g)'
  <2>1. CASE Lift(f)
    BY <1>2, <1>3, <2>1, Lifted DEF ChainInv, Cleared
  <2>2. CASE LiftPartly(f)
    BY <1>2, <1>3, <2>2, PartlyLifted DEF ChainInv, Cleared, TypeOK
  <2> QED
    BY <1>1, <2>1, <2>2 DEF Undo
<1>5. CASE f = 4
  <2>1. GoTo(t, "undo", 6) /\ process' = process
    BY <1>5, <1>1 DEF Undo
  <2>2. task'[t].step = "undo" /\ task'[t].fam = 6
    BY <1>2, <2>1, Moved
  <2>3. RulesInv(t)'
    BY <1>4, <1>5, <2>2 DEF RulesInv, At
  <2>4. RestInv' /\ RecordInv(t)'
    BY <1>2, <2>1, GoesOn
  <2> QED
    BY <1>2, <1>4, <2>3, <2>4, <1>0, IdleOrder DEF OrderInv
<1>6. CASE f = 6
  <2>1. GiveUp(t)
    BY <1>6, <1>1 DEF Undo
  <2>2. /\ task'[t] = Idle /\ failed' = TRUE
        /\ process' = IF task[t].kind = "isolate" THEN process ELSE "up"
    BY <1>2, <2>1, GivenUp
  <2>3. Cleared(4)' /\ Cleared(6)'
    <3>1. Cleared(4)
      BY <1>2, <1>6, <1>1 DEF RulesInv, At
    <3> QED
      BY <1>2, <1>4, <1>6, <3>1
  <2>4. process' = "up"
    BY <1>2, <2>2 DEF RecordInv
  <2>5. RestInv'
    BY <1>2, <2>2, <2>3, <2>4 DEF RestInv, InAgreement, Filtering, Cleared
  <2> QED
    BY <1>2, <1>4, <2>2, <2>5, <1>0, IdleOrder DEF OrderInv
<1> QED
  BY <1>5, <1>6

LEMMA StoreOrder ==
  ASSUME OneAtATime, IsolationInv, NEW t \in Slots, Store(t)
  PROVE  OrderInv'
<1>0. \A u \in Slots : u # t => task'[u] = Idle
  BY OthersIdle DEF TaskStep, IsolationInv
<1>1. /\ TypeOK /\ ChainInv /\ NetInv(t) /\ RulesInv(t) /\ RecordInv(t) /\ RestInv
      /\ task[t].step = "store" /\ Families = {4, 6} /\ "undo" \in Steps \ {"idle"}
      /\ UNCHANGED <<chain, loaded, jumps, clock>>
  BY DEF IsolationInv, Store, At, Families, Steps, firewall
<1>2. /\ task[t].kind \in {"isolate", "reconcile"} /\ task[t].net # NoNet
      /\ InForce(4, task[t].net) /\ InForce(6, task[t].net)
  BY <1>1, TaskFields, IdleTask DEF NetInv, RulesInv, At, Kinds
<1>3. ChainInv'
  BY <1>1 DEF ChainInv
<1>4. CASE /\ record' = Torn
           /\ task' = [task EXCEPT ![t].step = "write",
                                   ![t].until = IF task[t].kind = "isolate"
                                                THEN End(task[t].after) ELSE @]
           /\ UNCHANGED <<process, isolated, timers, faults, history>>
  <2>1. /\ task'[t].step = "write" /\ task'[t].kind = task[t].kind
        /\ task'[t].net = task[t].net
    BY <1>1, <1>4 DEF TypeOK, Tasks
  <2>2. RecordInv(t)'
    BY <1>1, <1>2, <1>4, <2>1 DEF RecordInv
  <2>3. RulesInv(t)'
    BY <1>1, <1>2, <2>1 DEF RulesInv, At, InForce, Filtering
  <2>4. RestInv'
    BY <1>1, <1>4, <2>1, RestWhileRunning DEF RestInv
  <2> QED
    BY <1>1, <1>3, <2>2, <2>3, <2>4, <1>0, IdleOrder DEF OrderInv
<1>5. CASE record' \in {record, Torn} /\ task[t].kind = "isolate"
           /\ GoTo(t, "undo", 4) /\ UNCHANGED <<process, isolated, timers, history>>
  <2>1. task'[t].step = "undo" /\ task'[t].fam = 4 /\ task'[t].kind = "isolate"
    BY <1>1, <1>5, Moved
  <2>2. RecordInv(t)' /\ RulesInv(t)'
    BY <1>1, <1>5, <2>1 DEF RecordInv, RulesInv, At
  <2>3. RestInv'
    BY <1>1, <1>5, <2>1, RestWhileRunning DEF RestInv
  <2> QED
    BY <1>1, <1>3, <2>2, <2>3, <1>0, IdleOrder DEF OrderInv
<1>6. CASE /\ record' \in {record, Torn} /\ task[t].kind # "isolate"
           /\ isolated' = TRUE /\ GiveUp(t)
           /\ leftover' = IF record' = Torn THEN Families ELSE leftover
  <2>1. task'[t] = Idle /\ failed' = TRUE /\ process' = "up"
    BY <1>1, <1>6, GivenUp
  <2>2. Recorded
    BY <1>1, <1>2, <1>6 DEF RecordInv
  <2>3. leftover' = Families \/ Recorded'
    BY <1>6, <2>2 DEF Recorded
  <2>4. RestInv'
    BY <2>1, <2>3 DEF RestInv, InAgreement
  <2> QED
    BY <1>1, <1>3, <2>1, <2>4, <1>0, IdleOrder DEF OrderInv
<1> QED
  BY <1>4, <1>5, <1>6 DEF Store

LEMMA WriteOrder ==
  ASSUME OneAtATime, IsolationInv, NEW t \in Slots, Write(t)
  PROVE  OrderInv'
<1>0. \A u \in Slots : u # t => task'[u] = Idle
  BY OthersIdle DEF TaskStep, IsolationInv
<1>1. /\ TypeOK /\ ChainInv /\ NetInv(t) /\ RulesInv(t) /\ task[t].step = "write"
      /\ Families = {4, 6} /\ UNCHANGED <<chain, loaded, jumps>>
  BY DEF IsolationInv, Write, At, Families, firewall
<1>2. InForce(4, task[t].net) /\ InForce(6, task[t].net) /\ task[t].net \in Networks
  BY <1>1 DEF RulesInv, NetInv, At
<1>3. task'[t] = Idle /\ process' = "up"
  BY <1>1, Ended DEF Write
<1>4. /\ record' = [until |-> task[t].until, net |-> task[t].net] /\ isolated' = TRUE
      /\ record'.net = task[t].net
  BY DEF Write
<1>5. Recorded'
  BY <1>1, <1>2, <1>4, TaskFields DEF Recorded, Records
<1>6. \A f \in Families : Filtering(f)' /\ loaded'[f] = record'.net
  BY <1>1, <1>2, <1>4 DEF InForce, Filtering
<1>7. RestInv'
  BY <1>3, <1>4, <1>5, <1>6 DEF RestInv, InAgreement
<1> QED
  BY <1>1, <1>3, <1>7, <1>0, IdleOrder DEF OrderInv, ChainInv

LEMMA DropOrder ==
  ASSUME OneAtATime, IsolationInv, NEW t \in Slots, Drop(t)
  PROVE  OrderInv'
<1>0. \A u \in Slots : u # t => task'[u] = Idle
  BY OthersIdle DEF TaskStep, IsolationInv
<1>1. /\ TypeOK /\ ChainInv /\ RulesInv(t) /\ task[t].step = "drop"
      /\ Families = {4, 6} /\ UNCHANGED <<chain, loaded, jumps, leftover>>
  BY DEF IsolationInv, Drop, At, Families, firewall
<1>2. Cleared(4) /\ Cleared(6)
  BY <1>1 DEF RulesInv, At
<1>3. task'[t] = Idle /\ process' = "up" /\ isolated' = FALSE
  BY <1>1, Ended DEF Drop
<1>4. failed' = TRUE \/ ~Recorded'
  BY RecordKinds DEF Drop, Recorded
<1>5. \A f \in Families \ leftover' : ~Filtering(f)'
  BY <1>1, <1>2 DEF Cleared, Filtering
<1>6. RestInv'
  BY <1>3, <1>4, <1>5 DEF RestInv, InAgreement
<1> QED
  BY <1>1, <1>3, <1>6, <1>0, IdleOrder DEF OrderInv, ChainInv

\* While an operation runs after a step, the other slots are idle.
LEMMA AloneNext ==
  ASSUME OneAtATime', NEW t \in Slots, task'[t].step # "idle"
  PROVE  \A u \in Slots : u # t => task'[u] = Idle
  BY IdleTask DEF OneAtATime, Running

\* A request or a timer begins an operation when none is under way.
LEMMA BeginOrder ==
  ASSUME OneAtATime', IsolationInv, NEW t \in Slots,
         (\E d \in Durations, n \in Networks : Isolate(t, d, n)) \/ Release(t) \/ TimerLifts(t)
  PROVE  OrderInv'
<1>0. /\ TypeOK /\ ChainInv /\ RestInv /\ Forever \in Untils
      /\ {"isolate", "release", "timer"} \subseteq Kinds
  BY DEF IsolationInv, Untils, Kinds
<1>1. /\ process = "up"
      /\ UNCHANGED <<process, chain, loaded, jumps, record, isolated, clock, failed, leftover>>
  BY DEF Isolate, Release, Request, TimerLifts, firewall, history
<1>2. ChainInv'
  BY <1>0, <1>1 DEF ChainInv
<1>3. PICK kind \in {"isolate", "release", "timer"}, after \in Nat, until \in Untils,
           net \in Networks \union {NoNet} : Begin(t, kind, after, until, net)
  BY <1>0 DEF Isolate, Release, TimerLifts, TypeOK, Records
<1>4. task'[t].step = "clear" /\ task'[t].fam = 4 /\ task'[t].kind = kind
  BY <1>0, <1>3, Began
<1>5. RecordInv(t)' /\ RulesInv(t)'
  BY <1>1, <1>4 DEF RecordInv, RulesInv, At
<1>6. RestInv'
  BY <1>1, <1>4, RestWhileRunning
<1> QED
  BY <1>2, <1>4, <1>5, <1>6, AloneNext, IdleOrder DEF OrderInv

LEMMA ProcessOrder ==
  ASSUME OneAtATime', IsolationInv,
         \/ (\E reboot \in BOOLEAN : Crash(reboot)) \/ (\E t \in Slots : Start(t))
         \/ Tick \/ TimerChecks
  PROVE  OrderInv'
<1>0. TypeOK /\ ChainInv /\ RestInv /\ \A t \in Slots : NetInv(t) /\ RecordInv(t) /\ RulesInv(t)
  BY DEF IsolationInv
<1>1. ASSUME NEW reboot \in BOOLEAN, Crash(reboot) PROVE OrderInv'
  <2>1. /\ process' = "down" /\ isolated' = FALSE /\ record' = record
        /\ \A t \in Slots : task'[t] = Idle
    BY <1>1 DEF Crash
  <2>2. CASE reboot
    <3>1. \A f \in Families : chain'[f] = "absent" /\ jumps'[f] = 0
      BY <1>1, <2>2 DEF Crash
    <3>2. ChainInv' /\ RestInv'
      BY <2>1, <3>1 DEF ChainInv, RestInv, InAgreement, Quiet, Filtering
    <3> QED
      BY <2>1, <3>2, IdleOrder DEF OrderInv
  <2>3. CASE ~reboot
    <3>1. /\ UNCHANGED firewall
          /\ leftover' = IF Running = {} THEN leftover ELSE Families
      BY <1>1, <2>3 DEF Crash
    <3>2. ChainInv'
      BY <1>0, <3>1 DEF ChainInv, firewall
    <3>3. \A f \in Families \ leftover' : Filtering(f)' => Recorded'
      BY <1>0, <2>1, <3>1 DEF RestInv, Filtering, Recorded, firewall
    <3>4. RestInv'
      BY <2>1, <3>3 DEF RestInv, InAgreement, Quiet
    <3> QED
      BY <2>1, <3>2, <3>4, IdleOrder DEF OrderInv
  <2> QED
    BY <2>2, <2>3
<1>2. ASSUME NEW t \in Slots, Start(t) PROVE OrderInv'
  <2>0. /\ process = "down" /\ ~isolated
        /\ UNCHANGED <<chain, loaded, jumps, record, isolated, clock, failed, leftover>>
    BY <1>0, <1>2 DEF Start, RestInv, firewall, history
  <2>1. ChainInv'
    BY <1>0, <2>0 DEF ChainInv
  <2>2. CASE ~Recorded
    <3>1. process' = "up" /\ task' = task
      BY <1>2, <2>2 DEF Start
    <3>2. \A u \in Slots : task[u] = Idle
      BY <1>0, <2>0, TaskFields DEF RecordInv, NetInv, Kinds
    <3>3. Running = {} /\ ~Recorded'
      BY <2>0, <2>2, <3>2 DEF Running, Recorded
    <3>4. RestInv'
      BY <1>0, <2>0, <3>1, <3>3 DEF RestInv, InAgreement, Filtering, Recorded
    <3> QED
      BY <2>1, <3>1, <3>2, <3>4, IdleOrder DEF OrderInv
  <2>3. CASE Recorded
    <3>1. PICK after \in Nat, until \in Untils, net \in Networks \union {NoNet} :
            Begin(t, "reconcile", after, until, net)
      BY <1>0, <1>2, <2>3, StartBegins
    <3>2. /\ task'[t].step = "clear" /\ task'[t].fam = 4 /\ task'[t].kind = "reconcile"
      BY <1>0, <3>1, Began DEF Kinds
    <3>3. process' = "starting" /\ Recorded'
      BY <1>2, <2>0, <2>3 DEF Start, Recorded
    <3>4. RecordInv(t)' /\ RulesInv(t)'
      BY <3>2, <3>3 DEF RecordInv, RulesInv, At
    <3>5. RestInv'
      BY <2>0, <3>2, RestWhileRunning
    <3> QED
      BY <2>1, <3>2, <3>4, <3>5, AloneNext, IdleOrder DEF OrderInv
  <2> QED
    BY <2>2, <2>3
<1>3. CASE Tick \/ TimerChecks
  <2>1. UNCHANGED <<process, chain, loaded, jumps, record, isolated, task, failed, leftover>>
    BY <1>3 DEF Tick, TimerChecks, firewall, history
  <2>2. \A t \in Slots : RecordInv(t)' /\ RulesInv(t)'
    BY <1>0, <2>1 DEF RecordInv, Recorded, RulesInv, At, Cleared, InForce, Filtering
  <2>3. ChainInv' /\ RestInv'
    BY <1>0, <2>1 DEF ChainInv, RestInv, InAgreement, Quiet, Running, Filtering, Recorded
  <2> QED
    BY <2>2, <2>3 DEF OrderInv
<1> QED
  BY <1>1, <1>2, <1>3

LEMMA IsolationInit == Init => IsolationInv
<1> SUFFICES ASSUME Init PROVE IsolationInv
  OBVIOUS
<1>1. TypeInv /\ LiftInv
  BY TypeInit, LiftInit
<1>2. \A t \in Slots : task[t].kind = "none" /\ task[t].step = "idle"
  BY IdleTask DEF Init
<1>3. \A t \in Slots : RecordInv(t) /\ RulesInv(t)
  BY <1>2 DEF RecordInv, RulesInv, At
<1>4. ~Recorded
  BY RecordKinds DEF Init, Recorded
<1>5. ChainInv /\ RestInv
  BY <1>4 DEF Init, ChainInv, RestInv, InAgreement, Filtering
<1> QED
  BY <1>1, <1>3, <1>5, InvParts DEF OrderInv

LEMMA IsolationStep ==
  OneAtATime /\ OneAtATime' /\ IsolationInv /\ [Next]_vars => IsolationInv'
<1> SUFFICES ASSUME OneAtATime, OneAtATime', IsolationInv, [Next]_vars PROVE IsolationInv'
  OBVIOUS
<1>1. TypeInv' /\ LiftInv'
  BY InvTypes, TypeStep, LiftStep DEF IsolationInv
<1>2. OrderInv'
  <2>1. ASSUME NEW t \in Slots, TaskStep(t) PROVE OrderInv'
    BY <2>1, ClearOrder, BuildOrder, HookOrder, UndoOrder, StoreOrder, WriteOrder,
       DropOrder DEF TaskStep
  <2>2. CASE UNCHANGED vars
    BY <2>2 DEF vars, IsolationInv, OrderInv, ChainInv, RestInv, InAgreement, Quiet, Running,
       Filtering, Recorded, RecordInv, RulesInv, At, Cleared, InForce
  <2> QED
    BY <2>1, <2>2, BeginOrder, ProcessOrder DEF Next
<1> QED
  BY <1>1, <1>2 DEF IsolationInv, TypeInv, OrderInv

-----------------------------------------------------------------------------
(* The properties *)

\* What the agent reports, what it recorded and what the firewall does agree
\* between operations, kills and reboots included, unless the last operation
\* failed, in every run where no two operations overlap (isolate_host,
\* release_host, reconcile_host_isolation).
THEOREM Agreement == Spec /\ []OneAtATime => []InAgreement
<1>1. IsolationInv => InAgreement
  BY DEF IsolationInv, RestInv
<1> QED
  BY <1>1, IsolationInit, IsolationStep, PTL DEF Spec

\* Rules in force are on record between operations, but for what a kill or a
\* failed command left behind: apply_rules undoes what it could not finish. No
\* two operations overlap.
THEOREM Recording == Spec /\ []OneAtATime => []FilteringIsRecorded
<1>1. IsolationInv => FilteringIsRecorded
  BY DEF IsolationInv, RestInv, FilteringIsRecorded, Quiet
<1> QED
  BY <1>1, IsolationInit, IsolationStep, PTL DEF Spec

-----------------------------------------------------------------------------
(* The ranges between the exceptions *)

\* A non-empty set of natural numbers has a least element.
LEMMA LeastNatural ==
  ASSUME NEW T \in SUBSET Nat, T # {}
  PROVE  \E x \in T : \A y \in T : x <= y
<1> DEFINE R == OpToRel(<, Nat)
<1>1. IsWellFoundedOn(R, Nat)
  BY NatLessThanWellFounded, Zenon
<1>2. \A y, x \in Nat : y < x => <<y, x>> \in R
  BY DEF OpToRel
<1> HIDE DEF R
<1>3. PICK x \in T : \A y \in T : <<y, x>> \notin R
  BY <1>1, WFMin, Zenon
<1>4. \A y \in T : y \in Nat /\ x \in Nat /\ ~(y < x)
  BY <1>2, <1>3
<1>5. \A y \in T : x <= y
  BY <1>4
<1> QED
  BY <1>5

\* Of some ranges one comes last, by its start, then by its end.
LEMMA LastOfRanges ==
  ASSUME NEW top \in Nat, NEW s \in SUBSET Ranges(top), s # {}
  PROVE  /\ LastRange(s) \in s
         /\ \A r \in s : r[1] <= LastRange(s)[1]
<1> DEFINE FromEnd(k, T) == {top - r[k] : r \in T}
<1>1. \A r \in s : r[1] \in 0 .. top /\ r[2] \in 0 .. top
  BY DEF Ranges
<1>2. PICK a \in s : \A r \in s : r[1] <= a[1]
  <2>1. PICK x \in FromEnd(1, s) : \A y \in FromEnd(1, s) : x <= y
    <3>1. FromEnd(1, s) \subseteq Nat /\ FromEnd(1, s) # {}
      BY <1>1
    <3> QED
      BY <3>1, LeastNatural
  <2>2. PICK a \in s : x = top - a[1]
    OBVIOUS
  <2>3. \A r \in s : top - a[1] <= top - r[1]
    BY <2>1, <2>2
  <2> QED
    BY <1>1, <2>3
<1> DEFINE late == {r \in s : r[1] = a[1]}
<1>3. PICK b \in late : \A r \in late : r[2] <= b[2]
  <2>1. PICK x \in FromEnd(2, late) : \A y \in FromEnd(2, late) : x <= y
    <3>1. FromEnd(2, late) \subseteq Nat /\ FromEnd(2, late) # {}
      BY <1>1
    <3> QED
      BY <3>1, LeastNatural
  <2>2. PICK b \in late : x = top - b[2]
    OBVIOUS
  <2>3. \A r \in late : top - b[2] <= top - r[2]
    BY <2>1, <2>2
  <2> QED
    BY <1>1, <2>3
<1> DEFINE Last(r) == \A q \in s : q[1] < r[1] \/ (q[1] = r[1] /\ q[2] <= r[2])
<1>4. b \in s /\ Last(b)
  BY <1>1, <1>2, <1>3
<1>5. LastRange(s) \in s /\ Last(LastRange(s))
  <2> HIDE DEF Last
  <2>1. (CHOOSE r \in s : Last(r)) \in s /\ Last(CHOOSE r \in s : Last(r))
    BY <1>4, Zenon
  <2>2. LastRange(s) = CHOOSE r \in s : Last(r)
    BY Zenon DEF LastRange, Last
  <2> QED
    BY <2>1, <2>2
<1> QED
  BY <1>1, <1>5

\* One of the ranges s keeps the address open.
Covered(s, n) == \E r \in s : Between(n, r)

\* After the ranges s: below the cursor an address is blocked or kept open, never
\* both, and the cursor follows the last address kept open.
GapsSoFar(s, acc, top) ==
  /\ acc.cursor \in -1 .. top
  /\ \A n \in 0 .. top : (\E range \in acc.blocked : Between(n, range))
                           <=> ~Covered(s, n) /\ (acc.cursor = -1 \/ n < acc.cursor)
  /\ acc.cursor = -1 => \E r \in s : r[2] = top
  /\ acc.cursor # -1 =>
       /\ \A r \in s : r[2] < acc.cursor
       /\ acc.cursor = 0 \/ \E r \in s : r[2] + 1 = acc.cursor

\* One more range, not before the others, leaves the gaps right.
LEMMA GapStepRight ==
  ASSUME NEW top \in Nat, NEW s \in SUBSET Ranges(top), NEW x \in Ranges(top),
         NEW acc, \A r \in s : r[1] <= x[1], GapsSoFar(s, acc, top)
  PROVE  GapsSoFar(s \union {x}, GapStep(x, acc, top), top)
<1> DEFINE next == GapStep(x, acc, top)
<1>1. /\ x[1] \in 0 .. top /\ x[2] \in 0 .. top /\ x[1] <= x[2]
      /\ \A r \in s : r[1] \in 0 .. top /\ r[2] \in 0 .. top /\ r[1] <= r[2]
  BY DEF Ranges
<1>2. \A n : Covered(s \union {x}, n) <=> Covered(s, n) \/ Between(n, x)
  BY DEF Covered
<1>3. CASE acc.cursor = -1
  <2>1. next = acc
    BY <1>3 DEF GapStep
  <2>2. PICK r \in s : r[2] = top
    BY <1>3 DEF GapsSoFar
  <2>3. \A n \in 0 .. top : Between(n, x) => Covered(s, n)
    BY <1>1, <2>2 DEF Between, Covered
  <2> QED
    BY <1>2, <1>3, <2>1, <2>2, <2>3 DEF GapsSoFar
<1>4. CASE acc.cursor # -1
  <2>1. acc.cursor \in 0 .. top
    BY <1>4 DEF GapsSoFar
  <2> DEFINE c == acc.cursor
             gap == IF x[1] > c THEN {<<c, x[1] - 1>>} ELSE {}
             to == IF x[2] < c THEN c ELSE IF x[2] < top THEN x[2] + 1 ELSE -1
  <2>2. next.blocked = acc.blocked \union gap /\ next.cursor = to
    BY <1>4 DEF GapStep
  <2>3. to \in -1 .. top /\ (to = -1 => x[2] = top)
    BY <1>1, <2>1
  <2>4. to # -1 => /\ \A r \in s \union {x} : r[2] < to
                   /\ to = 0 \/ \E r \in s \union {x} : r[2] + 1 = to
    BY <1>1, <1>4, <2>1 DEF GapsSoFar
  <2>5. \A n \in 0 .. top : (\E range \in gap : Between(n, range))
                              <=> c <= n /\ n < x[1]
    <3>1. CASE x[1] > c
      <4>1. \A n \in 0 .. top : Between(n, <<c, x[1] - 1>>) <=> c <= n /\ n < x[1]
        BY <1>1, <2>1 DEF Between
      <4> QED
        BY <3>1, <4>1
    <3>2. CASE ~(x[1] > c)
      BY <1>1, <2>1, <3>2
    <3> QED
      BY <3>1, <3>2
  <2>6. \A n \in 0 .. top : Covered(s, n) => n < c
    BY <1>1, <1>4, <2>1 DEF GapsSoFar, Covered, Between
  <2>7. \A n \in 0 .. top : x[1] <= n /\ n < c => Covered(s, n)
    BY <1>1, <1>4, <2>1 DEF GapsSoFar, Covered, Between
  <2>8. \A n \in 0 .. top : (\E range \in acc.blocked : Between(n, range))
                              <=> ~Covered(s, n) /\ n < c
    BY <1>4 DEF GapsSoFar
  <2>9. ASSUME NEW n \in 0 .. top
        PROVE  (\E range \in acc.blocked \union gap : Between(n, range))
                 <=> ~Covered(s \union {x}, n) /\ (to = -1 \/ n < to)
    <3>1. Between(n, x) <=> x[1] <= n /\ n <= x[2]
      BY DEF Between
    <3>2. (\E range \in acc.blocked \union gap : Between(n, range))
            <=> (~Covered(s, n) /\ n < c) \/ (c <= n /\ n < x[1])
      BY <2>5, <2>8
    <3>3. (~Covered(s, n) /\ n < c) \/ (c <= n /\ n < x[1])
            <=> ~Covered(s, n) /\ ~(x[1] <= n /\ n <= x[2]) /\ (to = -1 \/ n < to)
      BY <1>1, <2>1, <2>6, <2>7
    <3> QED
      BY <1>2, <3>1, <3>2, <3>3
  <2> HIDE DEF gap, to, next
  <2> QED
    BY <2>2, <2>3, <2>4, <2>9 DEF GapsSoFar, next
<1> QED
  BY <1>3, <1>4

NoGaps == [blocked |-> {}, cursor |-> 0]

\* The function that the fold of gaps defines exists.
LEMMA GapsFunction ==
  ASSUME NEW top \in Nat, NEW keep \in SUBSET Ranges(top), IsFiniteSet(keep)
  PROVE  \E g : g = [s \in SUBSET keep |->
                       IF s = {} THEN NoGaps
                       ELSE GapStep(LastRange(s), g[s \ {LastRange(s)}], top)]
<1> DEFINE Upto(k) == {s \in SUBSET keep : Cardinality(s) <= k}
           Rest(s) == s \ {LastRange(s)}
           Body(g, s) == IF s = {} THEN NoGaps ELSE GapStep(LastRange(s), g[Rest(s)], top)
           Defined(k) == \E g : g = [s \in Upto(k) |-> Body(g, s)]
           Bad == {k \in Nat : ~Defined(k)}
<1>1. \A s \in SUBSET keep : /\ IsFiniteSet(s) /\ Cardinality(s) \in Nat
                             /\ Cardinality(s) <= Cardinality(keep)
                             /\ Cardinality(s) = 0 <=> s = {}
  BY FS_Subset, FS_CardinalityType, FS_EmptySet
<1>2. ASSUME NEW s \in SUBSET keep, s # {}
      PROVE  Rest(s) \in SUBSET keep /\ Cardinality(Rest(s)) = Cardinality(s) - 1
  <2>1. LastRange(s) \in s
    BY <1>2, LastOfRanges
  <2> QED
    BY <1>1, <2>1, FS_RemoveElement
<1>3. Bad = {}
  <2> SUFFICES ASSUME Bad # {} PROVE FALSE
    OBVIOUS
  <2>1. PICK k \in Bad : \A j \in Bad : k <= j
    BY LeastNatural
  <2>2. k # 0
    <3>1. Upto(0) = {{}}
      BY <1>1, FS_EmptySet
    <3> DEFINE g == [s \in Upto(0) |-> NoGaps]
    <3>2. g = [s \in Upto(0) |-> Body(g, s)]
      BY <3>1
    <3> QED
      BY <3>2
  <2>3. k - 1 \in Nat /\ k - 1 \notin Bad
    <3>1. k \in Nat
      BY <2>1
    <3> HIDE DEF Bad
    <3> QED
      BY <2>1, <2>2, <3>1
  <2>4. PICK g : g = [s \in Upto(k - 1) |-> Body(g, s)]
    BY <2>3
  <2> DEFINE h == [s \in Upto(k) |-> Body(g, s)]
  <2>5. ASSUME NEW s \in Upto(k), s # {} PROVE h[Rest(s)] = g[Rest(s)]
    <3>1. Rest(s) \in Upto(k - 1) /\ Rest(s) \in Upto(k)
      BY <1>1, <1>2, <2>3, <2>5
    <3>2. h[Rest(s)] = Body(g, Rest(s)) /\ g[Rest(s)] = Body(g, Rest(s))
      <4> HIDE DEF Body, Rest, Upto
      <4> QED
        BY <2>4, <3>1
    <3> QED
      BY <3>2
  <2>6. \A s \in Upto(k) : Body(g, s) = Body(h, s)
    BY <2>5
  <2>7. h = [s \in Upto(k) |-> Body(h, s)]
    <3> HIDE DEF Body, Upto
    <3> QED
      BY <2>6
  <2> QED
    BY <2>1, <2>7
<1>4. Upto(Cardinality(keep)) = SUBSET keep
  BY <1>1
<1>5. Defined(Cardinality(keep))
  BY <1>1, <1>3
<1> QED
  BY <1>4, <1>5

\* What the fold of gaps ends with, and its values on the way.
LEMMA GapsUnfolded ==
  ASSUME NEW top \in Nat, NEW keep \in SUBSET Ranges(top), IsFiniteSet(keep)
  PROVE  \E g :
           /\ g = [s \in SUBSET keep |->
                     IF s = {} THEN NoGaps
                     ELSE GapStep(LastRange(s), g[s \ {LastRange(s)}], top)]
           /\ Gaps(keep, top) = g[keep].blocked \union
                (IF g[keep].cursor = -1 THEN {} ELSE {<<g[keep].cursor, top>>})
<1> DEFINE Is(g) == g = [s \in SUBSET keep |->
                           IF s = {} THEN NoGaps
                           ELSE GapStep(LastRange(s), g[s \ {LastRange(s)}], top)]
           EndOf(g) == g[keep].blocked \union
                       (IF g[keep].cursor = -1 THEN {} ELSE {<<g[keep].cursor, top>>})
<1>1. \E g : Is(g)
  BY GapsFunction
<1>2. Is(CHOOSE g : Is(g))
  <2> HIDE DEF Is
  <2> QED
    BY <1>1, Zenon
<1>3. Gaps(keep, top) = EndOf(CHOOSE g : Is(g))
  BY Zenon DEF Gaps, MapThenFoldSet, NoGaps
<1> HIDE DEF Is
<1>4. \E g : Is(g) /\ Gaps(keep, top) = EndOf(g)
  BY <1>2, <1>3
<1> USE DEF Is
<1> QED
  BY <1>4

\* gaps_are_the_exact_complement, the test of gaps, for every list of ranges: the
\* ranges that gaps returns hold every address but those of the ranges it was given.
LEMMA GapsAreTheComplement ==
  ASSUME NEW top \in Nat, NEW keep \in SUBSET Ranges(top), IsFiniteSet(keep)
  PROVE  \A n \in 0 .. top :
           (\E range \in Gaps(keep, top) : Between(n, range)) <=> ~Covered(keep, n)
<1>1. PICK g :
        /\ g = [s \in SUBSET keep |->
                  IF s = {} THEN NoGaps
                  ELSE GapStep(LastRange(s), g[s \ {LastRange(s)}], top)]
        /\ Gaps(keep, top) = g[keep].blocked \union
             (IF g[keep].cursor = -1 THEN {} ELSE {<<g[keep].cursor, top>>})
  BY GapsUnfolded
<1> DEFINE Right(s) == GapsSoFar(s, g[s], top)
           Wrong == {Cardinality(s) : s \in {t \in SUBSET keep : ~Right(t)}}
<1>2. \A s \in SUBSET keep : IsFiniteSet(s) /\ Cardinality(s) \in Nat
  BY FS_Subset, FS_CardinalityType
<1>3. Right(keep)
  <2> SUFFICES ASSUME ~Right(keep) PROVE FALSE
    OBVIOUS
  <2>1. PICK k \in Wrong : \A j \in Wrong : k <= j
    <3>1. Wrong \subseteq Nat /\ Wrong # {}
      BY <1>2
    <3> QED
      BY <3>1, LeastNatural
  <2>2. PICK s \in SUBSET keep : ~Right(s) /\ Cardinality(s) = k
    BY <2>1
  <2>3. CASE s = {}
    <3>1. g[s] = NoGaps
      BY <1>1, <2>3
    <3> QED
      BY <2>2, <2>3, <3>1 DEF GapsSoFar, NoGaps, Covered
  <2>4. CASE s # {}
    <3> DEFINE x == LastRange(s)
               t == s \ {x}
    <3>1. x \in s /\ \A r \in t : r[1] <= x[1]
      BY <2>4, LastOfRanges
    <3>2. Cardinality(t) = Cardinality(s) - 1
      BY <1>2, <3>1, FS_RemoveElement
    <3>3. Cardinality(s) \in Nat /\ t \in SUBSET keep
      BY <1>2
    <3>4. Right(t)
      <4> SUFFICES ASSUME ~Right(t) PROVE FALSE
        OBVIOUS
      <4>1. Cardinality(t) \in Wrong
        BY <3>3
      <4>2. k <= Cardinality(t)
        BY <2>1, <4>1
      <4> QED
        BY <2>2, <3>2, <3>3, <4>2
    <3>5. g[s] = GapStep(x, g[t], top)
      BY <1>1, <2>4
    <3>6. x \in Ranges(top) /\ t \in SUBSET Ranges(top) /\ s = t \union {x}
      BY <3>1
    <3>7. GapsSoFar(t \union {x}, GapStep(x, g[t], top), top)
      <4> HIDE DEF x, t
      <4> QED
        BY <3>1, <3>4, <3>6, GapStepRight
    <3> QED
      BY <2>2, <3>5, <3>6, <3>7
  <2> QED
    BY <2>3, <2>4
<1>4. ASSUME NEW n \in 0 .. top
      PROVE  (\E range \in Gaps(keep, top) : Between(n, range)) <=> ~Covered(keep, n)
  <2> DEFINE end == g[keep]
  <2>1. (\E range \in end.blocked : Between(n, range))
          <=> ~Covered(keep, n) /\ (end.cursor = -1 \/ n < end.cursor)
    BY <1>3 DEF GapsSoFar
  <2>2. CASE end.cursor = -1
    BY <1>1, <2>1, <2>2
  <2>3. CASE end.cursor # -1
    <3>1. end.cursor \in 0 .. top /\ \A r \in keep : r[2] < end.cursor
      BY <1>3, <2>3 DEF GapsSoFar
    <3>2. Between(n, <<end.cursor, top>>) <=> ~(n < end.cursor)
      BY <3>1 DEF Between
    <3>3. ~(n < end.cursor) => ~Covered(keep, n)
      BY <3>1 DEF Covered, Between, Ranges
    <3> QED
      BY <1>1, <2>1, <2>3, <3>2, <3>3
  <2> QED
    BY <2>2, <2>3
<1> QED
  BY <1>4


-----------------------------------------------------------------------------
(* The rules of the three firewalls *)

\* netsh_blocked_addresses blocks all but what it keeps.
LEMMA BlockedOutside ==
  ASSUME NEW f \in Families, NEW keep,
         \A a \in keep : a = <<a[1], a[2]>> /\ (a[1] = f => a[2] \in 0 .. Space[f].top),
         NEW n \in 0 .. Space[f].top
  PROVE  (\E range \in BlockedAddresses(keep, f) : Between(n, range))
           <=> /\ ~Between(n, Space[f].loopback)
               /\ ~\E range \in Space[f].stack : Between(n, range)
               /\ <<f, n>> \notin keep
<1> DEFINE top == Space[f].top
           alone == {<<a[2], a[2]>> : a \in {b \in keep : b[1] = f}}
           all == {Space[f].loopback} \union Space[f].stack \union alone
<1>1. top \in Nat /\ all \in SUBSET Ranges(top)
  BY SpaceAssumption DEF Ranges
<1>2. IsFiniteSet(all)
  <2>1. IsFiniteSet((0 .. top) \X (0 .. top))
    <3>0. top \in Int /\ 0 \in Int
      BY <1>1
    <3> HIDE DEF top
    <3>1. IsFiniteSet(0 .. top)
      BY <3>0, FS_Interval
    <3> QED
      BY <3>1, FS_Product
  <2>2. all \in SUBSET ((0 .. top) \X (0 .. top))
    BY <1>1 DEF Ranges
  <2> HIDE DEF all, top
  <2> QED
    BY <2>1, <2>2, FS_Subset
<1>3. (\E range \in BlockedAddresses(keep, f) : Between(n, range)) <=> ~Covered(all, n)
  <2>1. BlockedAddresses(keep, f) = Gaps(all, top)
    BY DEF BlockedAddresses
  <2> HIDE DEF all
  <2> QED
    BY <1>1, <1>2, <2>1, GapsAreTheComplement
<1>4. Covered(alone, n) <=> <<f, n>> \in keep
  <2>1. \A a \in keep : a[1] = f /\ Between(n, <<a[2], a[2]>>) => a = <<f, n>>
    BY DEF Between
  <2>2. Between(n, <<n, n>>)
    BY DEF Between
  <2> QED
    BY <2>1, <2>2 DEF Covered
<1>5. Covered(all, n) <=> \/ Between(n, Space[f].loopback)
                          \/ \E range \in Space[f].stack : Between(n, range)
                          \/ Covered(alone, n)
  BY DEF Covered
<1> QED
  BY <1>3, <1>4, <1>5

\* A rule on single addresses.
LEMMA BlockedOnly ==
  ASSUME NEW f \in Families, NEW only, NEW n \in Nat,
         \A a \in only : a = <<a[1], a[2]>> /\ a[2] \in Nat
  PROVE  (\E range \in {<<a[2], a[2]>> : a \in {b \in only : b[1] = f}} : Between(n, range))
           <=> <<f, n>> \in only
<1>1. \A a \in only : a[1] = f /\ Between(n, <<a[2], a[2]>>) => a = <<f, n>>
  BY DEF Between
<1>2. Between(n, <<n, n>>)
  BY DEF Between
<1> QED
  BY <1>1, <1>2

\* What the rules of Windows drop, protocol by protocol.
LEMMA NetshDrops ==
  ASSUME NEW net, net.allowed \subseteq Addresses, net.dns \subseteq UsableResolvers,
         NEW p \in Packets
  PROVE  LET d == Destination(p)
             outside == ~Between(p.addr, Space[p.fam].loopback) /\ ~NeedsStack(p)
             resolvers == net.dns \ net.allowed
         IN  Dropped(NetshRules(net), p) <=>
               \/ /\ p.proto = "tcp"
                  /\ \/ outside /\ d \notin net.allowed \union resolvers
                     \/ p.port \in {67, 443} /\ d \in resolvers
               \/ /\ p.proto = "udp"
                  /\ \/ outside /\ d \notin net.allowed \union resolvers \union {Broadcast}
                     \/ p.port \in {53, 443} /\ d = Broadcast
                     \/ p.port \in {67, 443} /\ d \in resolvers
               \/ p.proto = "icmp" /\ p.fam = 4 /\ outside /\ d \notin net.allowed
<1> DEFINE d == Destination(p)
           f == p.fam
           n == p.addr
           out == ~Between(n, Space[f].loopback) /\ ~NeedsStack(p)
           resolvers == net.dns \ net.allowed
           keep == net.allowed \union resolvers
           Outside(k) == [g \in Families |-> BlockedAddresses(k, g)]
           Only(a) == [g \in Families |-> {<<b[2], b[2]>> : b \in {c \in a : c[1] = g}}]
           Hit(to) == \E range \in to[f] : Between(n, range)
           icmp == [g \in Families |-> IF g = 4 THEN BlockedAddresses(net.allowed, 4) ELSE {}]
<1>1. /\ f \in Families /\ n \in 0 .. Space[f].top /\ d = <<f, n>>
      /\ p.proto \in {"tcp", "udp", "icmp", "other"} /\ p.port \in {53, 67, 443}
  BY DEF Packets, Destination
<1>2. /\ Space[4].top \in Nat /\ Space[6].top \in Nat /\ n \in Nat
  BY <1>1, SpaceAssumption DEF Families
<1>3. \A a \in keep \union {Broadcast} \union net.dns :
        /\ a = <<a[1], a[2]>> /\ a[1] \in Families
        /\ a[2] \in 0 .. Space[a[1]].top /\ a[2] \in Nat
  <2>1. \A a \in Addresses \union {Broadcast} :
          /\ a = <<a[1], a[2]>> /\ a[1] \in Families
          /\ a[2] \in 0 .. Space[a[1]].top
    BY <1>2 DEF Addresses, Broadcast, Families
  <2>2. UsableResolvers \subseteq Addresses
    BY DEF UsableResolvers
  <2>3. \A a \in keep \union {Broadcast} \union net.dns : a \in Addresses \union {Broadcast}
    BY <2>2
  <2> QED
    BY <1>2, <2>1, <2>3 DEF Families
<1>4. ASSUME NEW k \in SUBSET (keep \union {Broadcast})
      PROVE  Hit(Outside(k)) <=> out /\ d \notin k
  <2>1. Outside(k)[f] = BlockedAddresses(k, f)
    BY <1>1
  <2>2. \A a \in k : a = <<a[1], a[2]>> /\ (a[1] = f => a[2] \in 0 .. Space[f].top)
    BY <1>3
  <2>3. ~NeedsStack(p) <=> ~\E range \in Space[f].stack : Between(n, range)
    BY DEF NeedsStack
  <2> HIDE DEF Outside, keep
  <2> QED
    BY <1>1, <2>1, <2>2, <2>3, BlockedOutside
<1>5. ASSUME NEW a \in SUBSET (keep \union {Broadcast})
      PROVE  Hit(Only(a)) <=> d \in a
  <2>1. Only(a)[f] = {<<b[2], b[2]>> : b \in {c \in a : c[1] = f}}
    BY <1>1
  <2>2. \A b \in a : b = <<b[1], b[2]>> /\ b[2] \in Nat
    BY <1>3
  <2> HIDE DEF Only, keep
  <2> QED
    BY <1>1, <1>2, <2>1, <2>2, BlockedOnly
<1>6. Hit(icmp) <=> f = 4 /\ out /\ d \notin net.allowed
  <2>1. f = 4 => icmp[f] = Outside(net.allowed)[f]
    BY <1>1
  <2>2. f # 4 => icmp[f] = {}
    BY <1>1
  <2> HIDE DEF icmp, Outside
  <2> QED
    BY <1>4, <2>1, <2>2
<1> DEFINE Rule(proto, ports, to) == [proto |-> proto, ports |-> ports, to |-> to]
           Drops(r) == r.proto = p.proto /\ p.port \in r.ports /\ Hit(r.to)
           Is(r, proto, ports, to) == r.proto = proto /\ r.ports = ports /\ r.to = to
<1>7. PICK tcp : tcp = Rule("tcp", {53, 67, 443}, Outside(keep))
  OBVIOUS
<1>8. PICK udp : udp = Rule("udp", {53, 67, 443}, Outside(keep \union {Broadcast}))
  OBVIOUS
<1>9. PICK ping : ping = Rule("icmp", {53, 67, 443}, icmp)
  OBVIOUS
<1>10. PICK dhcp : dhcp = Rule("udp", {53, 443}, Only({Broadcast}))
  OBVIOUS
<1>11. PICK dns1 : dns1 = Rule("tcp", {67, 443}, Only(resolvers))
  OBVIOUS
<1>12. PICK dns2 : dns2 = Rule("udp", {67, 443}, Only(resolvers))
  OBVIOUS
<1>13. NetshRules(net) = {tcp, udp, ping, dhcp, dns1, dns2}
  <2>1. NetshRules(net) =
          {Rule("tcp", {53, 67, 443}, Outside(keep)),
           Rule("udp", {53, 67, 443}, Outside(keep \union {Broadcast})),
           Rule("icmp", {53, 67, 443}, icmp),
           Rule("udp", {53, 443}, Only({Broadcast}))}
          \union {Rule(t, {67, 443}, Only(resolvers)) : t \in {"tcp", "udp"}}
    BY Zenon DEF NetshRules
  <2> HIDE DEF Rule, Outside, Only, icmp, keep, resolvers
  <2>2. NetshRules(net) = {tcp, udp, ping, dhcp}
          \union {Rule(t, {67, 443}, Only(resolvers)) : t \in {"tcp", "udp"}}
    BY <1>7, <1>8, <1>9, <1>10, <2>1
  <2> QED
    BY <1>11, <1>12, <2>2
<1>14. /\ Is(tcp, "tcp", {53, 67, 443}, Outside(keep))
       /\ Is(udp, "udp", {53, 67, 443}, Outside(keep \union {Broadcast}))
       /\ Is(ping, "icmp", {53, 67, 443}, icmp)
       /\ Is(dhcp, "udp", {53, 443}, Only({Broadcast}))
       /\ Is(dns1, "tcp", {67, 443}, Only(resolvers))
       /\ Is(dns2, "udp", {67, 443}, Only(resolvers))
  <2> HIDE DEF Outside, Only, icmp, keep, resolvers
  <2> QED
    BY <1>7, <1>8, <1>9, <1>10, <1>11, <1>12
<1>15. Dropped(NetshRules(net), p) <=> \E r \in NetshRules(net) : Drops(r)
  BY DEF Dropped
<1>16. /\ Hit(Outside(keep)) <=> out /\ d \notin keep
       /\ Hit(Outside(keep \union {Broadcast})) <=> out /\ d \notin keep \union {Broadcast}
       /\ Hit(Only({Broadcast})) <=> d = Broadcast
       /\ Hit(Only(resolvers)) <=> d \in resolvers
  <2>1. /\ keep \in SUBSET (keep \union {Broadcast})
        /\ keep \union {Broadcast} \in SUBSET (keep \union {Broadcast})
        /\ {Broadcast} \in SUBSET (keep \union {Broadcast})
        /\ resolvers \in SUBSET (keep \union {Broadcast})
        /\ d \in {Broadcast} <=> d = Broadcast
    OBVIOUS
  <2> HIDE DEF Hit, Outside, Only, out, d, keep, resolvers
  <2> QED
    BY <1>4, <1>5, <2>1
<1> HIDE DEF Hit, Outside, Only, icmp, out, d, keep, resolvers
<1>17. /\ Drops(tcp) <=> p.proto = "tcp" /\ out /\ d \notin keep
       /\ Drops(udp) <=> p.proto = "udp" /\ out /\ d \notin keep \union {Broadcast}
       /\ Drops(ping) <=> p.proto = "icmp" /\ f = 4 /\ out /\ d \notin net.allowed
       /\ Drops(dhcp) <=> p.proto = "udp" /\ p.port \in {53, 443} /\ d = Broadcast
       /\ Drops(dns1) <=> p.proto = "tcp" /\ p.port \in {67, 443} /\ d \in resolvers
       /\ Drops(dns2) <=> p.proto = "udp" /\ p.port \in {67, 443} /\ d \in resolvers
  BY <1>1, <1>6, <1>14, <1>16
<1> HIDE DEF Drops
<1>18. Dropped(NetshRules(net), p) <=> \/ Drops(tcp) \/ Drops(udp) \/ Drops(ping)
                                      \/ Drops(dhcp) \/ Drops(dns1) \/ Drops(dns2)
  BY <1>13, <1>15
<1>19. Dropped(NetshRules(net), p) <=>
         \/ /\ p.proto = "tcp"
            /\ \/ out /\ d \notin keep
               \/ p.port \in {67, 443} /\ d \in resolvers
         \/ /\ p.proto = "udp"
            /\ \/ out /\ d \notin keep \union {Broadcast}
               \/ p.port \in {53, 443} /\ d = Broadcast
               \/ p.port \in {67, 443} /\ d \in resolvers
         \/ p.proto = "icmp" /\ f = 4 /\ out /\ d \notin net.allowed
  BY <1>17, <1>18
<1> USE DEF out, d, keep, resolvers
<1> QED
  BY <1>19

\* For every address space and every isolation, whatever the number of addresses and
\* resolvers: Windows lets out what iptables does, what its rules do not name (other
\* protocols, DHCP requests from any port) and traffic of the IPv6 stack, and nothing
\* else; pf lets out what iptables does but for ICMPv6 (netsh_apply, iptables_apply,
\* pf_rules).
THEOREM HolesAlwaysAgree ==
  ASSUME NEW net, net.allowed \subseteq Addresses, net.dns \subseteq UsableResolvers
  PROVE  HolesAgreeFor(net)
<1> SUFFICES ASSUME NEW p \in Packets
             PROVE  /\ Accepts(net, p) \/ Unnamed(p) => ~Dropped(NetshRules(net), p)
                    /\ ~Dropped(NetshRules(net), p) =>
                         Accepts(net, p) \/ Unnamed(p) \/ NeedsStack(p)
                    /\ PfAccepts(net, p) => Accepts(net, p)
                    /\ Accepts(net, p) /\ ~PfAccepts(net, p) =>
                         /\ p.fam = 6 /\ p.proto = "icmp"
                         /\ \A a \in net.allowed \union net.dns : a[1] = 4
  BY DEF HolesAgreeFor
<1> DEFINE d == Destination(p)
           loop == Between(p.addr, Space[p.fam].loopback)
           out == ~loop /\ ~NeedsStack(p)
<1>1. /\ p.fam \in {4, 6} /\ p.addr \in 0 .. Space[p.fam].top /\ d = <<p.fam, p.addr>>
      /\ p.proto \in {"tcp", "udp", "icmp", "other"} /\ p.port \in {53, 67, 443}
  BY DEF Packets, Destination, Families
<1>2. d \in net.dns => ~loop
  BY <1>1 DEF UsableResolvers
<1>3. Broadcast \notin net.allowed /\ Broadcast \notin net.dns
  <2>1. Broadcast \notin Addresses
    BY DEF Addresses
  <2>2. UsableResolvers \subseteq Addresses
    BY DEF UsableResolvers
  <2> QED
    BY <2>1, <2>2
<1>4. d = Broadcast => p.fam = 4 /\ ~loop
  BY <1>1, SpaceAssumption DEF Broadcast, Between, Families, Ranges
<1>5. /\ Accepts(net, p) \/ Unnamed(p) => ~Dropped(NetshRules(net), p)
      /\ ~Dropped(NetshRules(net), p) => Accepts(net, p) \/ Unnamed(p) \/ NeedsStack(p)
  <2>1. Accepts(net, p) <=>
          \/ loop
          \/ p.fam = 6 /\ p.proto = "icmp"
          \/ ToDhcp(p) /\ p.from = 68
          \/ d \in net.dns /\ p.proto \in {"tcp", "udp"} /\ p.port = 53
          \/ d \in net.allowed
    BY DEF Accepts
  <2>2. Unnamed(p) <=> p.proto = "other" \/ ToDhcp(p)
    BY DEF Unnamed
  <2>3. ToDhcp(p) <=> d = Broadcast /\ p.proto = "udp" /\ p.port = 67
    BY DEF ToDhcp
  <2>4. Dropped(NetshRules(net), p) <=>
          \/ /\ p.proto = "tcp"
             /\ \/ out /\ d \notin net.allowed \union (net.dns \ net.allowed)
                \/ p.port \in {67, 443} /\ d \in net.dns \ net.allowed
          \/ /\ p.proto = "udp"
             /\ \/ out /\ d \notin net.allowed \union (net.dns \ net.allowed)
                                     \union {Broadcast}
                \/ p.port \in {53, 443} /\ d = Broadcast
                \/ p.port \in {67, 443} /\ d \in net.dns \ net.allowed
          \/ p.proto = "icmp" /\ p.fam = 4 /\ out /\ d \notin net.allowed
    BY NetshDrops
  <2> HIDE DEF d, loop
  <2>5. CASE p.proto = "tcp"
    BY <1>1, <1>2, <1>3, <1>4, <2>1, <2>2, <2>3, <2>4, <2>5
  <2>6. CASE p.proto = "udp"
    BY <1>1, <1>2, <1>3, <1>4, <2>1, <2>2, <2>3, <2>4, <2>6
  <2>7. CASE p.proto = "icmp"
    BY <1>1, <1>2, <1>3, <1>4, <2>1, <2>2, <2>3, <2>4, <2>7
  <2>8. CASE p.proto = "other"
    BY <2>2, <2>4, <2>8
  <2> QED
    BY <1>1, <2>5, <2>6, <2>7, <2>8
<1>6. PfAccepts(net, p) => Accepts(net, p)
  BY DEF PfAccepts, Accepts
<1>7. \A a \in net.allowed \union net.dns : a[1] \in {4, 6}
  BY DEF UsableResolvers, Addresses, Families
<1>8. ASSUME Accepts(net, p), ~PfAccepts(net, p)
      PROVE  /\ p.fam = 6 /\ p.proto = "icmp"
             /\ \A a \in net.allowed \union net.dns : a[1] = 4
  BY <1>7, <1>8 DEF PfAccepts, Accepts
<1> QED
  BY <1>5, <1>6, <1>8

\* At every moment of an isolation, for every address space, the three firewalls have
\* the same holes, but for what Windows has no rule for and the ICMPv6 of pf.
THEOREM SameHolesKept == Spec => []SameHoles
<1>1. ASSUME NEW net \in Isolations
      PROVE  net.allowed \subseteq Addresses /\ net.dns \subseteq UsableResolvers
  BY DEF Isolations, kSubset
<1>2. SameHoles
  BY <1>1, HolesAlwaysAgree DEF SameHoles, HolesAgree
<1> QED
  BY <1>2, PTL

=============================================================================
