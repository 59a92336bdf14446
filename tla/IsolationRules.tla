--------------------------- MODULE IsolationRules ---------------------------
(***************************************************************************)
(* What an isolated endpoint may still send (host_isolation.rs). pf and    *)
(* iptables accept a list of exceptions and drop the rest. The Windows     *)
(* Firewall has block rules only, and they win over any other rule: the    *)
(* same exceptions are the gaps between the blocked ranges.                *)
(*                                                                         *)
(* An address is a pair <<family, number>>, a packet is what the endpoint  *)
(* sends: family, number, protocol, source and destination port. "other"   *)
(* stands for the protocols no rule of Windows names (IGMP, ESP, GRE...),  *)
(* "icmp" for ICMPv4 in the one family and ICMPv6 in the other.            *)
(***************************************************************************)
EXTENDS Integers, FiniteSetsExt

CONSTANT Space   \* per family: top address, loopback, multicast, ranges the stack needs

Families == {4, 6}

Ranges(top) == {r \in (0 .. top) \X (0 .. top) : r[1] <= r[2]}

\* The last IPv4 address is the broadcast address, not one of loopback.
ASSUME SpaceAssumption ==
  /\ \A f \in Families :
       /\ Space[f].top \in Nat
       /\ Space[f].loopback \in Ranges(Space[f].top)
       /\ Space[f].stack \subseteq Ranges(Space[f].top)
  /\ Space[4].loopback[2] < Space[4].top

Between(n, range) == range[1] <= n /\ n <= range[2]

Packets ==
  UNION {[fam : {f}, addr : 0 .. Space[f].top, proto : {"tcp", "udp", "icmp", "other"},
          from : {68, 50000}, port : {53, 67, 443}] : f \in Families}

Destination(p) == <<p.fam, p.addr>>

Broadcast == <<4, Space[4].top>>

\* A request to the DHCP server of a network not known yet.
ToDhcp(p) == Destination(p) = Broadcast /\ p.proto = "udp" /\ p.port = 67

-----------------------------------------------------------------------------
(* iptables_apply, pf_rules *)

\* The exceptions of the OUTPUT chain; what none accepts is dropped.
Accepts(net, p) ==
  \/ Between(p.addr, Space[p.fam].loopback)
  \/ p.fam = 6 /\ p.proto = "icmp"
  \/ ToDhcp(p) /\ p.from = 68
  \/ Destination(p) \in net.dns /\ p.proto \in {"tcp", "udp"} /\ p.port = 53
  \/ Destination(p) \in net.allowed

\* pf needs neighbour discovery only for an IPv6 address that stays reachable.
PfAccepts(net, p) ==
  \/ Between(p.addr, Space[p.fam].loopback)
  \/ ToDhcp(p) /\ p.from = 68
  \/ Destination(p) \in net.dns /\ p.proto \in {"tcp", "udp"} /\ p.port = 53
  \/ p.fam = 6 /\ p.proto = "icmp" /\ \E a \in net.allowed \union net.dns : a[1] = 6
  \/ Destination(p) \in net.allowed

-----------------------------------------------------------------------------
(* netsh_apply *)

\* Mutant: the last address of an allowed range is blocked.
GapStepShort(range, acc, top) ==
  IF acc.cursor = -1 THEN acc
  ELSE [blocked |-> acc.blocked \union
                      (IF range[1] > acc.cursor
                       THEN {<<acc.cursor, range[1] - 1>>} ELSE {}),
        cursor  |-> IF range[2] < acc.cursor THEN acc.cursor
                    ELSE IF range[2] < top THEN range[2] ELSE -1]

\* Ranges are taken in order; cursor is the first address not dealt with, or
\* -1 after the last one (None).
GapStep(range, acc, top) ==
  IF acc.cursor = -1 THEN acc
  ELSE [blocked |-> acc.blocked \union
                      (IF range[1] > acc.cursor
                       THEN {<<acc.cursor, range[1] - 1>>} ELSE {}),
        cursor  |-> IF range[2] < acc.cursor THEN acc.cursor
                    ELSE IF range[2] < top THEN range[2] + 1 ELSE -1]

LastRange(ranges) ==
  CHOOSE r \in ranges : \A s \in ranges : s[1] < r[1] \/ (s[1] = r[1] /\ s[2] <= r[2])

\* The fold takes the last range first, hence applies the first one first.
Gaps(keep, top) ==
  LET end == MapThenFoldSet(LAMBDA r, acc : GapStep(r, acc, top),
                            [blocked |-> {}, cursor |-> 0],
                            LAMBDA r : r, LastRange, keep)
  IN  end.blocked \union (IF end.cursor = -1 THEN {} ELSE {<<end.cursor, top>>})

\* netsh_blocked_addresses: all but the addresses kept and what the stack needs.
BlockedAddresses(keep, f) ==
  Gaps({Space[f].loopback} \union Space[f].stack
         \union {<<a[2], a[2]>> : a \in {b \in keep : b[1] = f}},
       Space[f].top)

\* The rules on what is sent: protocol, ports and ranges blocked.
NetshRules(net) ==
  LET resolvers == net.dns \ net.allowed
      keep == net.allowed \union resolvers
      Outside(k) == [f \in Families |-> BlockedAddresses(k, f)]
      Only(a) == [f \in Families |-> {<<b[2], b[2]>> : b \in {c \in a : c[1] = f}}]
  IN  {[proto |-> "tcp", ports |-> {53, 67, 443}, to |-> Outside(keep)],
       [proto |-> "udp", ports |-> {53, 67, 443}, to |-> Outside(keep \union {Broadcast})],
       [proto |-> "icmp", ports |-> {53, 67, 443},
        to |-> [f \in Families |-> IF f = 4 THEN BlockedAddresses(net.allowed, 4) ELSE {}]],
       [proto |-> "udp", ports |-> {53, 443}, to |-> Only({Broadcast})]}
      \union {[proto |-> t, ports |-> {67, 443}, to |-> Only(resolvers)] : t \in {"tcp", "udp"}}

Dropped(rules, p) ==
  \E r \in rules : /\ r.proto = p.proto
                   /\ p.port \in r.ports
                   /\ \E range \in r.to[p.fam] : Between(p.addr, range)

\* Local traffic of the IPv6 stack.
NeedsStack(p) == \E range \in Space[p.fam].stack : Between(p.addr, range)

\* What no rule of Windows names: other protocols, and the source of a DHCP request.
Unnamed(p) == p.proto = "other" \/ ToDhcp(p)

-----------------------------------------------------------------------------
(* The isolations compared *)

Addresses == (UNION {{f} \X (0 .. Space[f].top) : f \in Families}) \ {Broadcast}

\* usable_resolvers: not unspecified, not loopback, not multicast, not broadcast.
UsableResolvers ==
  {a \in Addresses : /\ a[2] # 0
                     /\ ~Between(a[2], Space[a[1]].loopback)
                     /\ ~Between(a[2], Space[a[1]].multicast)}

\* Up to two addresses of the platform and up to one resolver.
Isolations ==
  [allowed : UNION {kSubset(k, Addresses) : k \in 0 .. 2},
   dns : UNION {kSubset(k, UsableResolvers) : k \in 0 .. 1}]

\* What leaves through the rules of iptables, and what the rules of Windows do
\* not name, leaves through those of Windows; the rest they let out is traffic of
\* the IPv6 stack. pf lets out what iptables does, but for the ICMPv6 of a
\* network without an IPv6 address.
HolesAgreeFor(net) ==
  LET rules == NetshRules(net) IN
  \A p \in Packets :
    /\ Accepts(net, p) \/ Unnamed(p) => ~Dropped(rules, p)
    /\ ~Dropped(rules, p) => Accepts(net, p) \/ Unnamed(p) \/ NeedsStack(p)
    /\ PfAccepts(net, p) => Accepts(net, p)
    /\ Accepts(net, p) /\ ~PfAccepts(net, p) =>
         /\ p.fam = 6 /\ p.proto = "icmp"
         /\ \A a \in net.allowed \union net.dns : a[1] = 4

HolesAgree == \A net \in Isolations : HolesAgreeFor(net)
=============================================================================
