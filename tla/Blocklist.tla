----------------------------- MODULE Blocklist -----------------------------
(***************************************************************************)
(* What blocking promises (edr_actions.rs, block_ip and unblock_ip): an    *)
(* operation changes whether its own address gets through, and no other.   *)
(* Only a restart, or an earlier operation that went wrong, may change     *)
(* more at once.                                                           *)
(***************************************************************************)
EXTENDS FiniteSets

CONSTANT Addresses

VARIABLES
  enforced,   \* addresses no packet is exchanged with
  busy,       \* addresses an operation is working on
  broken,     \* addresses an operation failed on or was cut short
  restarting  \* the agent is not running, or is starting

vars == <<enforced, busy, broken, restarting>>

Init ==
  /\ enforced = {}
  /\ busy = {}
  /\ broken = {}
  /\ restarting = FALSE

Changed == (enforced \ enforced') \union (enforced' \ enforced)

\* Operations begin and end, and may fail, whatever happens to the addresses.
Bookkeeping ==
  /\ busy' \subseteq Addresses
  /\ broken' \subseteq Addresses
  /\ restarting' \in BOOLEAN

\* A step of an operation changes its own address, and may put right what an
\* earlier failure left.
Operate == \E a \in busy : Changed \ broken \subseteq {a}

\* A reboot empties the firewall, a start loads the recorded addresses again.
Restart == restarting \/ restarting'

Next ==
  /\ enforced' \subseteq Addresses
  /\ Bookkeeping
  /\ Operate \/ Restart \/ Changed = {}

Spec == Init /\ [][Next]_vars
=============================================================================
