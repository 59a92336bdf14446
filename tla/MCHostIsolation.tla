-------------------------- MODULE MCHostIsolation --------------------------
(***************************************************************************)
(* Eight addresses per family. Loopback is in the middle of the IPv4 ones  *)
(* as 127/8 is; the IPv6 stack keeps the link-local range and multicast,   *)
(* which ends at the last address.                                         *)
(***************************************************************************)
EXTENDS HostIsolation

MCSpace ==
  [f \in {4, 6} |->
     IF f = 4 THEN [top |-> 7, loopback |-> <<3, 4>>, multicast |-> <<6, 6>>,
                    stack |-> {}]
              ELSE [top |-> 7, loopback |-> <<1, 1>>, multicast |-> <<7, 7>>,
                    stack |-> {<<4, 5>>, <<7, 7>>}]]

\* A platform with an IPv4 address, and a standalone agent without resolvers.
MCNetworks == {[allowed |-> {<<4, 1>>}, dns |-> {<<4, 5>>}],
               [allowed |-> {}, dns |-> {}]}
=============================================================================
