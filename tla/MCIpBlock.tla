----------------------------- MODULE MCIpBlock -----------------------------
(* IpBlock for TLC: the constants are given in the .cfg files. *)
EXTENDS IpBlock
=============================================================================
