------------------------- MODULE MCIncidentDelivery -------------------------
(* IncidentDelivery for TLC: the constants are given in the .cfg files. *)
EXTENDS IncidentDelivery
=============================================================================
