---------------------------- MODULE MCSelfUpdate ----------------------------
(* Instances of SelfUpdate for TLC; the configurations give the bounds. *)
EXTENDS SelfUpdate
=============================================================================
