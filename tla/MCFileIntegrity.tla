-------------------------- MODULE MCFileIntegrity --------------------------
(* Two files; the platform's policy watches one more than the local one.     *)
EXTENDS FileIntegrity

CONSTANTS f1, f2

MCFiles == {f1, f2}
MCPresent == {f1}
OnlyOne == [roots |-> {f1}, ignored |-> {}]
Both == [roots |-> {f1, f2}, ignored |-> {}]
MCPolicies == {OnlyOne, Both}

=============================================================================
