----------------------------- MODULE MCEventLog -----------------------------
(* Small instances of EventLog for TLC. *)
EXTENDS EventLog, TLC

CONSTANTS e1, e2, b1

MCSymmetry == Permutations(Bundles) \cup Permutations(Calls \ Bundles)
=============================================================================
