---------------------------- MODULE MCGateRegistry ----------------------------
(* Small instances of GateRegistry for TLC. *)
EXTENDS GateRegistry, TLC

CONSTANTS r1, r2

\* Two records of two turns of one thread: each turn drains its own, the thread
\* and the whole registry drain both.
MCScopes == {{r1}, {r2}, {r1, r2}}

MCSymmetry == Permutations(Intents) \cup Permutations(Resolutions) \cup Permutations(Payloads)
                \cup Permutations(Owners) \cup Permutations(Records)
===============================================================================
