-------------------------- MODULE MCTurnController --------------------------
(* Small instances of TurnController for TLC. *)
EXTENDS TurnController, TLC

CONSTANTS t1, k1, k2

\* One thread with two turns: every conflict of the controller is a conflict
\* between two turns of one thread or between two calls on one turn.
MCThreadOf == (k1 :> t1) @@ (k2 :> t1)

MCSymmetry == Permutations(Starts) \cup Permutations(Resumptions) \cup Permutations(Interrupts)
                \cup Permutations(Auxiliaries) \cup Permutations(Steers)
                \cup Permutations(Transitions)
=============================================================================
