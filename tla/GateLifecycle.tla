----------------------------- MODULE GateLifecycle -----------------------------
(***************************************************************************)
(* What the registry promises of one approval or user-input gate: a        *)
(* request is staged before it can be answered, it is answered once, and   *)
(* a gate taken over by a terminal path is never answerable again.         *)
(***************************************************************************)
CONSTANT Gates
VARIABLE stage

Stages == {"absent", "reserved", "executable", "claimed", "terminal", "settled"}

Init == stage = [g \in Gates |-> "absent"]

\* The gates of G leave a stage of From together and all reach to.
Move(G, From, to) ==
  /\ \A g \in G : stage[g] \in From
  /\ stage' = [g \in Gates |-> IF g \in G THEN to ELSE stage[g]]

Reserve(g)   == Move({g}, {"absent"}, "reserved")
Restore(g)   == Move({g}, {"absent"}, "settled")
Activate(g)  == Move({g}, {"reserved"}, "executable")
Claim(g)     == Move({g}, {"executable"}, "claimed")
Complete(g)  == Move({g}, {"claimed"}, "settled")
TakeOver(G)  == Move(G, {"reserved", "executable", "claimed"}, "terminal")
Settle(G)    == Move(G, {"terminal"}, "settled")
Forget(g)    == Move({g}, Stages, "absent")
Discard(g)   == Move({g}, {"claimed", "terminal"}, "settled")

Next ==
  \/ \E g \in Gates : \/ Reserve(g) \/ Restore(g) \/ Activate(g) \/ Claim(g)
                      \/ Complete(g) \/ Forget(g) \/ Discard(g)
  \/ \E G \in SUBSET Gates : TakeOver(G) \/ Settle(G)

Spec == Init /\ [][Next]_stage
================================================================================
