----------------------------- MODULE TurnDecision -----------------------------
(***************************************************************************)
(* What the terminal transaction promises of the turns of one thread: a    *)
(* turn gets one final, once; the records that make it the turn's terminal *)
(* state are written one after the other and never taken back; and a turn  *)
(* starts only when the turn before it is publicly over.                   *)
(***************************************************************************)
EXTENDS Naturals

CONSTANTS
  Finals,   \* the finals that compete for the turns
  NoFinal,  \* no final is prepared for the turn
  MaxTurns  \* bound: how many turns are started

\* The records of a turn in the order they appear: nothing, the private final,
\* the terminal intent, the provider closure, the public turn, the disposition
\* of the final, the disposition of the turn.
Open == 0
Prepared == 1
Public == 4
Settled == 6

VARIABLES
  started,  \* how many turns were started
  owner,    \* owner[t]: the final of turn t
  stage     \* stage[t]: how many of its records exist

vars == <<started, owner, stage>>
Turns == 1 .. MaxTurns

Init == started = 0 /\ owner = [t \in Turns |-> NoFinal] /\ stage = [t \in Turns |-> Open]

\* The next turn starts.
Start ==
  /\ started < MaxTurns
  /\ started > 0 => stage[started] >= Public
  /\ started' = started + 1
  /\ UNCHANGED <<owner, stage>>

\* Final f becomes the only one that may ever end the running turn.
Prepare(f) ==
  /\ started > 0
  /\ stage[started] = Open
  /\ \A t \in Turns : owner[t] # f
  /\ owner' = [owner EXCEPT ![started] = f]
  /\ stage' = [stage EXCEPT ![started] = Prepared]
  /\ UNCHANGED started

\* The next record of a turn is written, up to the public one while it runs.
Advance(t) ==
  /\ stage[t] \in Prepared .. Settled - 1
  /\ stage[t] < Public => t = started
  /\ stage' = [stage EXCEPT ![t] = @ + 1]
  /\ UNCHANGED <<started, owner>>

Next == Start \/ (\E f \in Finals : Prepare(f)) \/ (\E t \in Turns : Advance(t))

Spec == Init /\ [][Next]_vars
=============================================================================
