------------------------- MODULE TerminalCommitProofs -------------------------
(***************************************************************************)
(* What the terminal transaction keeps, for any number of finals, turns,   *)
(* failed writes and crashes.  Inv is inductive: Chain says that every     *)
(* record of a turn rests on the record before it, whoever wrote it and    *)
(* whatever failed since; Progress says what an attempt has written when   *)
(* it goes on; Recovering says what a restart has still to resume.  From   *)
(* them follow that a start refuses the stores only when a turn is         *)
(* stranded, and that the stores implement TurnDecision.                   *)
(***************************************************************************)
EXTENDS TerminalCommit, FiniteSetTheorems, TLAPS

\* The type of the state, but for the mutex.
Typed ==
  /\ current \in 0 .. MaxTurns
  /\ turnOf \in [Finals -> 0 .. MaxTurns]
  /\ privateFinals \subseteq Finals /\ accepted \subseteq privateFinals
  /\ intents \in [Turns -> privateFinals \cup {NoFinal}]
  /\ winners \in [Turns -> privateFinals \cup {NoFinal}]
  /\ terminals \in [Turns -> privateFinals \cup {NoFinal}]
  /\ closures \subseteq Turns
  /\ phase \in {"up", "down", "recovering", "refused"}
  /\ pc \in [Finals -> {"idle", "built", "stored"} \cup Within]
  /\ resumable \subseteq privateFinals \ Facts
  /\ resumable # {} => phase = "recovering"
  /\ faults \in 0 .. MaxFaults /\ crashes \in 0 .. MaxCrashes

\* The coordinator's mutex; and a final is built for a turn that was started,
\* is stored from the transaction on, and is the only one stored for its turn.
Mutex == \A f, g \in Finals : pc[f] \in Within /\ pc[g] \in Within => f = g
FinalsOfTurns ==
  /\ \A f \in Finals : turnOf[f] <= current
  /\ \A f \in Finals : (pc[f] # "idle" \/ f \in privateFinals) <=> turnOf[f] > 0
  /\ \A f \in Finals : pc[f] = "built" => f \notin privateFinals
  /\ \A f \in Finals : pc[f] \in Within \cup {"stored"} => f \in privateFinals
  /\ \A f, g \in privateFinals : turnOf[f] = turnOf[g] => f = g

\* Every record rests on the one before it, and every turn but the current one
\* is publicly over.
Chain ==
  /\ \A t \in Turns : intents[t] # NoFinal => turnOf[intents[t]] = t
  /\ \A t \in closures : intents[t] # NoFinal
  /\ \A t \in Turns : winners[t] # NoFinal => winners[t] = intents[t] /\ t \in closures
  /\ \A f \in accepted : winners[turnOf[f]] = f
  /\ \A t \in Turns : terminals[t] # NoFinal =>
       terminals[t] = winners[t] /\ terminals[t] \in accepted
  /\ \A t \in 1 .. current : t # current => winners[t] # NoFinal

\* The records behind an attempt that goes on.
Progress ==
  \A f \in Finals :
    /\ pc[f] \in Within \ {"intent"} => intents[turnOf[f]] = f
    /\ pc[f] \in {"public", "accepted", "terminal"} => turnOf[f] \in closures
    /\ pc[f] \in {"accepted", "terminal"} => winners[turnOf[f]] = f
    /\ pc[f] = "terminal" => f \in accepted

\* A process that does not serve runs at most one attempt; a start has every
\* boundary final of an active turn still to resume, or in hand, and aborts a
\* turn only when nothing is left to resume.
Recovering ==
  /\ phase \in {"down", "refused"} => \A f \in Finals : pc[f] = "idle"
  /\ phase = "recovering" =>
       /\ \A f, g \in Finals : pc[f] # "idle" /\ pc[g] # "idle" => f = g
       /\ \A f \in privateFinals \ Facts : Active(turnOf[f]) => f \in resumable \/ pc[f] # "idle"
       /\ \A f \in Finals : pc[f] = "built" =>
            resumable = {} /\ turnOf[f] = current /\ Active(current) /\ f \notin Facts
       /\ \A f \in Finals : pc[f] # "idle" => f \notin Facts

Inv ==
  Typed /\ Mutex /\ FinalsOfTurns /\ Chain /\ Progress /\ Recovering /\ RefusesOnlyStranded

USE DEF Turns

\* The inventory refuses nothing that a cut transaction can leave, except what
\* is stranded: none of the rules against detached records ever applies.
LEMMA RefusalExplained ==
  ASSUME Inv
  PROVE  Refuses => Stranded
<1>. USE FinalAssumption DEF Inv
<1>1. ~Orphan
  BY DEF Typed, Orphan
<1>2. ASSUME NEW f \in privateFinals PROVE ~Detached(f)
  BY DEF Typed, FinalsOfTurns, Chain, Detached, Won
<1>3. ASSUME NEW f \in privateFinals PROVE ~DetachedBoundary(f)
  <2>. DEFINE t == turnOf[f]
  <2>1. t \in Turns /\ f # NoFinal
    BY DEF Typed, FinalsOfTurns
  <2>2. \A g \in privateFinals : turnOf[g] = t => g = f
    BY DEF FinalsOfTurns
  <2>3. intents[t] \in {NoFinal, f} /\ (t \in closures => intents[t] = f)
    BY <2>1, <2>2 DEF Typed, Chain
  <2>4. winners[t] \in {NoFinal, f} /\ (winners[t] = f => intents[t] = f)
    BY <2>1, <2>3 DEF Typed, Chain
  <2>5. winners[t] = NoFinal => f \notin accepted /\ t = current
    BY <2>1 DEF Typed, FinalsOfTurns, Chain
  <2>. QED  BY <2>1, <2>2, <2>3, <2>4, <2>5 DEF DetachedBoundary, Won, Active, Current
<1>4. Historical # {} => Stranded
  <2>. SUFFICES ASSUME NEW f \in Historical PROVE Stranded
    OBVIOUS
  <2>1. f \in privateFinals \ Facts /\ ~Complete(f) /\ ~Current(f)
    BY DEF Historical, Unfinished
  <2>2. Won(f)
    BY <2>1 DEF Historical, Unfinished, Typed, FinalsOfTurns, Chain, Active, Current
  <2>. QED  BY <2>1, <2>2 DEF Stranded
<1>. QED  BY <1>1, <1>2, <1>3, <1>4 DEF Refuses

LEMMA StartTurnKeeps ==
  ASSUME Inv, StartTurn
  PROVE  Inv'
<1>. USE BoundAssumption, FinalAssumption DEF Inv, StartTurn, stores, process
<1>1. Typed'  BY DEF Typed, FinalsOfTurns, Outcomes, Within
<1>2. Mutex'  BY DEF Typed, Mutex, Idle, Within
<1>3. FinalsOfTurns'  BY DEF Typed, FinalsOfTurns, Progress, Within, OtherPreparation, Active
<1>4. Chain'  BY DEF Typed, FinalsOfTurns, Chain, Progress, Within, Active
<1>5. Progress'  BY DEF Typed, FinalsOfTurns, Chain, Progress, Mutex, Within, Current
<1>6. Recovering'
  BY DEF Typed, FinalsOfTurns, Chain, Progress, Recovering, Within, Active, Resumed
<1>7. RefusesOnlyStranded'  BY DEF Typed, Recovering, RefusesOnlyStranded, Stranded, Within
<1>. QED  BY <1>1, <1>2, <1>3, <1>4, <1>5, <1>6, <1>7 DEF Inv

LEMMA BuildKeeps ==
  ASSUME Inv, NEW f \in Finals, Build(f)
  PROVE  Inv'
<1>. USE BoundAssumption, FinalAssumption DEF Inv, Build, stores
<1>1. Typed'  BY DEF Typed, FinalsOfTurns, Outcomes, Within
<1>2. Mutex'  BY DEF Typed, Mutex, Idle, Within
<1>3. FinalsOfTurns'  BY DEF Typed, FinalsOfTurns, Progress, Within, OtherPreparation, Active
<1>4. Chain'  BY DEF Typed, FinalsOfTurns, Chain, Progress, Within, Active
<1>5. Progress'  BY DEF Typed, FinalsOfTurns, Chain, Progress, Mutex, Within, Current
<1>6. Recovering'
  BY DEF Typed, FinalsOfTurns, Chain, Progress, Recovering, Within, Active, Resumed
<1>7. RefusesOnlyStranded'  BY DEF Typed, Recovering, RefusesOnlyStranded, Stranded, Within
<1>. QED  BY <1>1, <1>2, <1>3, <1>4, <1>5, <1>6, <1>7 DEF Inv

LEMMA AdmitPrivateFinalKeeps ==
  ASSUME Inv, NEW f \in Finals, NEW o \in Outcomes, AdmitPrivateFinal(f, o)
  PROVE  Inv'
<1>. USE BoundAssumption, FinalAssumption DEF Inv, AdmitPrivateFinal, Reported, Return
<1>1. Typed'  BY DEF Typed, FinalsOfTurns, Outcomes, Within
<1>2. Mutex'  BY DEF Typed, Mutex, Idle, Within
<1>3. FinalsOfTurns'  BY DEF Typed, FinalsOfTurns, Progress, Within, OtherPreparation, Active
<1>4. Chain'  BY DEF Typed, FinalsOfTurns, Chain, Progress, Within, Active
<1>5. Progress'  BY DEF Typed, FinalsOfTurns, Chain, Progress, Mutex, Within, Current
<1>6. Recovering'
  BY DEF Typed, FinalsOfTurns, Chain, Progress, Recovering, Within, Active, Resumed
<1>7. RefusesOnlyStranded'  BY DEF Typed, Recovering, RefusesOnlyStranded, Stranded, Within
<1>. QED  BY <1>1, <1>2, <1>3, <1>4, <1>5, <1>6, <1>7 DEF Inv

LEMMA RefusePrivateFinalKeeps ==
  ASSUME Inv, NEW f \in Finals, RefusePrivateFinal(f)
  PROVE  Inv'
<1>. USE BoundAssumption, FinalAssumption DEF Inv, RefusePrivateFinal, stores
<1>1. Typed'  BY DEF Typed, FinalsOfTurns, Outcomes, Within, Recovering
<1>2. Mutex'  BY DEF Typed, Mutex, Idle, Within
<1>3. FinalsOfTurns'  BY DEF Typed, FinalsOfTurns, Progress, Within, OtherPreparation, Active
<1>4. Chain'  BY DEF Typed, FinalsOfTurns, Chain, Progress, Within, Active
<1>5. Progress'  BY DEF Typed, FinalsOfTurns, Chain, Progress, Mutex, Within, Current
<1>6. Recovering'
  BY DEF Typed, FinalsOfTurns, Chain, Progress, Recovering, Within, Active, Resumed
<1>7. RefusesOnlyStranded'
  <2>1. CASE phase = "recovering"
    <3>1. PICK g \in privateFinals \ {f} : turnOf[g] = turnOf[f]
      BY DEF OtherPreparation
    <3>2. resumable = {} /\ Active(turnOf[g]) /\ pc[f] # "idle"
      BY <2>1, <3>1 DEF Recovering
    <3>3. g \in Facts
      BY <2>1, <3>2 DEF Typed, Recovering
    <3>4. g \in privateFinals' /\ winners'[turnOf'[g]] = NoFinal /\ turnOf'[g] > 0
      BY <3>1, <3>2 DEF Typed, Active
    <3>. QED  BY <3>3, <3>4 DEF RefusesOnlyStranded, Stranded, Active
  <2>2. CASE phase # "recovering"
    BY <2>2 DEF Recovering, RefusesOnlyStranded
  <2>. QED  BY <2>1, <2>2
<1>. QED  BY <1>1, <1>2, <1>3, <1>4, <1>5, <1>6, <1>7 DEF Inv

LEMMA EnterKeeps ==
  ASSUME Inv, NEW f \in Finals, Enter(f)
  PROVE  Inv'
<1>. USE BoundAssumption, FinalAssumption DEF Inv, Enter, Return, stores
<1>1. Typed'  BY DEF Typed, FinalsOfTurns, Outcomes, Within
<1>2. Mutex'  BY DEF Typed, Mutex, Idle, Within
<1>3. FinalsOfTurns'  BY DEF Typed, FinalsOfTurns, Progress, Within, OtherPreparation, Active
<1>4. Chain'  BY DEF Typed, FinalsOfTurns, Chain, Progress, Within, Active
<1>5. Progress'  BY DEF Typed, FinalsOfTurns, Chain, Progress, Mutex, Within, Current
<1>6. Recovering'
  BY DEF Typed, FinalsOfTurns, Chain, Progress, Recovering, Within, Active, Resumed
<1>7. RefusesOnlyStranded'  BY DEF Typed, Recovering, RefusesOnlyStranded, Stranded, Within
<1>. QED  BY <1>1, <1>2, <1>3, <1>4, <1>5, <1>6, <1>7 DEF Inv

LEMMA EnsureIntentKeeps ==
  ASSUME Inv, NEW f \in Finals, NEW o \in Outcomes, EnsureIntent(f, o)
  PROVE  Inv'
<1>. USE BoundAssumption, FinalAssumption DEF Inv, EnsureIntent, Reported, Return
<1>1. Typed'  BY DEF Typed, FinalsOfTurns, Outcomes, Within
<1>2. Mutex'  BY DEF Typed, Mutex, Idle, Within
<1>3. FinalsOfTurns'  BY DEF Typed, FinalsOfTurns, Progress, Within, OtherPreparation, Active
<1>4. Chain'  BY DEF Typed, FinalsOfTurns, Chain, Progress, Within, Active
<1>5. Progress'  BY DEF Typed, FinalsOfTurns, Chain, Progress, Mutex, Within, Current
<1>6. Recovering'
  BY DEF Typed, FinalsOfTurns, Chain, Progress, Recovering, Within, Active, Resumed
<1>7. RefusesOnlyStranded'  BY DEF Typed, Recovering, RefusesOnlyStranded, Stranded, Within
<1>. QED  BY <1>1, <1>2, <1>3, <1>4, <1>5, <1>6, <1>7 DEF Inv

LEMMA CloseTurnKeeps ==
  ASSUME Inv, NEW f \in Finals, NEW o \in Outcomes, CloseTurn(f, o)
  PROVE  Inv'
<1>. USE BoundAssumption, FinalAssumption DEF Inv, CloseTurn, Step, Reported, Return
<1>1. Typed'
  <2>1. turnOf[f] \in Turns
    BY DEF Typed, FinalsOfTurns
  <2>2. closures' \subseteq closures \cup {turnOf[f]}
    OBVIOUS
  <2>3. UNCHANGED <<current, turnOf, privateFinals, intents, winners, accepted, terminals, crashes>>
    OBVIOUS
  <2>4. /\ pc' \in [Finals -> {"idle", "built", "stored"} \cup Within]
        /\ phase' \in {"up", "down", "recovering"} \/ phase' = phase
        /\ resumable' \in {resumable, {}} /\ (resumable' # {} => phase' = phase)
        /\ faults' \in 0 .. MaxFaults
    BY DEF Typed, Within, Outcomes
  <2>. HIDE DEF CloseTurn
  <2>. QED  BY <2>1, <2>2, <2>3, <2>4 DEF Typed
<1>2. Mutex'  BY DEF Typed, Mutex, Idle, Within
<1>3. FinalsOfTurns'  BY DEF Typed, FinalsOfTurns, Progress, Within, OtherPreparation, Active
<1>4. Chain'
  <2>1. intents[turnOf[f]] = f /\ f # NoFinal
    BY DEF Progress, Within
  <2>2. closures \subseteq closures' /\ closures' \subseteq closures \cup {turnOf[f]}
    OBVIOUS
  <2>3. UNCHANGED <<current, turnOf, intents, winners, accepted, terminals>>
    OBVIOUS
  <2>. HIDE DEF CloseTurn
  <2>. QED  BY <2>1, <2>2, <2>3 DEF Chain
<1>5. Progress'  BY DEF Typed, FinalsOfTurns, Chain, Progress, Mutex, Within, Current
<1>6. Recovering'
  BY DEF Typed, FinalsOfTurns, Chain, Progress, Recovering, Within, Active, Resumed
<1>7. RefusesOnlyStranded'  BY DEF Typed, Recovering, RefusesOnlyStranded, Stranded, Within
<1>. QED  BY <1>1, <1>2, <1>3, <1>4, <1>5, <1>6, <1>7 DEF Inv

LEMMA PersistAcceptedFinalKeeps ==
  ASSUME Inv, NEW f \in Finals, NEW o \in Outcomes, PersistAcceptedFinal(f, o)
  PROVE  Inv'
<1>. USE BoundAssumption, FinalAssumption DEF Inv, PersistAcceptedFinal, Reported, Return
<1>1. Typed'  BY DEF Typed, FinalsOfTurns, Outcomes, Within
<1>2. Mutex'  BY DEF Typed, Mutex, Idle, Within
<1>3. FinalsOfTurns'  BY DEF Typed, FinalsOfTurns, Progress, Within, OtherPreparation, Active
<1>4. Chain'  BY DEF Typed, FinalsOfTurns, Chain, Progress, Within, Active
<1>5. Progress'  BY DEF Typed, FinalsOfTurns, Chain, Progress, Mutex, Within, Current
<1>6. Recovering'
  BY DEF Typed, FinalsOfTurns, Chain, Progress, Recovering, Within, Active, Resumed
<1>7. RefusesOnlyStranded'  BY DEF Typed, Recovering, RefusesOnlyStranded, Stranded, Within
<1>. QED  BY <1>1, <1>2, <1>3, <1>4, <1>5, <1>6, <1>7 DEF Inv

LEMMA EnsureAcceptedDispositionKeeps ==
  ASSUME Inv, NEW f \in Finals, NEW o \in Outcomes, EnsureAcceptedDisposition(f, o)
  PROVE  Inv'
<1>. USE BoundAssumption, FinalAssumption DEF Inv, EnsureAcceptedDisposition, Step, Reported,
             Return
<1>1. Typed'  BY DEF Typed, FinalsOfTurns, Outcomes, Within
<1>2. Mutex'  BY DEF Typed, Mutex, Idle, Within
<1>3. FinalsOfTurns'  BY DEF Typed, FinalsOfTurns, Progress, Within, OtherPreparation, Active
<1>4. Chain'  BY DEF Typed, FinalsOfTurns, Chain, Progress, Within, Active
<1>5. Progress'  BY DEF Typed, FinalsOfTurns, Chain, Progress, Mutex, Within, Current
<1>6. Recovering'
  BY DEF Typed, FinalsOfTurns, Chain, Progress, Recovering, Within, Active, Resumed
<1>7. RefusesOnlyStranded'  BY DEF Typed, Recovering, RefusesOnlyStranded, Stranded, Within
<1>. QED  BY <1>1, <1>2, <1>3, <1>4, <1>5, <1>6, <1>7 DEF Inv

LEMMA EnsureTerminalDispositionKeeps ==
  ASSUME Inv, NEW f \in Finals, NEW o \in Outcomes, EnsureTerminalDisposition(f, o)
  PROVE  Inv'
<1>. USE BoundAssumption, FinalAssumption DEF Inv, EnsureTerminalDisposition, Step, Reported,
             Return
<1>1. Typed'  BY DEF Typed, FinalsOfTurns, Outcomes, Within
<1>2. Mutex'  BY DEF Typed, Mutex, Idle, Within
<1>3. FinalsOfTurns'  BY DEF Typed, FinalsOfTurns, Progress, Within, OtherPreparation, Active
<1>4. Chain'  BY DEF Typed, FinalsOfTurns, Chain, Progress, Within, Active
<1>5. Progress'  BY DEF Typed, FinalsOfTurns, Chain, Progress, Mutex, Within, Current
<1>6. Recovering'
  BY DEF Typed, FinalsOfTurns, Chain, Progress, Recovering, Within, Active, Resumed
<1>7. RefusesOnlyStranded'  BY DEF Typed, Recovering, RefusesOnlyStranded, Stranded, Within
<1>. QED  BY <1>1, <1>2, <1>3, <1>4, <1>5, <1>6, <1>7 DEF Inv

LEMMA CrashKeeps ==
  ASSUME Inv, Crash
  PROVE  Inv'
<1>. USE BoundAssumption, FinalAssumption DEF Inv, Crash, stores
<1>1. Typed'  BY DEF Typed, FinalsOfTurns, Outcomes, Within
<1>2. Mutex'  BY DEF Typed, Mutex, Idle, Within
<1>3. FinalsOfTurns'  BY DEF Typed, FinalsOfTurns, Progress, Within, OtherPreparation, Active
<1>4. Chain'
  <2>1. \A g \in privateFinals : turnOf'[g] = turnOf[g]
    BY DEF Typed
  <2>2. UNCHANGED <<current, closures, intents, winners, accepted, terminals>>
    OBVIOUS
  <2>3. \A t \in Turns : intents[t] # NoFinal => intents[t] \in privateFinals
    BY DEF Typed
  <2>4. accepted \subseteq privateFinals
    BY DEF Typed
  <2>. HIDE DEF Crash
  <2>. QED  BY <2>1, <2>2, <2>3, <2>4 DEF Chain
<1>5. Progress'  BY DEF Typed, FinalsOfTurns, Chain, Progress, Mutex, Within, Current
<1>6. Recovering'
  BY DEF Typed, FinalsOfTurns, Chain, Progress, Recovering, Within, Active, Resumed
<1>7. RefusesOnlyStranded'  BY DEF Typed, Recovering, RefusesOnlyStranded, Stranded, Within
<1>. QED  BY <1>1, <1>2, <1>3, <1>4, <1>5, <1>6, <1>7 DEF Inv

LEMMA RecoverKeeps ==
  ASSUME Inv, Recover
  PROVE  Inv'
<1>. USE BoundAssumption, FinalAssumption DEF Inv, Recover, stores
<1>1. Typed'  BY DEF Typed, FinalsOfTurns, Outcomes, Within, Unfinished
<1>2. Mutex'  BY DEF Typed, Mutex, Idle, Within
<1>3. FinalsOfTurns'  BY DEF Typed, FinalsOfTurns, Progress, Within, OtherPreparation, Active
<1>4. Chain'  BY DEF Typed, FinalsOfTurns, Chain, Progress, Within, Active
<1>5. Progress'  BY DEF Typed, FinalsOfTurns, Chain, Progress, Mutex, Within, Current
<1>6. Recovering'
  <2>1. \A f \in privateFinals \ Facts : Active(turnOf[f]) => f \in Unfinished
    BY DEF Typed, FinalsOfTurns, Chain, Unfinished, Active, Complete, Legacy, Won
  <2>. QED  BY <2>1 DEF Recovering, Active
<1>7. RefusesOnlyStranded'
  <2>1. UNCHANGED <<current, turnOf, stores>>
    OBVIOUS
  <2>2. Refuses => Stranded
    BY RefusalExplained
  <2>. QED  BY <2>1, <2>2 DEF RefusesOnlyStranded, Stranded, Active, Won, Complete, Current
<1>. QED  BY <1>1, <1>2, <1>3, <1>4, <1>5, <1>6, <1>7 DEF Inv

LEMMA ResumeKeeps ==
  ASSUME Inv, NEW f \in Finals, Resume(f)
  PROVE  Inv'
<1>. USE BoundAssumption, FinalAssumption DEF Inv, Resume, stores
<1>1. Typed'  BY DEF Typed, FinalsOfTurns, Outcomes, Within
<1>2. Mutex'  BY DEF Typed, Mutex, Idle, Within
<1>3. FinalsOfTurns'  BY DEF Typed, FinalsOfTurns, Progress, Within, OtherPreparation, Active
<1>4. Chain'  BY DEF Typed, FinalsOfTurns, Chain, Progress, Within, Active
<1>5. Progress'  BY DEF Typed, FinalsOfTurns, Chain, Progress, Mutex, Within, Current
<1>6. Recovering'
  BY DEF Typed, FinalsOfTurns, Chain, Progress, Recovering, Within, Active, Resumed
<1>7. RefusesOnlyStranded'  BY DEF Typed, Recovering, RefusesOnlyStranded, Stranded, Within
<1>. QED  BY <1>1, <1>2, <1>3, <1>4, <1>5, <1>6, <1>7 DEF Inv

LEMMA AbortStaleKeeps ==
  ASSUME Inv, NEW f \in Finals, AbortStale(f)
  PROVE  Inv'
<1>. USE BoundAssumption, FinalAssumption DEF Inv, AbortStale, stores
<1>1. Typed'  BY DEF Typed, FinalsOfTurns, Outcomes, Within
<1>2. Mutex'  BY DEF Typed, Mutex, Idle, Within
<1>3. FinalsOfTurns'  BY DEF Typed, FinalsOfTurns, Progress, Within, OtherPreparation, Active
<1>4. Chain'  BY DEF Typed, FinalsOfTurns, Chain, Progress, Within, Active
<1>5. Progress'  BY DEF Typed, FinalsOfTurns, Chain, Progress, Mutex, Within, Current
<1>6. Recovering'
  BY DEF Typed, FinalsOfTurns, Chain, Progress, Recovering, Within, Active, Resumed
<1>7. RefusesOnlyStranded'
  <2>. phase' # "refused"
    BY DEF Resumed
  <2>. QED  BY DEF RefusesOnlyStranded
<1>. QED  BY <1>1, <1>2, <1>3, <1>4, <1>5, <1>6, <1>7 DEF Inv

LEMMA ServeKeeps ==
  ASSUME Inv, Serve
  PROVE  Inv'
<1>. USE BoundAssumption, FinalAssumption DEF Inv, Serve, stores
<1>1. Typed'  BY DEF Typed, FinalsOfTurns, Outcomes, Within, Resumed
<1>2. Mutex'  BY DEF Typed, Mutex, Idle, Within
<1>3. FinalsOfTurns'  BY DEF Typed, FinalsOfTurns, Progress, Within, OtherPreparation, Active
<1>4. Chain'  BY DEF Typed, FinalsOfTurns, Chain, Progress, Within, Active
<1>5. Progress'  BY DEF Typed, FinalsOfTurns, Chain, Progress, Mutex, Within, Current
<1>6. Recovering'
  BY DEF Typed, FinalsOfTurns, Chain, Progress, Recovering, Within, Active, Resumed
<1>7. RefusesOnlyStranded'  BY DEF Typed, Recovering, RefusesOnlyStranded, Stranded, Within
<1>. QED  BY <1>1, <1>2, <1>3, <1>4, <1>5, <1>6, <1>7 DEF Inv
-------------------------------------------------------------------------------
LEMMA Initially == Init => Inv
BY FinalAssumption, BoundAssumption
   DEF Init, Inv, Typed, Mutex, FinalsOfTurns, Chain, Progress, Recovering, RefusesOnlyStranded,
       Within

LEMMA NextKeeps == ASSUME Inv, [Next]_vars PROVE Inv'
<1>1. CASE UNCHANGED vars
  BY <1>1 DEF vars, stores, process, Inv, Typed, Mutex, FinalsOfTurns, Chain, Progress,
              Recovering, Active, RefusesOnlyStranded, Stranded, Won, Complete, Current
<1>2. ASSUME NEW f \in Finals, Attempt(f) PROVE Inv'
  BY <1>2, AdmitPrivateFinalKeeps, RefusePrivateFinalKeeps, EnterKeeps, EnsureIntentKeeps,
     CloseTurnKeeps, PersistAcceptedFinalKeeps, EnsureAcceptedDispositionKeeps,
     EnsureTerminalDispositionKeeps DEF Attempt
<1>3. CASE Restart
  BY <1>3, RecoverKeeps, ServeKeeps, ResumeKeeps, AbortStaleKeeps DEF Restart
<1>. QED  BY <1>1, <1>2, <1>3, StartTurnKeeps, BuildKeeps, CrashKeeps DEF Next

LEMMA Invariance == Spec => []Inv
<1>1. Init => Inv
  BY Initially
<1>2. Inv /\ [Next]_vars => Inv'
  BY NextKeeps
<1>. QED  BY <1>1, <1>2, PTL DEF Spec

\* The stores and the attempts keep their types, and one transaction at a time
\* holds the coordinator's mutex.
THEOREM TypeCorrect == Spec => []TypeOK
<1>1. ASSUME Inv PROVE Cardinality({ f \in Finals : pc[f] \in Within }) <= 1
  <2>. DEFINE W == { f \in Finals : pc[f] \in Within }
  <2>1. W = {} \/ \E f : W = {f}
    BY <1>1 DEF Inv, Mutex
  <2>. HIDE DEF W
  <2>2. ASSUME W = {} PROVE Cardinality(W) <= 1
    BY <2>2, FS_EmptySet
  <2>3. ASSUME NEW f, W = {f} PROVE Cardinality(W) <= 1
    <3>1. Cardinality({f}) = 1
      BY FS_Singleton
    <3>. QED  BY <2>3, <3>1
  <2>. QED  BY <2>1, <2>2, <2>3 DEF W
<1>2. Inv => TypeOK
  BY <1>1 DEF TypeOK, Inv, Typed, FinalsOfTurns
<1>. QED  BY <1>2, Invariance, PTL

\* A start refuses the stores in the two stranded states only.
THEOREM RefusalsExplained == Spec => []RefusesOnlyStranded
<1>1. Inv => RefusesOnlyStranded
  BY DEF Inv
<1>. QED  BY <1>1, Invariance, PTL

-------------------------------------------------------------------------------
(* The stores implement TurnDecision. *)

\* How many records of a turn exist: each rests on the one before it.
Written(t) ==
  IF OwnerOf(t) = NoFinal THEN 0
  ELSE IF intents[t] = NoFinal THEN 1
  ELSE IF t \notin closures THEN 2
  ELSE IF winners[t] = NoFinal THEN 3
  ELSE IF OwnerOf(t) \notin accepted THEN 4
  ELSE IF terminals[t] = NoFinal THEN 5 ELSE 6

\* The owner of a turn is the only final stored for it.
LEMMA OwnerIs ==
  ASSUME Inv, NEW t \in Turns
  PROVE  /\ \A f \in privateFinals : turnOf[f] = t => OwnerOf(t) = f
         /\ OwnerOf(t) # NoFinal => OwnerOf(t) \in privateFinals /\ turnOf[OwnerOf(t)] = t
         /\ {intents[t], winners[t], terminals[t]} \subseteq {NoFinal, OwnerOf(t)}
<1>1. \A f \in privateFinals : turnOf[f] = t => OwnerOf(t) = f
  BY DEF Inv, Typed, FinalsOfTurns, OwnerOf
<1>2. OwnerOf(t) # NoFinal => OwnerOf(t) \in privateFinals /\ turnOf[OwnerOf(t)] = t
  BY DEF OwnerOf
<1>3. intents[t] \in {NoFinal, OwnerOf(t)}
  BY <1>1 DEF Inv, Typed, Chain
<1>. QED  BY <1>1, <1>2, <1>3 DEF Inv, Typed, Chain

\* A number of records without a gap is the stage of the turn.
LEMMA StageWithoutGap ==
  ASSUME NEW t \in Turns, NEW n \in 0 .. 6, \A i \in 1 .. 6 : Records(t)[i] <=> i <= n
  PROVE  StageOf(t) = n
<1>. DEFINE r == Records(t)
            S == { i \in 1 .. 6 : r[i] }
<1>1. S = 1 .. n
  OBVIOUS
<1>2. Cardinality(1 .. n) = n
  <2>1. 1 \in Int /\ n \in Int /\ (IF 1 > n THEN 0 ELSE n - 1 + 1) = n
    OBVIOUS
  <2>. QED  BY ONLY <2>1, FS_Interval
<1>. HIDE DEF S, r
<1>3. \A i \in 1 .. Cardinality(S) : r[i]
  BY <1>1, <1>2 DEF r
<1>. QED  BY <1>1, <1>2, <1>3 DEF StageOf, S, r

LEMMA StageIs ==
  ASSUME Inv, NEW t \in Turns
  PROVE  StageOf(t) = Written(t)
<1>. DEFINE f == OwnerOf(t)
            n == Written(t)
<1>1. /\ f # NoFinal => f \in privateFinals /\ turnOf[f] = t
      /\ {intents[t], winners[t], terminals[t]} \subseteq {NoFinal, f}
  BY OwnerIs
<1>2. n \in 0 .. 6
  BY DEF Written
<1>3. /\ f # NoFinal <=> 1 <= n
      /\ f # NoFinal /\ intents[t] = f <=> 2 <= n
      /\ t \in closures <=> 3 <= n
      /\ f # NoFinal /\ winners[t] = f <=> 4 <= n
      /\ f \in accepted <=> 5 <= n
      /\ f # NoFinal /\ terminals[t] = f <=> 6 <= n
  BY <1>1, FinalAssumption DEF Written, Inv, Typed, Chain
<1>. HIDE DEF f, n
<1>4. \A i \in 1 .. 6 : Records(t)[i] <=> i <= n
  <2>1. /\ Records(t)[1] <=> 1 <= n
        /\ Records(t)[2] <=> 2 <= n
        /\ Records(t)[3] <=> 3 <= n
        /\ Records(t)[4] <=> 4 <= n
        /\ Records(t)[5] <=> 5 <= n
        /\ Records(t)[6] <=> 6 <= n
    BY <1>3 DEF Records, f
  <2>. QED  BY <2>1
<1>. QED  BY <1>2, <1>4, StageWithoutGap DEF n

\* How TurnDecision sees the stores.
Abstract ==
  \A t \in Turns :
    /\ \A f \in privateFinals : turnOf[f] = t => OwnerOf(t) = f
    /\ OwnerOf(t) # NoFinal => OwnerOf(t) \in privateFinals /\ turnOf[OwnerOf(t)] = t
    /\ StageOf(t) = Written(t)

LEMMA AbstractView == Inv => Abstract
BY OwnerIs, StageIs DEF Abstract

\* No final is added: no turn changes its owner.
LEMMA OwnersFrame ==
  ASSUME Abstract, Abstract', privateFinals' = privateFinals, NEW t \in Turns,
         \A f \in privateFinals : turnOf'[f] = turnOf[f]
  PROVE  OwnerOf(t)' = OwnerOf(t)
<1>1. CASE \E f \in privateFinals : turnOf[f] = t
  BY <1>1 DEF Abstract
<1>2. CASE ~\E f \in privateFinals : turnOf[f] = t
  <2>1. OwnerOf(t) = NoFinal
    BY <1>2 DEF Abstract
  <2>2. OwnerOf(t)' = NoFinal
    BY <1>2 DEF Abstract
  <2>. QED  BY <2>1, <2>2
<1>. QED  BY <1>1, <1>2

\* Nothing is written.
LEMMA StutterRefines ==
  ASSUME Abstract, Abstract', \A f \in privateFinals : turnOf'[f] = turnOf[f],
         UNCHANGED <<current, stores>>
  PROVE  UNCHANGED Decision!vars
<1>1. \A t \in Turns : OwnerOf(t)' = OwnerOf(t)
  BY OwnersFrame DEF stores
<1>2. \A t \in Turns : Written(t)' = Written(t)
  BY <1>1 DEF Written, stores
<1>3. \A t \in Turns : StageOf(t)' = StageOf(t)
  BY <1>2 DEF Abstract
<1>. QED  BY <1>1, <1>3 DEF Decision!vars

\* One turn gets its next record, or keeps those it has.
LEMMA AdvanceRefines ==
  ASSUME Abstract, Abstract', NEW t \in Turns, UNCHANGED <<current, turnOf, privateFinals>>,
         OwnerOf(t) # NoFinal, \A u \in Turns \ {t} : Written(u)' = Written(u),
         \/ Written(t)' = Written(t)
         \/ Written(t)' = Written(t) + 1 /\ (Written(t) < 4 => t = current)
  PROVE  [Decision!Next]_Decision!vars
<1>1. \A u \in Turns : OwnerOf(u)' = OwnerOf(u)
  BY OwnersFrame
<1>2. \A u \in Turns : Written(u) \in 0 .. 6 /\ Written(u)' \in 0 .. 6
  BY DEF Written
<1>3. Written(t) > 0
  BY DEF Written
<1>4. \A u \in Turns : StageOf(u) = Written(u) /\ StageOf(u)' = Written(u)'
  BY DEF Abstract
<1>5. CASE Written(t)' = Written(t)
  BY <1>1, <1>4, <1>5 DEF Decision!vars
<1>6. CASE Written(t)' = Written(t) + 1 /\ (Written(t) < 4 => t = current)
  <2>1. StageOf(t) \in 1 .. 5 /\ (StageOf(t) < 4 => t = current)
    BY <1>2, <1>3, <1>4, <1>6
  <2>2. \A u \in Turns : StageOf(u)' = IF u = t THEN StageOf(u) + 1 ELSE StageOf(u)
    BY <1>4, <1>6
  <2>. DEFINE stage == [u \in Turns |-> StageOf(u)]
              owner == [u \in Turns |-> OwnerOf(u)]
  <2>3. stage' = [stage EXCEPT ![t] = @ + 1] /\ stage[t] = StageOf(t) /\ owner' = owner
    BY <1>1, <2>2
  <2>4. Decision!Advance(t)
    BY <2>1, <2>3 DEF Decision!Advance, Decision!Prepared, Decision!Settled, Decision!Public
  <2>. QED  BY <2>4 DEF Decision!Next, Decision!Turns
<1>. QED  BY <1>5, <1>6

\* The next turn starts when its predecessor has its public record.
LEMMA StartRefines ==
  ASSUME Inv, Abstract, Abstract', StartTurn
  PROVE  Decision!Next
<1>. USE DEF StartTurn, stores, process, Inv
<1>1. \A t \in Turns : OwnerOf(t)' = OwnerOf(t)
  BY OwnersFrame
<1>2. \A t \in Turns : Written(t)' = Written(t)
  BY <1>1 DEF Written
<1>3. \A t \in Turns : StageOf(t)' = StageOf(t)
  BY <1>2 DEF Abstract
<1>4. current > 0 => StageOf(current) >= 4
  <2>. SUFFICES ASSUME current > 0 PROVE StageOf(current) >= 4
    OBVIOUS
  <2>1. current \in Turns /\ winners[current] # NoFinal
    BY BoundAssumption DEF Typed, Active
  <2>2. intents[current] # NoFinal /\ current \in closures /\ OwnerOf(current) # NoFinal
    BY <2>1, FinalAssumption DEF Typed, Chain, Abstract
  <2>3. Written(current) >= 4
    BY <2>1, <2>2 DEF Written
  <2>. QED  BY <2>1, <2>3 DEF Abstract
<1>. DEFINE stage == [t \in Turns |-> StageOf(t)]
            owner == [t \in Turns |-> OwnerOf(t)]
<1>5. stage' = stage /\ owner' = owner /\ (current > 0 => stage[current] >= 4)
  BY <1>1, <1>3, <1>4, BoundAssumption DEF Typed
<1>. QED  BY <1>5 DEF Decision!Next, Decision!Start, Decision!Public

\* A final is stored: the running turn has none yet, whichever turn it was
\* built for, because a turn that is over has one.
LEMMA AdmitRefines ==
  ASSUME Inv, Abstract, Abstract', NEW f \in Finals, NEW o \in Outcomes, AdmitPrivateFinal(f, o)
  PROVE  [Decision!Next]_Decision!vars
<1>. USE DEF AdmitPrivateFinal, Inv
<1>1. CASE o = "lost"
  <2>1. \A g \in privateFinals : turnOf'[g] = turnOf[g]
    BY <1>1 DEF Typed, FinalsOfTurns
  <2>2. UNCHANGED <<current, stores>>
    BY <1>1 DEF stores
  <2>. QED  BY <2>1, <2>2, StutterRefines
<1>2. CASE o # "lost"
  <2>. PICK t : t = turnOf[f]
    OBVIOUS
  <2>1. f \notin privateFinals /\ f # NoFinal /\ t \in 1 .. current /\ t \in Turns
    BY BoundAssumption, FinalAssumption DEF Typed, FinalsOfTurns
  <2>2. \A g \in privateFinals : turnOf[g] # t
    BY <2>1 DEF OtherPreparation
  <2>3. OwnerOf(t) = NoFinal /\ OwnerOf(t)' = f
    BY <1>2, <2>1, <2>2 DEF Abstract
  <2>4. t = current
    BY <2>1, <2>2 DEF Typed, Chain
  <2>5. \A u \in Turns \ {t} : OwnerOf(u)' = OwnerOf(u)
    BY <1>2, <2>1 DEF Abstract
  <2>6. \A u \in Turns \ {t} : Written(u)' = Written(u)
    <3>1. \A u \in Turns \ {t} : OwnerOf(u) # f
      BY <2>1 DEF Abstract
    <3>. QED  BY <1>2, <2>5, <3>1 DEF Written
  <2>7. intents[t] = NoFinal
    BY <2>1, <2>2 DEF Typed, Chain
  <2>8. Written(t) = 0 /\ Written(t)' = 1
    BY <1>2, <2>1, <2>3, <2>7 DEF Written
  <2>9. \A u \in Turns : OwnerOf(u) # f
    BY <2>1 DEF Abstract
  <2>10. /\ \A u \in Turns : StageOf(u)' = IF u = t THEN 1 ELSE StageOf(u)
         /\ \A u \in Turns : OwnerOf(u)' = IF u = t THEN f ELSE OwnerOf(u)
         /\ StageOf(t) = 0
    BY <2>1, <2>3, <2>5, <2>6, <2>8 DEF Abstract
  <2>. DEFINE stage == [u \in Turns |-> StageOf(u)]
              owner == [u \in Turns |-> OwnerOf(u)]
  <2>11. /\ stage' = [stage EXCEPT ![t] = 1] /\ owner' = [owner EXCEPT ![t] = f]
         /\ stage[t] = 0 /\ \A u \in Turns : owner[u] # f
    BY <2>1, <2>9, <2>10
  <2>12. Decision!Prepare(f)
    BY <2>1, <2>4, <2>11
       DEF Decision!Prepare, Decision!Turns, Decision!Open, Decision!Prepared
  <2>. QED  BY <2>12 DEF Decision!Next
<1>. QED  BY <1>1, <1>2

\* The first record after the private final; only the running turn lacks it.
LEMMA EnsureIntentRefines ==
  ASSUME Inv, Abstract, Abstract', NEW f \in Finals, NEW o \in Outcomes, EnsureIntent(f, o)
  PROVE  [Decision!Next]_Decision!vars
<1>. USE DEF EnsureIntent, Inv
<1>. PICK t : t = turnOf[f]
  OBVIOUS
<1>1. t \in Turns /\ f \in privateFinals /\ f # NoFinal /\ OwnerOf(t) = f
  BY FinalAssumption, BoundAssumption DEF Typed, FinalsOfTurns, Within, Abstract
<1>2. \A u \in Turns \ {t} : OwnerOf(u) # f
  BY <1>1 DEF Abstract
<1>3. UNCHANGED <<current, turnOf, privateFinals>>
  BY DEF Return
<1>4. \A u \in Turns : OwnerOf(u)' = OwnerOf(u)
  BY <1>3, OwnersFrame
<1>5. \A u \in Turns \ {t} : Written(u)' = Written(u)
  BY <1>1, <1>2, <1>4 DEF Written, Typed
<1>6. winners[t] = NoFinal => t = current
  BY <1>1 DEF Typed, FinalsOfTurns, Chain
<1>7. \/ Written(t)' = Written(t)
      \/ Written(t)' = Written(t) + 1 /\ (Written(t) < 4 => t = current)
  BY <1>1, <1>4, <1>6 DEF Written, Typed, Chain, Progress, Within
<1>. QED  BY <1>1, <1>3, <1>5, <1>7, AdvanceRefines

\* The closure follows the intent.
LEMMA CloseTurnRefines ==
  ASSUME Inv, Abstract, Abstract', NEW f \in Finals, NEW o \in Outcomes, CloseTurn(f, o)
  PROVE  [Decision!Next]_Decision!vars
<1>. USE DEF CloseTurn, Inv, Step
<1>. PICK t : t = turnOf[f]
  OBVIOUS
<1>1. t \in Turns /\ f \in privateFinals /\ f # NoFinal /\ OwnerOf(t) = f
  BY FinalAssumption, BoundAssumption DEF Typed, FinalsOfTurns, Within, Abstract
<1>2. \A u \in Turns \ {t} : OwnerOf(u) # f
  BY <1>1 DEF Abstract
<1>3. UNCHANGED <<current, turnOf, privateFinals>>
  BY DEF Return
<1>4. \A u \in Turns : OwnerOf(u)' = OwnerOf(u)
  BY <1>3, OwnersFrame
<1>5. \A u \in Turns \ {t} : Written(u)' = Written(u)
  BY <1>1, <1>2, <1>4 DEF Written, Typed
<1>6. winners[t] = NoFinal => t = current
  BY <1>1 DEF Typed, FinalsOfTurns, Chain
<1>7. \/ Written(t)' = Written(t)
      \/ Written(t)' = Written(t) + 1 /\ (Written(t) < 4 => t = current)
  BY <1>1, <1>4, <1>6 DEF Written, Typed, Chain, Progress, Within
<1>. QED  BY <1>1, <1>3, <1>5, <1>7, AdvanceRefines

\* The public turn takes the final of its intent.
LEMMA PersistAcceptedFinalRefines ==
  ASSUME Inv, Abstract, Abstract', NEW f \in Finals, NEW o \in Outcomes, PersistAcceptedFinal(f, o)
  PROVE  [Decision!Next]_Decision!vars
<1>. USE DEF PersistAcceptedFinal, Inv
<1>. PICK t : t = turnOf[f]
  OBVIOUS
<1>1. t \in Turns /\ f \in privateFinals /\ f # NoFinal /\ OwnerOf(t) = f
  BY FinalAssumption, BoundAssumption DEF Typed, FinalsOfTurns, Within, Abstract
<1>2. \A u \in Turns \ {t} : OwnerOf(u) # f
  BY <1>1 DEF Abstract
<1>3. UNCHANGED <<current, turnOf, privateFinals>>
  BY DEF Return
<1>4. \A u \in Turns : OwnerOf(u)' = OwnerOf(u)
  BY <1>3, OwnersFrame
<1>5. \A u \in Turns \ {t} : Written(u)' = Written(u)
  BY <1>1, <1>2, <1>4 DEF Written, Typed
<1>6. winners[t] = NoFinal => t = current
  BY <1>1 DEF Typed, FinalsOfTurns, Chain
<1>7. \/ Written(t)' = Written(t)
      \/ Written(t)' = Written(t) + 1 /\ (Written(t) < 4 => t = current)
  BY <1>1, <1>4, <1>6 DEF Written, Typed, Chain, Progress, Within
<1>. QED  BY <1>1, <1>3, <1>5, <1>7, AdvanceRefines

\* The two dispositions follow the public turn, whether it still runs or not.
LEMMA EnsureAcceptedDispositionRefines ==
  ASSUME Inv, Abstract, Abstract', NEW f \in Finals, NEW o \in Outcomes, EnsureAcceptedDisposition(f, o)
  PROVE  [Decision!Next]_Decision!vars
<1>. USE DEF EnsureAcceptedDisposition, Inv, Step
<1>. PICK t : t = turnOf[f]
  OBVIOUS
<1>1. t \in Turns /\ f \in privateFinals /\ f # NoFinal /\ OwnerOf(t) = f
  BY FinalAssumption, BoundAssumption DEF Typed, FinalsOfTurns, Within, Abstract
<1>2. \A u \in Turns \ {t} : OwnerOf(u) # f
  BY <1>1 DEF Abstract
<1>3. UNCHANGED <<current, turnOf, privateFinals>>
  BY DEF Return
<1>4. \A u \in Turns : OwnerOf(u)' = OwnerOf(u)
  BY <1>3, OwnersFrame
<1>5. \A u \in Turns \ {t} : Written(u)' = Written(u)
  BY <1>1, <1>2, <1>4 DEF Written, Typed
<1>6. winners[t] = NoFinal => t = current
  BY <1>1 DEF Typed, FinalsOfTurns, Chain
<1>7. \/ Written(t)' = Written(t)
      \/ Written(t)' = Written(t) + 1 /\ (Written(t) < 4 => t = current)
  BY <1>1, <1>4, <1>6 DEF Written, Typed, Chain, Progress, Within
<1>. QED  BY <1>1, <1>3, <1>5, <1>7, AdvanceRefines

LEMMA EnsureTerminalDispositionRefines ==
  ASSUME Inv, Abstract, Abstract', NEW f \in Finals, NEW o \in Outcomes, EnsureTerminalDisposition(f, o)
  PROVE  [Decision!Next]_Decision!vars
<1>. USE DEF EnsureTerminalDisposition, Inv, Step
<1>. PICK t : t = turnOf[f]
  OBVIOUS
<1>1. t \in Turns /\ f \in privateFinals /\ f # NoFinal /\ OwnerOf(t) = f
  BY FinalAssumption, BoundAssumption DEF Typed, FinalsOfTurns, Within, Abstract
<1>2. \A u \in Turns \ {t} : OwnerOf(u) # f
  BY <1>1 DEF Abstract
<1>3. UNCHANGED <<current, turnOf, privateFinals>>
  BY DEF Return
<1>4. \A u \in Turns : OwnerOf(u)' = OwnerOf(u)
  BY <1>3, OwnersFrame
<1>5. \A u \in Turns \ {t} : Written(u)' = Written(u)
  BY <1>1, <1>2, <1>4 DEF Written, Typed
<1>6. winners[t] = NoFinal => t = current
  BY <1>1 DEF Typed, FinalsOfTurns, Chain
<1>7. \/ Written(t)' = Written(t)
      \/ Written(t)' = Written(t) + 1 /\ (Written(t) < 4 => t = current)
  BY <1>1, <1>4, <1>6 DEF Written, Typed, Chain, Progress, Within
<1>. QED  BY <1>1, <1>3, <1>5, <1>7, AdvanceRefines

\* Every other step writes nothing; a crash forgets only what was not stored.
LEMMA SilentRefines ==
  ASSUME Inv, Abstract, Abstract',
         \/ \E f \in Finals : Build(f) \/ RefusePrivateFinal(f) \/ Enter(f) \/ Resume(f)
                            \/ AbortStale(f)
         \/ Crash \/ Recover \/ Serve
  PROVE  UNCHANGED Decision!vars
<1>1. UNCHANGED <<current, stores>>
  BY DEF Build, RefusePrivateFinal, Enter, Resume, AbortStale, Crash, Recover, Serve
<1>2. \A g \in privateFinals : turnOf'[g] = turnOf[g]
  BY DEF Inv, Typed, FinalsOfTurns, Active, Resumed,
         Build, RefusePrivateFinal, Enter, Resume, AbortStale, Crash, Recover, Serve
<1>. QED  BY <1>1, <1>2, StutterRefines

LEMMA NextRefines ==
  ASSUME Inv, Abstract, Abstract', [Next]_vars
  PROVE  [Decision!Next]_Decision!vars
<1>1. CASE UNCHANGED vars
  BY <1>1, StutterRefines DEF vars
<1>2. CASE StartTurn
  BY <1>2, StartRefines
<1>3. CASE \E f \in Finals : Build(f) \/ Attempt(f)
  BY <1>3, AdmitRefines, EnsureIntentRefines, CloseTurnRefines, PersistAcceptedFinalRefines,
     EnsureAcceptedDispositionRefines, EnsureTerminalDispositionRefines, SilentRefines
     DEF Attempt
<1>4. CASE Crash \/ Restart
  BY <1>4, SilentRefines DEF Restart
<1>. QED  BY <1>1, <1>2, <1>3, <1>4 DEF Next

\* One final per turn, its records in order and never taken back, and no turn
\* before the last one is publicly over: the stores implement TurnDecision,
\* through crashes, failed writes and resumed transactions.
THEOREM StoresDecide == Spec => ImplementsDecision
<1>1. Init => Decision!Init
  <2>. SUFFICES ASSUME Init PROVE Decision!Init
    OBVIOUS
  <2>1. Inv /\ Abstract
    BY Initially, AbstractView
  <2>2. \A t \in Turns : OwnerOf(t) = NoFinal
    BY <2>1 DEF Abstract, Init
  <2>3. \A t \in Turns : StageOf(t) = 0
    BY <2>1, <2>2 DEF Abstract, Written
  <2>. QED  BY <2>2, <2>3 DEF Init, Decision!Init, Decision!Turns, Decision!Open
<1>2. Inv /\ Abstract /\ Abstract' /\ [Next]_vars => [Decision!Next]_Decision!vars
  BY NextRefines
<1>. QED  BY <1>1, <1>2, Invariance, AbstractView, PTL DEF Spec, ImplementsDecision, Decision!Spec
===============================================================================
