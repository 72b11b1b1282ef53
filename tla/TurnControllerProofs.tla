------------------------- MODULE TurnControllerProofs -------------------------
(***************************************************************************)
(* What the turn controller keeps, for any number of threads, turns and    *)
(* goroutines.  Inv is inductive.  Each part ties a field of Controller to *)
(* the goroutines that stand behind it: an owner to the execution that     *)
(* runs, a claim or a reservation to the one goroutine that will give it   *)
(* back, a counter to the calls it counts.  TerminalsAlone is the reason   *)
(* why a thread has one publisher: claims and interrupt reservations       *)
(* exclude each other at admission, so that only those of one turn can     *)
(* meet, and an interrupt is granted when the claim is gone.               *)
(***************************************************************************)
EXTENDS TurnController, FiniteSetTheorems, TLAPS

Operating == Executions \cup Steers \cup Interrupts \cup Auxiliaries
PreparePCs == {"preparing", "prepared", "tail"}
OwnerPCs == {"running", "claiming", "claimed", "hosting", "publishing", "settling", "settled",
             "failed"}
ClaimPCs == {"claiming", "claimed", "hosting", "publishing", "settling"}
ReservedPCs == {"draining", "cancelling", "waiting", "held"}

\* What a goroutine may be doing depends on its role.
Roles ==
  /\ \A e \in Executions :
       pc[e] \in {"new", "admitted", "ending", "done"} \cup PreparePCs \cup OwnerPCs
  /\ \A s \in Steers : pc[s] \in {"new", "admitted", "steering", "cancelling", "ending", "done"}
  /\ \A i \in Interrupts : pc[i] \in {"new", "admitted", "ending", "done"} \cup ReservedPCs
  /\ \A m \in Transitions : pc[m] \in {"new", "sweeping", "cancelling", "quiet", "done"}
  /\ \A a \in Auxiliaries : pc[a] \in {"new", "auxiliary", "ending", "done"}
  /\ \A c \in Closers : pc[c] \in {"new", "closing", "hosting", "settling", "done"}

\* A call under way has its thread, and the call on a turn the thread of its turn.
Bound ==
  /\ \A p \in Proc : pc[p] \notin {"new", "done"} =>
       /\ thread[p] \in Threads
       /\ p \notin Transitions \cup Auxiliaries => /\ turn[p] \in Turns
                                                   /\ thread[p] = ThreadOf[turn[p]]
  /\ \A e \in prepared : thread[e] \in Threads

\* turnOwners holds exactly the executions that run.
Owners ==
  /\ \A e \in Executions : pc[e] \in OwnerPCs => turnOwners[turn[e]] = e
  /\ \A k \in Turns : Owned(k) =>
       LET e == turnOwners[k] IN pc[e] \in OwnerPCs /\ turn[e] = k

\* A claimant has its claim, and nobody else has it.
Claims ==
  /\ \A p \in Proc : pc[p] \in ClaimPCs => Mine(p)
  /\ \A p, q \in Proc : pc[p] \in ClaimPCs /\ pc[q] \in ClaimPCs /\ turn[p] = turn[q] => p = q

\* Two terminals that are active in a thread are of one turn.
TerminalsAlone ==
  \A k, l \in candidateTerminals \cup interruptReservations : ThreadOf[k] = ThreadOf[l] => k = l

\* A reservation belongs to the one interrupt that holds it, and once it is
\* granted, its turn has neither an owner nor a claim.
Reservations ==
  /\ \A i \in Interrupts : pc[i] \in ReservedPCs => turn[i] \in interruptReservations
  /\ \A i, j \in Interrupts :
       pc[i] \in ReservedPCs /\ pc[j] \in ReservedPCs /\ turn[i] = turn[j] => i = j
  /\ \A k \in interruptReservations : \E i \in Interrupts : pc[i] \in ReservedPCs /\ turn[i] = k
  /\ \A i \in Interrupts : pc[i] = "held" =>
       turn[i] \notin candidateTerminals /\ ~Owned(turn[i])

\* steerAdmissions counts the mutations that are being written.
Steering(k) == { s \in Steers : pc[s] = "steering" /\ turn[s] = k }
SteersCounted == \A k \in Turns : steerAdmissions[k] = Cardinality(Steering(k))

\* The auxiliary operation of a thread is the one that runs there.
AuxiliaryRuns ==
  /\ \A a \in Auxiliaries : pc[a] = "auxiliary" => auxiliary[thread[a]] = a
  /\ \A t \in Threads : auxiliary[t] # None =>
       pc[auxiliary[t]] = "auxiliary" /\ thread[auxiliary[t]] = t

\* foregroundPreparing counts the preparations that are not released.
Preparing(t) == { e \in prepared : thread[e] = t }
PreparationsCounted ==
  /\ \A e \in Executions : pc[e] \in PreparePCs => e \in prepared
  /\ \A e \in prepared : pc[e] \notin {"new", "admitted"}
  /\ \A t \in Threads : foregroundPreparing[t].count = Cardinality(Preparing(t))

\* A preparation waits for the auxiliary operation it met, so that none runs
\* beside a tail registration and at most one preparation is finished under it.
PreparationsWait ==
  /\ \A e \in Executions : pc[e] = "preparing" /\ auxiliary[thread[e]] # None =>
       auxiliary[thread[e]] \in target[e]
  /\ \A e \in Executions : pc[e] = "tail" => auxiliary[thread[e]] = None
  /\ \A d, e \in Executions :
       /\ pc[d] = "prepared" /\ pc[e] = "prepared" /\ thread[d] = thread[e]
       /\ auxiliary[thread[e]] # None
       => d = e

\* A transition under way has its thread, and no other has it.
TransitionsAlone ==
  /\ \A m \in Transitions : pc[m] \in {"sweeping", "cancelling", "quiet"} =>
       thread[m] \in threadTransitions
  /\ \A m, n \in Transitions :
       /\ pc[m] \in {"sweeping", "cancelling", "quiet"}
       /\ pc[n] \in {"sweeping", "cancelling", "quiet"}
       /\ thread[m] = thread[n]
       => m = n

\* activeTurnOperations counts the calls that are not finished; none is left
\* when the host has waited for them.
Operations == { p \in Operating : pc[p] \notin {"new", "done"} }
OperationsCounted ==
  /\ activeTurnOperations = Cardinality(Operations)
  /\ shutdown = "drained" \/ maintenance => Operations = {}

Inv ==
  /\ TypeOK /\ Roles /\ Bound /\ Owners /\ ReservationsOwned
  /\ Claims /\ TerminalsAlone /\ Reservations /\ SteersCounted /\ SteersDrained
  /\ AuxiliaryRuns /\ AuxiliaryAlone /\ PreparationsCounted /\ PreparationsWait
  /\ TransitionsAlone /\ QuietTransition /\ OperationsCounted

-------------------------------------------------------------------------------
\* No goroutine has two roles.
LEMMA RolesApart ==
  /\ Executions \cap Steers = {} /\ Executions \cap Interrupts = {}
  /\ Executions \cap Transitions = {} /\ Executions \cap Auxiliaries = {}
  /\ Executions \cap Closers = {} /\ Steers \cap Interrupts = {}
  /\ Steers \cap Transitions = {} /\ Steers \cap Auxiliaries = {} /\ Steers \cap Closers = {}
  /\ Interrupts \cap Transitions = {} /\ Interrupts \cap Auxiliaries = {}
  /\ Interrupts \cap Closers = {} /\ Transitions \cap Auxiliaries = {}
  /\ Transitions \cap Closers = {} /\ Auxiliaries \cap Closers = {}
  /\ Executions \subseteq Proc /\ Steers \subseteq Proc /\ Interrupts \subseteq Proc
  /\ Transitions \subseteq Proc /\ Auxiliaries \subseteq Proc /\ Closers \subseteq Proc
  /\ \A p \in Proc : \/ p \in Executions \/ p \in Steers \/ p \in Interrupts
                     \/ p \in Transitions \/ p \in Auxiliaries \/ p \in Closers
  /\ None \notin Proc /\ None \notin Turns /\ None \notin Threads
<1>. DEFINE role == <<Starts, Resumptions, Steers, Interrupts, Transitions, Auxiliaries, Closers>>
<1>1. \A i, j \in 1..7 : i # j => role[i] \cap role[j] = {}
  BY ProcAssumption
<1>2. \A i, j \in {1, 2, 3, 4, 5, 6, 7} : i # j => role[i] \cap role[j] = {}
  BY <1>1
<1>. QED  BY <1>2, ProcAssumption DEF Executions, Proc

USE RolesApart DEF Goto, notify, ownerVars, terminalVars, prepareVars, hostVars, callVars,
                   PreparePCs, OwnerPCs, ClaimPCs, ReservedPCs

\* One element more or less, in a finite set.
LEMMA Counting ==
  ASSUME NEW S, IsFiniteSet(S), NEW x
  PROVE  /\ Cardinality(S) \in Nat
         /\ IsFiniteSet(S \cup {x}) /\ IsFiniteSet(S \ {x})
         /\ x \notin S => Cardinality(S \cup {x}) = Cardinality(S) + 1
         /\ x \in S => Cardinality(S \ {x}) = Cardinality(S) - 1
BY FS_CardinalityType, FS_EmptySet, FS_AddElement, FS_RemoveElement

LEMMA CountingPositive ==
  ASSUME NEW S, IsFiniteSet(S)
  PROVE  Cardinality(S) \in Nat /\ (Cardinality(S) = 0 <=> S = {})
BY FS_CardinalityType, FS_EmptySet

\* What is counted is finite.
LEMMA CountedFinite ==
  ASSUME TypeOK
  PROVE  /\ IsFiniteSet(Operations)
         /\ \A k : IsFiniteSet(Steering(k))
         /\ \A t : IsFiniteSet(Preparing(t))
<1>1. Operations \subseteq Proc
  BY DEF Operations, Operating
<1>2. \A k : Steering(k) \subseteq Proc
  BY DEF Steering
<1>3. \A t : Preparing(t) \subseteq Proc
  BY DEF Preparing, TypeOK
<1>. QED  BY <1>1, <1>2, <1>3, FS_Subset, ProcAssumption

\* A step in which nobody begins or finishes, and one in which somebody does.
LEMMA OperationsFrame ==
  ASSUME OperationsCounted, UNCHANGED <<shutdown, maintenance, activeTurnOperations>>,
         \A p \in Operating : pc[p] \in {"new", "done"} <=> pc'[p] \in {"new", "done"}
  PROVE  OperationsCounted'
<1>. Operations' = Operations
  BY DEF Operations
<1>. QED  BY DEF OperationsCounted

LEMMA OperationBegins ==
  ASSUME TypeOK, OperationsCounted, UNCHANGED <<shutdown, maintenance>>,
         NEW p \in Operating, NEW to \in PCs \ {"new", "done"}, pc[p] = "new", Goto(p, to),
         Admits, activeTurnOperations' = activeTurnOperations + 1
  PROVE  OperationsCounted'
<1>1. Operations' = Operations \cup {p} /\ p \notin Operations
  BY DEF Operations, Operating, TypeOK
<1>2. IsFiniteSet(Operations)
  BY CountedFinite
<1>3. Cardinality(Operations \cup {p}) = Cardinality(Operations) + 1
  BY <1>1, <1>2, Counting
<1>. QED  BY <1>1, <1>3 DEF OperationsCounted, Admits

LEMMA OperationEnds ==
  ASSUME TypeOK, OperationsCounted, UNCHANGED <<shutdown, maintenance>>,
         NEW p \in Operating, pc[p] \notin {"new", "done"}, Goto(p, "done"),
         activeTurnOperations' = activeTurnOperations - 1
  PROVE  OperationsCounted' /\ activeTurnOperations' \in Nat
<1>1. Operations' = Operations \ {p} /\ p \in Operations
  BY DEF Operations, Operating, TypeOK
<1>2. IsFiniteSet(Operations)
  BY CountedFinite
<1>3. /\ Cardinality(Operations \ {p}) = Cardinality(Operations) - 1
      /\ Cardinality(Operations \ {p}) \in Nat
  BY <1>1, <1>2, Counting
<1>. QED  BY <1>1, <1>3 DEF OperationsCounted

\* The mutation that is being written is counted.
LEMMA SteeringPositive ==
  ASSUME Inv, NEW s \in Steers, pc[s] = "steering"
  PROVE  /\ turn[s] \in Turns
         /\ steerAdmissions[turn[s]] > 0 /\ steerAdmissions[turn[s]] - 1 \in Nat
<1>1. turn[s] \in Turns /\ s \in Steering(turn[s])
  BY DEF Inv, Bound, Steering
<1>2. Cardinality(Steering(turn[s])) \in Nat \ {0}
  BY <1>1, CountedFinite, CountingPositive DEF Inv
<1>. QED  BY <1>1, <1>2 DEF Inv, SteersCounted

\* What goroutine p of a role may be doing.
May(p, step) ==
  /\ p \in Executions =>
       step \in {"new", "admitted", "ending", "done"} \cup PreparePCs \cup OwnerPCs
  /\ p \in Steers => step \in {"new", "admitted", "steering", "cancelling", "ending", "done"}
  /\ p \in Interrupts => step \in {"new", "admitted", "ending", "done"} \cup ReservedPCs
  /\ p \in Transitions => step \in {"new", "sweeping", "cancelling", "quiet", "done"}
  /\ p \in Auxiliaries => step \in {"new", "auxiliary", "ending", "done"}
  /\ p \in Closers => step \in {"new", "closing", "hosting", "settling", "done"}

LEMMA RolesKept ==
  ASSUME TypeOK, Roles, NEW p \in Proc, NEW step, May(p, step),
         pc' = pc \/ pc' = [pc EXCEPT ![p] = step]
  PROVE  Roles'
<1>1. \A q \in Proc : May(q, pc[q])
  BY DEF Roles, May
<1>2. \A q \in Proc : May(q, pc'[q])
  <2>1. \A q \in Proc : pc'[q] \in {pc[q], step} /\ (q # p => pc'[q] = pc[q])
    BY DEF TypeOK
  <2>. QED  BY <1>1, <2>1
<1>. QED  BY <1>2 DEF Roles, May

LEMMA BeginTurnOperationKeeps ==
  ASSUME Inv, NEW p \in Proc, BeginTurnOperation(p)
  PROVE  Inv'
<1>. USE DEF Inv, BeginTurnOperation, Admits
<1>1. TypeOK'  BY ThreadAssumption DEF TypeOK, Roles, Bound, PCs
<1>2. Roles'  BY DEF TypeOK, Roles
<1>3. Bound'  BY ThreadAssumption DEF TypeOK, Roles, Bound
<1>4. Owners' /\ ReservationsOwned'
  BY DEF TypeOK, Roles, Bound, Owners, ReservationsOwned, Owned
<1>5. Claims'  BY DEF TypeOK, Roles, Bound, Claims, Mine, TurnsOf
<1>6. TerminalsAlone' /\ Reservations'
  BY DEF TypeOK, Roles, Bound, TerminalsAlone, Reservations, Owned, TurnsOf
<1>7. SteersCounted'  BY DEF TypeOK, Roles, SteersCounted, Steering
<1>8. SteersDrained'
  BY DEF TypeOK, Roles, Bound, SteersDrained, HoldsTerminal, threadSteerAdmissionActive,
         TurnsOf
<1>9. AuxiliaryRuns' /\ AuxiliaryAlone'
  BY DEF TypeOK, Roles, Bound, AuxiliaryRuns, AuxiliaryAlone, PreparationsWait, Owned,
         TurnsOf
<1>10. PreparationsCounted' /\ PreparationsWait'
  BY DEF TypeOK, Roles, Bound, AuxiliaryRuns, PreparationsCounted, PreparationsWait,
         Preparing
<1>11. TransitionsAlone' /\ QuietTransition'
  BY DEF TypeOK, Roles, TransitionsAlone, QuietTransition, Owned, TurnsOf
<1>12. OperationsCounted'
  <2>. p \in Operating /\ "admitted" \in PCs \ {"new", "done"}
    BY DEF TypeOK, Roles, Bound, Operating, PCs
  <2>. QED  BY OperationBegins
<1>. QED  BY <1>1, <1>2, <1>3, <1>4, <1>5, <1>6, <1>7, <1>8, <1>9, <1>10, <1>11, <1>12 DEF Inv

LEMMA finishTurnOperationKeeps ==
  ASSUME Inv, NEW p \in Proc, finishTurnOperation(p)
  PROVE  Inv'
<1>. USE DEF Inv, finishTurnOperation
<1>1. TypeOK'
  <2>. p \in Operating
    BY DEF TypeOK, Roles, Bound, Operating
  <2>1. activeTurnOperations' \in Nat
    BY OperationEnds
  <2>. QED  BY <2>1 DEF TypeOK, Roles, Bound, PCs
<1>2. Roles'  BY DEF TypeOK, Roles
<1>3. Bound'  BY ThreadAssumption DEF TypeOK, Roles, Bound
<1>4. Owners' /\ ReservationsOwned'
  BY DEF TypeOK, Roles, Bound, Owners, ReservationsOwned, Owned
<1>5. Claims'  BY DEF TypeOK, Roles, Bound, Claims, Mine, TurnsOf
<1>6. TerminalsAlone' /\ Reservations'
  BY DEF TypeOK, Roles, Bound, TerminalsAlone, Reservations, Owned, TurnsOf
<1>7. SteersCounted'  BY DEF TypeOK, Roles, SteersCounted, Steering
<1>8. SteersDrained'
  BY DEF TypeOK, Roles, Bound, SteersDrained, HoldsTerminal, threadSteerAdmissionActive,
         TurnsOf
<1>9. AuxiliaryRuns' /\ AuxiliaryAlone'
  BY DEF TypeOK, Roles, Bound, AuxiliaryRuns, AuxiliaryAlone, PreparationsWait, Owned,
         TurnsOf
<1>10. PreparationsCounted' /\ PreparationsWait'
  BY DEF TypeOK, Roles, Bound, AuxiliaryRuns, PreparationsCounted, PreparationsWait,
         Preparing
<1>11. TransitionsAlone' /\ QuietTransition'
  BY DEF TypeOK, Roles, TransitionsAlone, QuietTransition, Owned, TurnsOf
<1>12. OperationsCounted'
  <2>. p \in Operating
    BY DEF TypeOK, Roles, Bound, Operating
  <2>. QED  BY OperationEnds
<1>. QED  BY <1>1, <1>2, <1>3, <1>4, <1>5, <1>6, <1>7, <1>8, <1>9, <1>10, <1>11, <1>12 DEF Inv

LEMMA GiveUpKeeps ==
  ASSUME Inv, NEW p \in Proc, GiveUp(p)
  PROVE  Inv'
<1>. USE DEF Inv, GiveUp
<1>1. TypeOK'  BY ThreadAssumption DEF TypeOK, Roles, Bound, PCs
<1>2. Roles'  BY DEF TypeOK, Roles
<1>3. Bound'  BY ThreadAssumption DEF TypeOK, Roles, Bound
<1>4. Owners' /\ ReservationsOwned'
  BY DEF TypeOK, Roles, Bound, Owners, ReservationsOwned, Owned
<1>5. Claims'  BY DEF TypeOK, Roles, Bound, Claims, Mine, TurnsOf
<1>6. TerminalsAlone' /\ Reservations'
  BY DEF TypeOK, Roles, Bound, TerminalsAlone, Reservations, Owned, TurnsOf
<1>7. SteersCounted'  BY DEF TypeOK, Roles, SteersCounted, Steering
<1>8. SteersDrained'
  BY DEF TypeOK, Roles, Bound, SteersDrained, HoldsTerminal, threadSteerAdmissionActive,
         TurnsOf
<1>9. AuxiliaryRuns' /\ AuxiliaryAlone'
  BY DEF TypeOK, Roles, Bound, AuxiliaryRuns, AuxiliaryAlone, PreparationsWait, Owned,
         TurnsOf
<1>10. PreparationsCounted' /\ PreparationsWait'
  BY DEF TypeOK, Roles, Bound, AuxiliaryRuns, PreparationsCounted, PreparationsWait,
         Preparing
<1>11. TransitionsAlone' /\ QuietTransition'
  BY DEF TypeOK, Roles, TransitionsAlone, QuietTransition, Owned, TurnsOf
<1>12. OperationsCounted'  BY OperationsFrame DEF TypeOK, Roles, Operating
<1>. QED  BY <1>1, <1>2, <1>3, <1>4, <1>5, <1>6, <1>7, <1>8, <1>9, <1>10, <1>11, <1>12 DEF Inv

LEMMA PrepareForegroundKeeps ==
  ASSUME Inv, NEW e \in Proc, PrepareForeground(e)
  PROVE  Inv'
<1>. USE DEF Inv, PrepareForeground, Admits
<1>1. TypeOK'
  <2>. e \in Executions /\ thread[e] \in Threads
    BY DEF TypeOK, Roles, Bound, Executions
  <2>1. foregroundPreparing' \in [Threads -> [count : Nat, current : Executions \cup {None}]]
    BY DEF TypeOK, Roles, Bound
  <2>2. target' \in [Proc -> SUBSET (Executions \cup Auxiliaries)]
          /\ cancelled' \subseteq Executions \cup Auxiliaries
    BY DEF TypeOK, Roles, Bound
  <2>. QED  BY <2>1, <2>2 DEF TypeOK, Roles, Bound, PCs
<1>2. Roles'  BY DEF TypeOK, Roles, Executions
<1>3. Bound'  BY ThreadAssumption DEF TypeOK, Roles, Bound
<1>4. Owners' /\ ReservationsOwned'
  BY DEF TypeOK, Roles, Bound, Owners, ReservationsOwned, Owned
<1>5. Claims'  BY DEF TypeOK, Roles, Bound, Claims, Mine, TurnsOf
<1>6. TerminalsAlone' /\ Reservations'
  BY DEF TypeOK, Roles, Bound, TerminalsAlone, Reservations, Owned, TurnsOf
<1>7. SteersCounted'  BY DEF TypeOK, Roles, SteersCounted, Steering
<1>8. SteersDrained'
  BY DEF TypeOK, Roles, Bound, SteersDrained, HoldsTerminal, threadSteerAdmissionActive,
         TurnsOf
<1>9. AuxiliaryRuns' /\ AuxiliaryAlone'
  BY DEF TypeOK, Roles, Bound, AuxiliaryRuns, AuxiliaryAlone, PreparationsWait, Owned,
         TurnsOf
<1>10. PreparationsCounted' /\ PreparationsWait'
  <2>. PICK t : t = thread[e]
    OBVIOUS
  <2>1. Preparing(t)' = Preparing(t) \cup {e} /\ e \notin Preparing(t) /\ t \in Threads
    BY DEF TypeOK, Roles, Bound, PreparationsCounted, Preparing
  <2>2. \A u \in Threads \ {t} : Preparing(u)' = Preparing(u)
    BY DEF TypeOK, Roles, Bound, Preparing
  <2>3. Cardinality(Preparing(t)') = Cardinality(Preparing(t)) + 1
    BY <2>1, CountedFinite, Counting
  <2>4. \A u \in Threads : foregroundPreparing'[u].count =
          IF u = t THEN foregroundPreparing[u].count + 1 ELSE foregroundPreparing[u].count
    BY <2>1 DEF TypeOK
  <2>5. \A u \in Threads : foregroundPreparing'[u].count = Cardinality(Preparing(u))'
    <3>. HIDE DEF PrepareForeground
    <3>. QED  BY <2>1, <2>2, <2>3, <2>4 DEF PreparationsCounted
  <2>6. PreparationsCounted'
    BY <2>5 DEF TypeOK, Roles, Bound, PreparationsCounted
  <2>7. PreparationsWait'
    BY DEF TypeOK, Roles, Bound, PreparationsWait, AuxiliaryRuns
  <2>. QED  BY <2>6, <2>7
<1>11. TransitionsAlone' /\ QuietTransition'
  BY DEF TypeOK, Roles, TransitionsAlone, QuietTransition, Owned, TurnsOf
<1>12. OperationsCounted'  BY OperationsFrame DEF TypeOK, Roles, Operating
<1>. QED  BY <1>1, <1>2, <1>3, <1>4, <1>5, <1>6, <1>7, <1>8, <1>9, <1>10, <1>11, <1>12 DEF Inv

LEMMA ForegroundPreparedKeeps ==
  ASSUME Inv, NEW e \in Proc, ForegroundPrepared(e)
  PROVE  Inv'
<1>. USE DEF Inv, ForegroundPrepared
<1>1. TypeOK'  BY ThreadAssumption DEF TypeOK, Roles, Bound, PCs
<1>2. Roles'  BY DEF TypeOK, Roles
<1>3. Bound'  BY ThreadAssumption DEF TypeOK, Roles, Bound
<1>4. Owners' /\ ReservationsOwned'
  BY DEF TypeOK, Roles, Bound, Owners, ReservationsOwned, Owned
<1>5. Claims'  BY DEF TypeOK, Roles, Bound, Claims, Mine, TurnsOf
<1>6. TerminalsAlone' /\ Reservations'
  BY DEF TypeOK, Roles, Bound, TerminalsAlone, Reservations, Owned, TurnsOf
<1>7. SteersCounted'  BY DEF TypeOK, Roles, SteersCounted, Steering
<1>8. SteersDrained'
  BY DEF TypeOK, Roles, Bound, SteersDrained, HoldsTerminal, threadSteerAdmissionActive,
         TurnsOf
<1>9. AuxiliaryRuns' /\ AuxiliaryAlone'
  BY DEF TypeOK, Roles, Bound, AuxiliaryRuns, AuxiliaryAlone, PreparationsWait, Owned,
         TurnsOf
<1>10. PreparationsCounted' /\ PreparationsWait'
  BY DEF TypeOK, Roles, Bound, AuxiliaryRuns, PreparationsCounted, PreparationsWait,
         Preparing
<1>11. TransitionsAlone' /\ QuietTransition'
  BY DEF TypeOK, Roles, TransitionsAlone, QuietTransition, Owned, TurnsOf
<1>12. OperationsCounted'  BY OperationsFrame DEF TypeOK, Roles, Operating
<1>. QED  BY <1>1, <1>2, <1>3, <1>4, <1>5, <1>6, <1>7, <1>8, <1>9, <1>10, <1>11, <1>12 DEF Inv

LEMMA ReleasePreparationKeeps ==
  ASSUME Inv, NEW e \in Proc, ReleasePreparation(e)
  PROVE  Inv'
<1>. USE DEF Inv, ReleasePreparation
<1>1. TypeOK'
  <2>. PICK t : t = thread[e]
    OBVIOUS
  <2>. DEFINE f == foregroundPreparing[t]
              F == [count : Nat, current : Executions \cup {None}]
  <2>1. e \in Preparing(t) /\ t \in Threads
    BY DEF Bound, Preparing
  <2>2. f.count - 1 \in Nat
    BY <2>1, CountedFinite, CountingPositive DEF PreparationsCounted
  <2>3. f.current \in Executions \cup {None}
    BY <2>1 DEF TypeOK
  <2>4. foregroundPreparing'[t] \in F
    BY <2>1, <2>2, <2>3 DEF TypeOK
  <2>5. foregroundPreparing' \in [Threads -> F]
    BY <2>1, <2>4 DEF TypeOK
  <2>. QED  BY <2>5 DEF TypeOK
<1>2. Roles'  BY DEF TypeOK, Roles
<1>3. Bound'  BY ThreadAssumption DEF TypeOK, Roles, Bound
<1>4. Owners' /\ ReservationsOwned'
  BY DEF TypeOK, Roles, Bound, Owners, ReservationsOwned, Owned
<1>5. Claims'  BY DEF TypeOK, Roles, Bound, Claims, Mine, TurnsOf
<1>6. TerminalsAlone' /\ Reservations'
  BY DEF TypeOK, Roles, Bound, TerminalsAlone, Reservations, Owned, TurnsOf
<1>7. SteersCounted'  BY DEF TypeOK, Roles, SteersCounted, Steering
<1>8. SteersDrained'
  BY DEF TypeOK, Roles, Bound, SteersDrained, HoldsTerminal, threadSteerAdmissionActive,
         TurnsOf
<1>9. AuxiliaryRuns' /\ AuxiliaryAlone'
  BY DEF TypeOK, Roles, Bound, AuxiliaryRuns, AuxiliaryAlone, PreparationsWait, Owned,
         TurnsOf
<1>10. PreparationsCounted' /\ PreparationsWait'
  <2>. PICK t : t = thread[e]
    OBVIOUS
  <2>1. Preparing(t)' = Preparing(t) \ {e} /\ e \in Preparing(t) /\ t \in Threads
    BY DEF TypeOK, Roles, Bound, PreparationsCounted, Preparing
  <2>2. \A u \in Threads \ {t} : Preparing(u)' = Preparing(u)
    BY DEF TypeOK, Roles, Bound, Preparing
  <2>3. Cardinality(Preparing(t)') = Cardinality(Preparing(t)) - 1
    BY <2>1, CountedFinite, Counting
  <2>4. \A u \in Threads : foregroundPreparing'[u].count =
          IF u = t THEN foregroundPreparing[u].count - 1 ELSE foregroundPreparing[u].count
    BY <2>1 DEF TypeOK
  <2>5. \A u \in Threads : foregroundPreparing'[u].count = Cardinality(Preparing(u))'
    <3>. HIDE DEF ReleasePreparation
    <3>. QED  BY <2>1, <2>2, <2>3, <2>4 DEF PreparationsCounted
  <2>6. PreparationsCounted'
    BY <2>5 DEF TypeOK, Roles, Bound, PreparationsCounted
  <2>7. PreparationsWait'
    BY DEF TypeOK, Roles, Bound, PreparationsWait
  <2>. QED  BY <2>6, <2>7
<1>11. TransitionsAlone' /\ QuietTransition'
  BY DEF TypeOK, Roles, TransitionsAlone, QuietTransition, Owned, TurnsOf
<1>12. OperationsCounted'  BY OperationsFrame DEF TypeOK, Roles, Operating
<1>. QED  BY <1>1, <1>2, <1>3, <1>4, <1>5, <1>6, <1>7, <1>8, <1>9, <1>10, <1>11, <1>12 DEF Inv

LEMMA BeginAuxiliaryKeeps ==
  ASSUME Inv, NEW a \in Proc, BeginAuxiliary(a)
  PROVE  Inv'
<1>. USE DEF Inv, BeginAuxiliary, Admits, reservationCurrent, threadTerminalActive, TurnsOf,
             Owned
<1>1. TypeOK'  BY ThreadAssumption DEF TypeOK, Roles, Bound, PCs
<1>2. Roles'  BY DEF TypeOK, Roles
<1>3. Bound'  BY ThreadAssumption DEF TypeOK, Roles, Bound
<1>4. Owners' /\ ReservationsOwned'  BY DEF TypeOK, Roles, Bound, Owners, ReservationsOwned
<1>5. Claims'  BY DEF TypeOK, Roles, Bound, Claims, Mine
<1>6. TerminalsAlone' /\ Reservations'  BY DEF TypeOK, Roles, Bound, TerminalsAlone, Reservations
<1>7. SteersCounted'  BY DEF TypeOK, Roles, SteersCounted, Steering
<1>8. SteersDrained'
  BY DEF TypeOK, Roles, Bound, SteersDrained, HoldsTerminal, threadSteerAdmissionActive
<1>9. AuxiliaryRuns' /\ AuxiliaryAlone'
  BY DEF TypeOK, Roles, Bound, AuxiliaryRuns, AuxiliaryAlone, PreparationsWait
<1>10. PreparationsCounted' /\ PreparationsWait'
  <2>. PICK t \in Threads : BeginAuxiliary(a)!(t)
    OBVIOUS
  <2>. HIDE DEF BeginAuxiliary
  <2>1. foregroundPreparing[t].count = Cardinality(Preparing(t)) /\ IsFiniteSet(Preparing(t))
    BY CountedFinite DEF PreparationsCounted
  <2>2. /\ \A e \in Preparing(t) : pc[e] = "prepared"
        /\ \A d, e \in Preparing(t) : d = e
    <3>1. CASE foregroundPreparing[t].count = 0
      BY <2>1, <3>1, CountingPositive
    <3>2. CASE foregroundPreparing[t].count # 0
      <4>1. PICK e \in Executions : pc[e] = "prepared" /\ thread[e] = t /\ reservationCurrent(e)
        BY <3>2
      <4>2. Cardinality(Preparing(t)) = 1 /\ e \in Preparing(t)
        BY <2>1, <4>1 DEF reservationCurrent, Preparing
      <4>. QED  BY <2>1, <4>1, <4>2, FS_Singleton
    <3>. QED  BY <3>1, <3>2
  <2>3. PreparationsCounted'
    BY DEF TypeOK, Roles, PreparationsCounted, Preparing
  <2>4. PreparationsWait'
    BY <2>2 DEF TypeOK, Roles, PreparationsWait, PreparationsCounted, Preparing
  <2>. QED  BY <2>3, <2>4
<1>11. TransitionsAlone' /\ QuietTransition'
  BY DEF TypeOK, Roles, TransitionsAlone, QuietTransition
<1>12. OperationsCounted'
  <2>. a \in Operating /\ "auxiliary" \in PCs \ {"new", "done"}
    BY DEF TypeOK, Roles, Bound, Operating, PCs
  <2>. QED  BY OperationBegins
<1>. QED  BY <1>1, <1>2, <1>3, <1>4, <1>5, <1>6, <1>7, <1>8, <1>9, <1>10, <1>11, <1>12 DEF Inv

LEMMA EndAuxiliaryKeeps ==
  ASSUME Inv, NEW a \in Proc, EndAuxiliary(a)
  PROVE  Inv'
<1>. USE DEF Inv, EndAuxiliary
<1>1. TypeOK'  BY ThreadAssumption DEF TypeOK, Roles, Bound, PCs
<1>2. Roles'  BY DEF TypeOK, Roles
<1>3. Bound'  BY ThreadAssumption DEF TypeOK, Roles, Bound
<1>4. Owners' /\ ReservationsOwned'
  BY DEF TypeOK, Roles, Bound, Owners, ReservationsOwned, Owned
<1>5. Claims'  BY DEF TypeOK, Roles, Bound, Claims, Mine, TurnsOf
<1>6. TerminalsAlone' /\ Reservations'
  BY DEF TypeOK, Roles, Bound, TerminalsAlone, Reservations, Owned, TurnsOf
<1>7. SteersCounted'  BY DEF TypeOK, Roles, SteersCounted, Steering
<1>8. SteersDrained'
  BY DEF TypeOK, Roles, Bound, SteersDrained, HoldsTerminal, threadSteerAdmissionActive,
         TurnsOf
<1>9. AuxiliaryRuns' /\ AuxiliaryAlone'
  <2>1. AuxiliaryRuns'  BY DEF TypeOK, Roles, Bound, AuxiliaryRuns
  <2>2. AuxiliaryAlone'  BY DEF TypeOK, Roles, Bound, AuxiliaryAlone, Owned, TurnsOf
  <2>. QED  BY <2>1, <2>2
<1>10. PreparationsCounted' /\ PreparationsWait'
  BY DEF TypeOK, Roles, Bound, AuxiliaryRuns, PreparationsCounted, PreparationsWait,
         Preparing
<1>11. TransitionsAlone' /\ QuietTransition'
  BY DEF TypeOK, Roles, TransitionsAlone, QuietTransition, Owned, TurnsOf
<1>12. OperationsCounted'  BY OperationsFrame DEF TypeOK, Roles, Operating
<1>. QED  BY <1>1, <1>2, <1>3, <1>4, <1>5, <1>6, <1>7, <1>8, <1>9, <1>10, <1>11, <1>12 DEF Inv

LEMMA RegisterTurnCancelOwnedKeeps ==
  ASSUME Inv, NEW e \in Proc, RegisterTurnCancelOwned(e)
  PROVE  Inv'
<1>. USE DEF Inv, RegisterTurnCancelOwned, CanRegister, Admits, TurnFree, ThreadFree,
             Install, Owned, threadTerminalActive, TurnsOf
<1>1. TypeOK'
  <2>. e \in Executions /\ turn[e] \in Turns /\ "running" \in PCs
    BY DEF TypeOK, Roles, Bound, Executions, PCs
  <2>. QED  BY DEF TypeOK
<1>2. Roles'
  <2>. e \in Executions
    BY DEF TypeOK, Roles, Bound, Executions
  <2>. QED  BY DEF TypeOK, Roles, Bound
<1>3. Bound'  BY ThreadAssumption DEF TypeOK, Roles, Bound
<1>4. Owners' /\ ReservationsOwned'  BY DEF TypeOK, Roles, Bound, Owners, ReservationsOwned
<1>5. Claims'  BY DEF TypeOK, Roles, Bound, Claims, Mine
<1>6. TerminalsAlone' /\ Reservations'  BY DEF TypeOK, Roles, Bound, TerminalsAlone, Reservations
<1>7. SteersCounted'  BY DEF TypeOK, Roles, SteersCounted, Steering
<1>8. SteersDrained'
  BY DEF TypeOK, Roles, Bound, SteersDrained, HoldsTerminal, threadSteerAdmissionActive
<1>9. AuxiliaryRuns' /\ AuxiliaryAlone'
  BY DEF TypeOK, Roles, Bound, AuxiliaryRuns, AuxiliaryAlone, PreparationsWait
<1>10. PreparationsCounted' /\ PreparationsWait'
  BY DEF TypeOK, Roles, Bound, AuxiliaryRuns, PreparationsCounted, PreparationsWait,
         Preparing
<1>11. TransitionsAlone' /\ QuietTransition'
  BY DEF TypeOK, Roles, TransitionsAlone, QuietTransition, Bound
<1>12. OperationsCounted'  BY OperationsFrame DEF TypeOK, Roles, Operating
<1>. QED  BY <1>1, <1>2, <1>3, <1>4, <1>5, <1>6, <1>7, <1>8, <1>9, <1>10, <1>11, <1>12 DEF Inv

LEMMA RegisterMeetsAuxiliaryKeeps ==
  ASSUME Inv, NEW e \in Proc, RegisterMeetsAuxiliary(e)
  PROVE  Inv'
<1>. USE DEF Inv, RegisterMeetsAuxiliary, CanRegister, Admits
<1>1. TypeOK'  BY ThreadAssumption DEF TypeOK, Roles, Bound, PCs
<1>2. Roles'  BY DEF TypeOK, Roles
<1>3. Bound'  BY ThreadAssumption DEF TypeOK, Roles, Bound
<1>4. Owners' /\ ReservationsOwned'
  BY DEF TypeOK, Roles, Bound, Owners, ReservationsOwned, Owned
<1>5. Claims'  BY DEF TypeOK, Roles, Bound, Claims, Mine, TurnsOf
<1>6. TerminalsAlone' /\ Reservations'
  BY DEF TypeOK, Roles, Bound, TerminalsAlone, Reservations, Owned, TurnsOf
<1>7. SteersCounted'  BY DEF TypeOK, Roles, SteersCounted, Steering
<1>8. SteersDrained'
  BY DEF TypeOK, Roles, Bound, SteersDrained, HoldsTerminal, threadSteerAdmissionActive,
         TurnsOf
<1>9. AuxiliaryRuns' /\ AuxiliaryAlone'
  BY DEF TypeOK, Roles, Bound, AuxiliaryRuns, AuxiliaryAlone, PreparationsWait, Owned,
         TurnsOf
<1>10. PreparationsCounted' /\ PreparationsWait'
  BY DEF TypeOK, Roles, Bound, AuxiliaryRuns, PreparationsCounted, PreparationsWait,
         Preparing
<1>11. TransitionsAlone' /\ QuietTransition'
  BY DEF TypeOK, Roles, TransitionsAlone, QuietTransition, Owned, TurnsOf
<1>12. OperationsCounted'  BY OperationsFrame DEF TypeOK, Roles, Operating
<1>. QED  BY <1>1, <1>2, <1>3, <1>4, <1>5, <1>6, <1>7, <1>8, <1>9, <1>10, <1>11, <1>12 DEF Inv

LEMMA RegisterTurnCancelAfterThreadTailKeeps ==
  ASSUME Inv, NEW e \in Proc, RegisterTurnCancelAfterThreadTail(e)
  PROVE  Inv'
<1>. USE DEF Inv, RegisterTurnCancelAfterThreadTail, Admits, TurnFree, ThreadFree, Install,
             Owned, threadTerminalActive, TurnsOf
<1>1. TypeOK'
  <2>. e \in Executions /\ turn[e] \in Turns /\ "running" \in PCs
    BY DEF TypeOK, Roles, Bound, Executions, PCs
  <2>. QED  BY DEF TypeOK
<1>2. Roles'
  <2>1. e \in Executions /\ (pc' = pc \/ pc' = [pc EXCEPT ![e] = "running"])
    BY DEF TypeOK, Roles, Bound
  <2>2. TypeOK /\ Roles /\ May(e, "running")
    BY <2>1 DEF May
  <2>. HIDE DEF Inv, RegisterTurnCancelAfterThreadTail
  <2>. QED  BY <2>1, <2>2, RolesKept
<1>3. Bound'  BY ThreadAssumption DEF TypeOK, Roles, Bound
<1>4. Owners' /\ ReservationsOwned'
  <2>1. CASE ThreadFree(thread[e])
    <3>1. Owners'  BY <2>1 DEF TypeOK, Roles, Bound, Owners
    <3>2. ReservationsOwned'  BY <2>1 DEF TypeOK, Roles, Bound, ReservationsOwned
    <3>. QED  BY <3>1, <3>2
  <2>2. CASE ~ThreadFree(thread[e])
    <3>1. Owners'  BY <2>2 DEF Owners
    <3>2. ReservationsOwned'  BY <2>2 DEF ReservationsOwned
    <3>. QED  BY <3>1, <3>2
  <2>. QED  BY <2>1, <2>2
<1>5. Claims'  BY DEF TypeOK, Roles, Bound, Claims, Mine
<1>6. TerminalsAlone' /\ Reservations'
  <2>1. TerminalsAlone'  BY DEF TypeOK, Roles, Bound, TerminalsAlone
  <2>2. Reservations'  BY DEF TypeOK, Roles, Bound, Reservations
  <2>. QED  BY <2>1, <2>2
<1>7. SteersCounted'  BY DEF TypeOK, Roles, SteersCounted, Steering
<1>8. SteersDrained'
  BY DEF TypeOK, Roles, Bound, SteersDrained, HoldsTerminal, threadSteerAdmissionActive
<1>9. AuxiliaryRuns' /\ AuxiliaryAlone'
  BY DEF TypeOK, Roles, Bound, AuxiliaryRuns, AuxiliaryAlone, PreparationsWait
<1>10. PreparationsCounted' /\ PreparationsWait'
  BY DEF TypeOK, Roles, Bound, AuxiliaryRuns, PreparationsCounted, PreparationsWait,
         Preparing
<1>11. TransitionsAlone' /\ QuietTransition'
  BY DEF TypeOK, Roles, TransitionsAlone, QuietTransition, Bound
<1>12. OperationsCounted'  BY OperationsFrame DEF TypeOK, Roles, Operating
<1>. QED  BY <1>1, <1>2, <1>3, <1>4, <1>5, <1>6, <1>7, <1>8, <1>9, <1>10, <1>11, <1>12 DEF Inv

LEMMA ReleaseTurnExecutionOwnerKeeps ==
  ASSUME Inv, NEW e \in Proc, ReleaseTurnExecutionOwner(e)
  PROVE  Inv'
<1>. USE DEF Inv, ReleaseTurnExecutionOwner
<1>1. TypeOK'  BY ThreadAssumption DEF TypeOK, Roles, Bound, PCs
<1>2. Roles'  BY DEF TypeOK, Roles
<1>3. Bound'  BY ThreadAssumption DEF TypeOK, Roles, Bound
<1>4. Owners' /\ ReservationsOwned'
  BY DEF TypeOK, Roles, Bound, Owners, ReservationsOwned, Owned
<1>5. Claims'  BY DEF TypeOK, Roles, Bound, Claims, Mine, TurnsOf
<1>6. TerminalsAlone' /\ Reservations'
  BY DEF TypeOK, Roles, Bound, TerminalsAlone, Reservations, Owned, TurnsOf
<1>7. SteersCounted'  BY DEF TypeOK, Roles, SteersCounted, Steering
<1>8. SteersDrained'
  BY DEF TypeOK, Roles, Bound, SteersDrained, HoldsTerminal, threadSteerAdmissionActive,
         TurnsOf
<1>9. AuxiliaryRuns' /\ AuxiliaryAlone'
  BY DEF TypeOK, Roles, Bound, AuxiliaryRuns, AuxiliaryAlone, PreparationsWait, Owned,
         TurnsOf
<1>10. PreparationsCounted' /\ PreparationsWait'
  BY DEF TypeOK, Roles, Bound, AuxiliaryRuns, PreparationsCounted, PreparationsWait,
         Preparing
<1>11. TransitionsAlone' /\ QuietTransition'
  BY DEF TypeOK, Roles, TransitionsAlone, QuietTransition, Owned, TurnsOf
<1>12. OperationsCounted'  BY OperationsFrame DEF TypeOK, Roles, Operating
<1>. QED  BY <1>1, <1>2, <1>3, <1>4, <1>5, <1>6, <1>7, <1>8, <1>9, <1>10, <1>11, <1>12 DEF Inv

LEMMA AcquireCandidateTerminalForLoopKeeps ==
  ASSUME Inv, NEW e \in Proc, AcquireCandidateTerminalForLoop(e)
  PROVE  Inv'
<1>. USE DEF Inv, AcquireCandidateTerminalForLoop, Owned, ThreadFree, Claim,
             threadTerminalActive, TurnsOf
<1>1. TypeOK'  BY ThreadAssumption DEF TypeOK, Roles, Bound, PCs
<1>2. Roles'  BY DEF TypeOK, Roles
<1>3. Bound'  BY ThreadAssumption DEF TypeOK, Roles, Bound
<1>4. Owners' /\ ReservationsOwned'  BY DEF TypeOK, Roles, Bound, Owners, ReservationsOwned
<1>5. Claims'  BY DEF TypeOK, Roles, Bound, Claims, Mine
<1>6. TerminalsAlone' /\ Reservations'  BY DEF TypeOK, Roles, Bound, TerminalsAlone, Reservations
<1>7. SteersCounted'  BY DEF TypeOK, Roles, SteersCounted, Steering
<1>8. SteersDrained'
  BY DEF TypeOK, Roles, Bound, SteersDrained, HoldsTerminal, threadSteerAdmissionActive
<1>9. AuxiliaryRuns' /\ AuxiliaryAlone'
  BY DEF TypeOK, Roles, Bound, AuxiliaryRuns, AuxiliaryAlone, PreparationsWait
<1>10. PreparationsCounted' /\ PreparationsWait'
  BY DEF TypeOK, Roles, Bound, AuxiliaryRuns, PreparationsCounted, PreparationsWait,
         Preparing
<1>11. TransitionsAlone' /\ QuietTransition'
  BY DEF TypeOK, Roles, TransitionsAlone, QuietTransition
<1>12. OperationsCounted'  BY OperationsFrame DEF TypeOK, Roles, Operating
<1>. QED  BY <1>1, <1>2, <1>3, <1>4, <1>5, <1>6, <1>7, <1>8, <1>9, <1>10, <1>11, <1>12 DEF Inv

LEMMA AcquireCandidateTerminalKeeps ==
  ASSUME Inv, NEW e \in Proc, AcquireCandidateTerminal(e)
  PROVE  Inv'
<1>. USE DEF Inv, AcquireCandidateTerminal, Owned, ThreadFree, Claim, threadTerminalActive,
             TurnsOf
<1>1. TypeOK'  BY ThreadAssumption DEF TypeOK, Roles, Bound, PCs
<1>2. Roles'  BY DEF TypeOK, Roles
<1>3. Bound'  BY ThreadAssumption DEF TypeOK, Roles, Bound
<1>4. Owners' /\ ReservationsOwned'  BY DEF TypeOK, Roles, Bound, Owners, ReservationsOwned
<1>5. Claims'  BY DEF TypeOK, Roles, Bound, Claims, Mine
<1>6. TerminalsAlone' /\ Reservations'  BY DEF TypeOK, Roles, Bound, TerminalsAlone, Reservations
<1>7. SteersCounted'  BY DEF TypeOK, Roles, SteersCounted, Steering
<1>8. SteersDrained'
  BY DEF TypeOK, Roles, Bound, SteersDrained, HoldsTerminal, threadSteerAdmissionActive
<1>9. AuxiliaryRuns' /\ AuxiliaryAlone'
  BY DEF TypeOK, Roles, Bound, AuxiliaryRuns, AuxiliaryAlone, PreparationsWait
<1>10. PreparationsCounted' /\ PreparationsWait'
  BY DEF TypeOK, Roles, Bound, AuxiliaryRuns, PreparationsCounted, PreparationsWait,
         Preparing
<1>11. TransitionsAlone' /\ QuietTransition'
  BY DEF TypeOK, Roles, TransitionsAlone, QuietTransition
<1>12. OperationsCounted'  BY OperationsFrame DEF TypeOK, Roles, Operating
<1>. QED  BY <1>1, <1>2, <1>3, <1>4, <1>5, <1>6, <1>7, <1>8, <1>9, <1>10, <1>11, <1>12 DEF Inv

LEMMA AcquireHostTerminalKeeps ==
  ASSUME Inv, NEW p \in Proc, AcquireHostTerminal(p)
  PROVE  Inv'
<1>. USE DEF Inv, AcquireHostTerminal, threadTerminalActive, Claim, TurnsOf
<1>1. TypeOK'  BY ThreadAssumption DEF TypeOK, Roles, Bound, PCs
<1>2. Roles'  BY DEF TypeOK, Roles
<1>3. Bound'  BY ThreadAssumption DEF TypeOK, Roles, Bound
<1>4. Owners' /\ ReservationsOwned'
  BY DEF TypeOK, Roles, Bound, Owners, ReservationsOwned, Owned
<1>5. Claims'  BY DEF TypeOK, Roles, Bound, Claims, Mine
<1>6. TerminalsAlone' /\ Reservations'
  BY DEF TypeOK, Roles, Bound, TerminalsAlone, Reservations, Owned
<1>7. SteersCounted'  BY DEF TypeOK, Roles, SteersCounted, Steering
<1>8. SteersDrained'
  BY DEF TypeOK, Roles, Bound, SteersDrained, HoldsTerminal, threadSteerAdmissionActive
<1>9. AuxiliaryRuns' /\ AuxiliaryAlone'
  BY DEF TypeOK, Roles, Bound, AuxiliaryRuns, AuxiliaryAlone, PreparationsWait, Owned
<1>10. PreparationsCounted' /\ PreparationsWait'
  BY DEF TypeOK, Roles, Bound, AuxiliaryRuns, PreparationsCounted, PreparationsWait,
         Preparing
<1>11. TransitionsAlone' /\ QuietTransition'
  BY DEF TypeOK, Roles, TransitionsAlone, QuietTransition, Owned
<1>12. OperationsCounted'  BY OperationsFrame DEF TypeOK, Roles, Operating
<1>. QED  BY <1>1, <1>2, <1>3, <1>4, <1>5, <1>6, <1>7, <1>8, <1>9, <1>10, <1>11, <1>12 DEF Inv

LEMMA CloseTurnKeeps ==
  ASSUME Inv, NEW p \in Proc, CloseTurn(p)
  PROVE  Inv'
<1>. USE DEF Inv, CloseTurn
<1>1. TypeOK'  BY ThreadAssumption DEF TypeOK, Roles, Bound, PCs
<1>2. Roles'  BY DEF TypeOK, Roles
<1>3. Bound'  BY ThreadAssumption DEF TypeOK, Roles, Bound
<1>4. Owners' /\ ReservationsOwned'
  BY DEF TypeOK, Roles, Bound, Owners, ReservationsOwned, Owned
<1>5. Claims'  BY DEF TypeOK, Roles, Bound, Claims, Mine, TurnsOf
<1>6. TerminalsAlone' /\ Reservations'
  BY DEF TypeOK, Roles, Bound, TerminalsAlone, Reservations, Owned, TurnsOf
<1>7. SteersCounted'  BY DEF TypeOK, Roles, SteersCounted, Steering
<1>8. SteersDrained'
  BY DEF TypeOK, Roles, Bound, SteersDrained, HoldsTerminal, threadSteerAdmissionActive,
         TurnsOf
<1>9. AuxiliaryRuns' /\ AuxiliaryAlone'
  BY DEF TypeOK, Roles, Bound, AuxiliaryRuns, AuxiliaryAlone, PreparationsWait, Owned,
         TurnsOf
<1>10. PreparationsCounted' /\ PreparationsWait'
  BY DEF TypeOK, Roles, Bound, AuxiliaryRuns, PreparationsCounted, PreparationsWait,
         Preparing
<1>11. TransitionsAlone' /\ QuietTransition'
  BY DEF TypeOK, Roles, TransitionsAlone, QuietTransition, Owned, TurnsOf
<1>12. OperationsCounted'
  <2>. p \notin Operating
    BY DEF TypeOK, Roles, Bound, Operating
  <2>. QED  BY OperationsFrame DEF TypeOK, Roles, Bound, Operating
<1>. QED  BY <1>1, <1>2, <1>3, <1>4, <1>5, <1>6, <1>7, <1>8, <1>9, <1>10, <1>11, <1>12 DEF Inv

LEMMA waitForSteerAdmissionsKeeps ==
  ASSUME Inv, NEW p \in Proc, waitForSteerAdmissions(p)
  PROVE  Inv'
<1>. USE DEF Inv, waitForSteerAdmissions, Mine, Await, threadSteerAdmissionActive, TurnsOf
<1>1. TypeOK'  BY ThreadAssumption DEF TypeOK, Roles, Bound, PCs
<1>2. Roles'
  <2>1. p \notin Steers \cup Interrupts \cup Transitions \cup Auxiliaries
    BY DEF Roles
  <2>2. PICK step : step = IF pc[p] = "claiming" THEN "claimed" ELSE "settling"
    OBVIOUS
  <2>3. pc' = pc \/ pc' = [pc EXCEPT ![p] = step]
    BY <2>2
  <2>4. p \in Closers => pc[p] # "claiming"
    BY DEF Roles
  <2>5. TypeOK /\ Roles /\ May(p, step)
    BY <2>1, <2>2, <2>4 DEF May
  <2>. HIDE DEF Inv, waitForSteerAdmissions
  <2>. QED  BY <2>3, <2>5, RolesKept
<1>3. Bound'  BY ThreadAssumption DEF TypeOK, Roles, Bound
<1>4. Owners' /\ ReservationsOwned'
  BY DEF TypeOK, Roles, Bound, Owners, ReservationsOwned, Owned
<1>5. Claims'  BY DEF TypeOK, Roles, Bound, Claims
<1>6. TerminalsAlone' /\ Reservations'
  BY DEF TypeOK, Roles, Bound, TerminalsAlone, Reservations, Owned
<1>7. SteersCounted'  BY DEF TypeOK, Roles, SteersCounted, Steering
<1>8. SteersDrained'  BY DEF TypeOK, Roles, Bound, SteersDrained, HoldsTerminal
<1>9. AuxiliaryRuns' /\ AuxiliaryAlone'
  BY DEF TypeOK, Roles, Bound, AuxiliaryRuns, AuxiliaryAlone, PreparationsWait, Owned
<1>10. PreparationsCounted' /\ PreparationsWait'
  BY DEF TypeOK, Roles, Bound, AuxiliaryRuns, PreparationsCounted, PreparationsWait,
         Preparing
<1>11. TransitionsAlone' /\ QuietTransition'
  BY DEF TypeOK, Roles, TransitionsAlone, QuietTransition, Owned
<1>12. OperationsCounted'  BY OperationsFrame DEF TypeOK, Roles, Operating
<1>. QED  BY <1>1, <1>2, <1>3, <1>4, <1>5, <1>6, <1>7, <1>8, <1>9, <1>10, <1>11, <1>12 DEF Inv

LEMMA ConsumeTokenKeeps ==
  ASSUME Inv, NEW e \in Proc, ConsumeToken(e)
  PROVE  Inv'
<1>. USE DEF Inv, ConsumeToken
<1>1. TypeOK'  BY ThreadAssumption DEF TypeOK, Roles, Bound, PCs
<1>2. Roles'  BY DEF TypeOK, Roles
<1>3. Bound'  BY ThreadAssumption DEF TypeOK, Roles, Bound
<1>4. Owners' /\ ReservationsOwned'
  BY DEF TypeOK, Roles, Bound, Owners, ReservationsOwned, Owned
<1>5. Claims'  BY DEF TypeOK, Roles, Bound, Claims, Mine, TurnsOf
<1>6. TerminalsAlone' /\ Reservations'
  BY DEF TypeOK, Roles, Bound, TerminalsAlone, Reservations, Owned, TurnsOf
<1>7. SteersCounted'  BY DEF TypeOK, Roles, SteersCounted, Steering
<1>8. SteersDrained'
  BY DEF TypeOK, Roles, Bound, SteersDrained, HoldsTerminal, threadSteerAdmissionActive,
         TurnsOf
<1>9. AuxiliaryRuns' /\ AuxiliaryAlone'
  BY DEF TypeOK, Roles, Bound, AuxiliaryRuns, AuxiliaryAlone, PreparationsWait, Owned,
         TurnsOf
<1>10. PreparationsCounted' /\ PreparationsWait'
  BY DEF TypeOK, Roles, Bound, AuxiliaryRuns, PreparationsCounted, PreparationsWait,
         Preparing
<1>11. TransitionsAlone' /\ QuietTransition'
  BY DEF TypeOK, Roles, TransitionsAlone, QuietTransition, Owned, TurnsOf
<1>12. OperationsCounted'  BY OperationsFrame DEF TypeOK, Roles, Operating
<1>. QED  BY <1>1, <1>2, <1>3, <1>4, <1>5, <1>6, <1>7, <1>8, <1>9, <1>10, <1>11, <1>12 DEF Inv

LEMMA PublishedKeeps ==
  ASSUME Inv, NEW p \in Proc, Published(p)
  PROVE  Inv'
<1>. USE DEF Inv, Published, releaseTerminalClaim, Mine
<1>1. TypeOK'  BY ThreadAssumption DEF TypeOK, Roles, Bound, PCs
<1>2. Roles'  BY DEF TypeOK, Roles
<1>3. Bound'  BY ThreadAssumption DEF TypeOK, Roles, Bound
<1>4. Owners' /\ ReservationsOwned'
  BY DEF TypeOK, Roles, Bound, Owners, ReservationsOwned, Owned
<1>5. Claims'  BY DEF TypeOK, Roles, Bound, Claims, TurnsOf
<1>6. TerminalsAlone' /\ Reservations'
  BY DEF TypeOK, Roles, Bound, TerminalsAlone, Reservations, Owned, TurnsOf
<1>7. SteersCounted'  BY DEF TypeOK, Roles, SteersCounted, Steering
<1>8. SteersDrained'
  BY DEF TypeOK, Roles, Bound, SteersDrained, HoldsTerminal, threadSteerAdmissionActive,
         TurnsOf
<1>9. AuxiliaryRuns' /\ AuxiliaryAlone'
  BY DEF TypeOK, Roles, Bound, AuxiliaryRuns, AuxiliaryAlone, PreparationsWait, Owned,
         TurnsOf
<1>10. PreparationsCounted' /\ PreparationsWait'
  BY DEF TypeOK, Roles, Bound, AuxiliaryRuns, PreparationsCounted, PreparationsWait,
         Preparing
<1>11. TransitionsAlone' /\ QuietTransition'
  BY DEF TypeOK, Roles, TransitionsAlone, QuietTransition, Owned, TurnsOf
<1>12. OperationsCounted'  BY OperationsFrame DEF TypeOK, Roles, Operating
<1>. QED  BY <1>1, <1>2, <1>3, <1>4, <1>5, <1>6, <1>7, <1>8, <1>9, <1>10, <1>11, <1>12 DEF Inv

LEMMA PromoteSteeringKeeps ==
  ASSUME Inv, NEW e \in Proc, PromoteSteering(e)
  PROVE  Inv'
<1>. USE DEF Inv, PromoteSteering, releaseTerminalClaim, Mine
<1>1. TypeOK'  BY ThreadAssumption DEF TypeOK, Roles, Bound, PCs
<1>2. Roles'  BY DEF TypeOK, Roles
<1>3. Bound'  BY ThreadAssumption DEF TypeOK, Roles, Bound
<1>4. Owners' /\ ReservationsOwned'
  BY DEF TypeOK, Roles, Bound, Owners, ReservationsOwned, Owned
<1>5. Claims'  BY DEF TypeOK, Roles, Bound, Claims, TurnsOf
<1>6. TerminalsAlone' /\ Reservations'
  BY DEF TypeOK, Roles, Bound, TerminalsAlone, Reservations, Owned, TurnsOf
<1>7. SteersCounted'  BY DEF TypeOK, Roles, SteersCounted, Steering
<1>8. SteersDrained'
  BY DEF TypeOK, Roles, Bound, SteersDrained, HoldsTerminal, threadSteerAdmissionActive,
         TurnsOf
<1>9. AuxiliaryRuns' /\ AuxiliaryAlone'
  BY DEF TypeOK, Roles, Bound, AuxiliaryRuns, AuxiliaryAlone, PreparationsWait, Owned,
         TurnsOf
<1>10. PreparationsCounted' /\ PreparationsWait'
  BY DEF TypeOK, Roles, Bound, AuxiliaryRuns, PreparationsCounted, PreparationsWait,
         Preparing
<1>11. TransitionsAlone' /\ QuietTransition'
  BY DEF TypeOK, Roles, TransitionsAlone, QuietTransition, Owned, TurnsOf
<1>12. OperationsCounted'  BY OperationsFrame DEF TypeOK, Roles, Operating
<1>. QED  BY <1>1, <1>2, <1>3, <1>4, <1>5, <1>6, <1>7, <1>8, <1>9, <1>10, <1>11, <1>12 DEF Inv

LEMMA AbandonClaimKeeps ==
  ASSUME Inv, NEW p \in Proc, AbandonClaim(p)
  PROVE  Inv'
<1>. USE DEF Inv, AbandonClaim, Mine, releaseTerminalClaim
<1>1. TypeOK'  BY ThreadAssumption DEF TypeOK, Roles, Bound, PCs
<1>2. Roles'  BY DEF TypeOK, Roles
<1>3. Bound'  BY ThreadAssumption DEF TypeOK, Roles, Bound
<1>4. Owners' /\ ReservationsOwned'
  BY DEF TypeOK, Roles, Bound, Owners, ReservationsOwned, Owned
<1>5. Claims'  BY DEF TypeOK, Roles, Bound, Claims, TurnsOf
<1>6. TerminalsAlone' /\ Reservations'
  BY DEF TypeOK, Roles, Bound, TerminalsAlone, Reservations, Owned, TurnsOf
<1>7. SteersCounted'  BY DEF TypeOK, Roles, SteersCounted, Steering
<1>8. SteersDrained'
  BY DEF TypeOK, Roles, Bound, SteersDrained, HoldsTerminal, threadSteerAdmissionActive,
         TurnsOf
<1>9. AuxiliaryRuns' /\ AuxiliaryAlone'
  BY DEF TypeOK, Roles, Bound, AuxiliaryRuns, AuxiliaryAlone, PreparationsWait, Owned,
         TurnsOf
<1>10. PreparationsCounted' /\ PreparationsWait'
  BY DEF TypeOK, Roles, Bound, AuxiliaryRuns, PreparationsCounted, PreparationsWait,
         Preparing
<1>11. TransitionsAlone' /\ QuietTransition'
  BY DEF TypeOK, Roles, TransitionsAlone, QuietTransition, Owned, TurnsOf
<1>12. OperationsCounted'  BY OperationsFrame DEF TypeOK, Roles, Operating
<1>. QED  BY <1>1, <1>2, <1>3, <1>4, <1>5, <1>6, <1>7, <1>8, <1>9, <1>10, <1>11, <1>12 DEF Inv

LEMMA ReserveSteerAdmissionKeeps ==
  ASSUME Inv, NEW s \in Proc, ReserveSteerAdmission(s)
  PROVE  Inv'
<1>. USE DEF Inv, ReserveSteerAdmission, Admits, threadTerminalActiveOtherThan, TurnsOf
<1>1. TypeOK'  BY ThreadAssumption DEF TypeOK, Roles, Bound, PCs
<1>2. Roles'  BY DEF TypeOK, Roles
<1>3. Bound'  BY ThreadAssumption DEF TypeOK, Roles, Bound
<1>4. Owners' /\ ReservationsOwned'
  BY DEF TypeOK, Roles, Bound, Owners, ReservationsOwned, Owned
<1>5. Claims'  BY DEF TypeOK, Roles, Bound, Claims, Mine
<1>6. TerminalsAlone' /\ Reservations'
  BY DEF TypeOK, Roles, Bound, TerminalsAlone, Reservations, Owned
<1>7. SteersCounted'
  <2>. PICK k : k = turn[s]
    OBVIOUS
  <2>1. Steering(k)' = Steering(k) \cup {s} /\ s \notin Steering(k) /\ k \in Turns
    BY DEF TypeOK, Roles, Bound, Steering
  <2>2. \A l \in Turns \ {k} : Steering(l)' = Steering(l)
    BY DEF TypeOK, Roles, Bound, Steering
  <2>3. Cardinality(Steering(k)') = Cardinality(Steering(k)) + 1
    BY <2>1, CountedFinite, Counting
  <2>4. \A l \in Turns : steerAdmissions'[l] =
          IF l = k THEN steerAdmissions[l] + 1 ELSE steerAdmissions[l]
    BY <2>1 DEF TypeOK
  <2>. HIDE DEF ReserveSteerAdmission
  <2>. QED  BY <2>1, <2>2, <2>3, <2>4 DEF SteersCounted
<1>8. SteersDrained'
  BY SMTT(30) DEF TypeOK, Roles, Bound, SteersDrained, HoldsTerminal, threadSteerAdmissionActive,
         Claims, Mine, Reservations
<1>9. AuxiliaryRuns' /\ AuxiliaryAlone'
  BY DEF TypeOK, Roles, Bound, AuxiliaryRuns, AuxiliaryAlone, PreparationsWait, Owned
<1>10. PreparationsCounted' /\ PreparationsWait'
  BY DEF TypeOK, Roles, Bound, AuxiliaryRuns, PreparationsCounted, PreparationsWait,
         Preparing
<1>11. TransitionsAlone' /\ QuietTransition'
  BY DEF TypeOK, Roles, TransitionsAlone, QuietTransition, Owned, Bound
<1>12. OperationsCounted'  BY OperationsFrame DEF TypeOK, Roles, Operating
<1>. QED  BY <1>1, <1>2, <1>3, <1>4, <1>5, <1>6, <1>7, <1>8, <1>9, <1>10, <1>11, <1>12 DEF Inv

LEMMA ReleaseSteerAdmissionKeeps ==
  ASSUME Inv, NEW s \in Proc, ReleaseSteerAdmission(s)
  PROVE  Inv'
<1>. USE DEF Inv, ReleaseSteerAdmission
<1>1. TypeOK'
  <2>1. turn[s] \in Turns /\ steerAdmissions[turn[s]] - 1 \in Nat
    BY SteeringPositive DEF Roles
  <2>. QED  BY <2>1 DEF TypeOK, PCs
<1>2. Roles'  BY DEF TypeOK, Roles
<1>3. Bound'  BY ThreadAssumption DEF TypeOK, Roles, Bound
<1>4. Owners' /\ ReservationsOwned'
  BY DEF TypeOK, Roles, Bound, Owners, ReservationsOwned, Owned
<1>5. Claims'  BY DEF TypeOK, Roles, Bound, Claims, Mine, TurnsOf
<1>6. TerminalsAlone' /\ Reservations'
  BY DEF TypeOK, Roles, Bound, TerminalsAlone, Reservations, Owned, TurnsOf
<1>7. SteersCounted'
  <2>. PICK k : k = turn[s]
    OBVIOUS
  <2>1. Steering(k)' = Steering(k) \ {s} /\ s \in Steering(k) /\ k \in Turns
    BY DEF TypeOK, Roles, Bound, Steering
  <2>2. \A l \in Turns \ {k} : Steering(l)' = Steering(l)
    BY DEF TypeOK, Roles, Bound, Steering
  <2>3. Cardinality(Steering(k)') = Cardinality(Steering(k)) - 1
    BY <2>1, CountedFinite, Counting
  <2>4. \A l \in Turns : steerAdmissions'[l] =
          IF l = k THEN steerAdmissions[l] - 1 ELSE steerAdmissions[l]
    BY <2>1 DEF TypeOK
  <2>. HIDE DEF ReleaseSteerAdmission
  <2>. QED  BY <2>1, <2>2, <2>3, <2>4 DEF SteersCounted
<1>8. SteersDrained'
  BY DEF TypeOK, Roles, Bound, SteersDrained, HoldsTerminal, threadSteerAdmissionActive,
         TurnsOf
<1>9. AuxiliaryRuns' /\ AuxiliaryAlone'
  BY DEF TypeOK, Roles, Bound, AuxiliaryRuns, AuxiliaryAlone, PreparationsWait, Owned,
         TurnsOf
<1>10. PreparationsCounted' /\ PreparationsWait'
  BY DEF TypeOK, Roles, Bound, AuxiliaryRuns, PreparationsCounted, PreparationsWait,
         Preparing
<1>11. TransitionsAlone' /\ QuietTransition'
  <2>1. s \in Steers /\ steerAdmissions[turn[s]] > 0
    BY SteeringPositive DEF Roles
  <2>. QED  BY <2>1 DEF TypeOK, TransitionsAlone, QuietTransition, Owned, TurnsOf
<1>12. OperationsCounted'  BY OperationsFrame DEF TypeOK, Roles, Operating
<1>. QED  BY <1>1, <1>2, <1>3, <1>4, <1>5, <1>6, <1>7, <1>8, <1>9, <1>10, <1>11, <1>12 DEF Inv

LEMMA CancelRegisteredTurnKeeps ==
  ASSUME Inv, NEW s \in Proc, CancelRegisteredTurn(s)
  PROVE  Inv'
<1>. USE DEF Inv, CancelRegisteredTurn, Owned
<1>1. TypeOK'  BY ThreadAssumption DEF TypeOK, Roles, Bound, PCs
<1>2. Roles'  BY DEF TypeOK, Roles
<1>3. Bound'  BY ThreadAssumption DEF TypeOK, Roles, Bound
<1>4. Owners' /\ ReservationsOwned'  BY DEF TypeOK, Roles, Bound, Owners, ReservationsOwned
<1>5. Claims'  BY DEF TypeOK, Roles, Bound, Claims, Mine, TurnsOf
<1>6. TerminalsAlone' /\ Reservations'
  BY DEF TypeOK, Roles, Bound, TerminalsAlone, Reservations, TurnsOf
<1>7. SteersCounted'  BY DEF TypeOK, Roles, SteersCounted, Steering
<1>8. SteersDrained'
  BY DEF TypeOK, Roles, Bound, SteersDrained, HoldsTerminal, threadSteerAdmissionActive,
         TurnsOf
<1>9. AuxiliaryRuns' /\ AuxiliaryAlone'
  BY DEF TypeOK, Roles, Bound, AuxiliaryRuns, AuxiliaryAlone, PreparationsWait, TurnsOf
<1>10. PreparationsCounted' /\ PreparationsWait'
  BY DEF TypeOK, Roles, Bound, AuxiliaryRuns, PreparationsCounted, PreparationsWait,
         Preparing
<1>11. TransitionsAlone' /\ QuietTransition'
  BY DEF TypeOK, Roles, TransitionsAlone, QuietTransition, TurnsOf
<1>12. OperationsCounted'  BY OperationsFrame DEF TypeOK, Roles, Operating
<1>. QED  BY <1>1, <1>2, <1>3, <1>4, <1>5, <1>6, <1>7, <1>8, <1>9, <1>10, <1>11, <1>12 DEF Inv

LEMMA CallCancelsKeeps ==
  ASSUME Inv, NEW p \in Proc, CallCancels(p)
  PROVE  Inv'
<1>. USE DEF Inv, CallCancels
<1>1. TypeOK'  BY SMTT(30), ThreadAssumption DEF TypeOK, Roles, Bound, PCs
<1>2. Roles'  BY DEF TypeOK, Roles
<1>3. Bound'  BY ThreadAssumption DEF TypeOK, Roles, Bound
<1>4. Owners' /\ ReservationsOwned'
  BY DEF TypeOK, Roles, Bound, Owners, ReservationsOwned, Owned
<1>5. Claims'  BY DEF TypeOK, Roles, Bound, Claims, Mine, TurnsOf
<1>6. TerminalsAlone' /\ Reservations'
  BY DEF TypeOK, Roles, Bound, TerminalsAlone, Reservations, Owned, TurnsOf
<1>7. SteersCounted'  BY DEF TypeOK, Roles, SteersCounted, Steering
<1>8. SteersDrained'
  BY DEF TypeOK, Roles, Bound, SteersDrained, HoldsTerminal, threadSteerAdmissionActive,
         TurnsOf
<1>9. AuxiliaryRuns' /\ AuxiliaryAlone'
  BY DEF TypeOK, Roles, Bound, AuxiliaryRuns, AuxiliaryAlone, PreparationsWait, Owned,
         TurnsOf
<1>10. PreparationsCounted' /\ PreparationsWait'
  BY DEF TypeOK, Roles, Bound, AuxiliaryRuns, PreparationsCounted, PreparationsWait,
         Preparing
<1>11. TransitionsAlone' /\ QuietTransition'
  BY DEF TypeOK, Roles, TransitionsAlone, QuietTransition, Owned, TurnsOf
<1>12. OperationsCounted'  BY OperationsFrame DEF TypeOK, Roles, Operating
<1>. QED  BY <1>1, <1>2, <1>3, <1>4, <1>5, <1>6, <1>7, <1>8, <1>9, <1>10, <1>11, <1>12 DEF Inv

LEMMA ReserveInterruptTerminalKeeps ==
  ASSUME Inv, NEW i \in Proc, ReserveInterruptTerminal(i)
  PROVE  Inv'
<1>. USE DEF Inv, ReserveInterruptTerminal, Owned, threadTerminalActiveOtherThan, TurnsOf
<1>1. TypeOK'  BY ThreadAssumption DEF TypeOK, Roles, Bound, PCs
<1>2. Roles'  BY DEF TypeOK, Roles
<1>3. Bound'  BY ThreadAssumption DEF TypeOK, Roles, Bound
<1>4. Owners' /\ ReservationsOwned'  BY DEF TypeOK, Roles, Bound, Owners, ReservationsOwned
<1>5. Claims'  BY DEF TypeOK, Roles, Bound, Claims, Mine
<1>6. TerminalsAlone' /\ Reservations'  BY DEF TypeOK, Roles, Bound, TerminalsAlone, Reservations
<1>7. SteersCounted'  BY DEF TypeOK, Roles, SteersCounted, Steering
<1>8. SteersDrained'
  BY DEF TypeOK, Roles, Bound, SteersDrained, HoldsTerminal, threadSteerAdmissionActive
<1>9. AuxiliaryRuns' /\ AuxiliaryAlone'
  BY DEF TypeOK, Roles, Bound, AuxiliaryRuns, AuxiliaryAlone, PreparationsWait
<1>10. PreparationsCounted' /\ PreparationsWait'
  BY DEF TypeOK, Roles, Bound, AuxiliaryRuns, PreparationsCounted, PreparationsWait,
         Preparing
<1>11. TransitionsAlone' /\ QuietTransition'
  BY DEF TypeOK, Roles, TransitionsAlone, QuietTransition
<1>12. OperationsCounted'  BY OperationsFrame DEF TypeOK, Roles, Operating
<1>. QED  BY <1>1, <1>2, <1>3, <1>4, <1>5, <1>6, <1>7, <1>8, <1>9, <1>10, <1>11, <1>12 DEF Inv

LEMMA DrainSteeringKeeps ==
  ASSUME Inv, NEW i \in Proc, DrainSteering(i)
  PROVE  Inv'
<1>. USE DEF Inv, DrainSteering, Await, threadSteerAdmissionActive, TurnsOf
<1>1. TypeOK'  BY ThreadAssumption DEF TypeOK, Roles, Bound, PCs
<1>2. Roles'
  <2>1. i \in Interrupts /\ (pc' = pc \/ pc' = [pc EXCEPT ![i] = "cancelling"])
    BY DEF TypeOK, Roles, Bound
  <2>2. TypeOK /\ Roles /\ May(i, "cancelling")
    BY <2>1 DEF May
  <2>. HIDE DEF Inv, DrainSteering
  <2>. QED  BY <2>1, <2>2, RolesKept
<1>3. Bound'  BY ThreadAssumption DEF TypeOK, Roles, Bound
<1>4. Owners' /\ ReservationsOwned'
  BY DEF TypeOK, Roles, Bound, Owners, ReservationsOwned, Owned
<1>5. Claims'  BY DEF TypeOK, Roles, Bound, Claims, Mine
<1>6. TerminalsAlone' /\ Reservations'
  BY DEF TypeOK, Roles, Bound, TerminalsAlone, Reservations, Owned
<1>7. SteersCounted'  BY DEF TypeOK, Roles, SteersCounted, Steering
<1>8. SteersDrained'  BY DEF TypeOK, Roles, Bound, SteersDrained, HoldsTerminal
<1>9. AuxiliaryRuns' /\ AuxiliaryAlone'
  BY DEF TypeOK, Roles, Bound, AuxiliaryRuns, AuxiliaryAlone, PreparationsWait, Owned
<1>10. PreparationsCounted' /\ PreparationsWait'
  BY DEF TypeOK, Roles, Bound, AuxiliaryRuns, PreparationsCounted, PreparationsWait,
         Preparing
<1>11. TransitionsAlone' /\ QuietTransition'
  BY DEF TypeOK, Roles, TransitionsAlone, QuietTransition, Owned
<1>12. OperationsCounted'  BY OperationsFrame DEF TypeOK, Roles, Operating
<1>. QED  BY <1>1, <1>2, <1>3, <1>4, <1>5, <1>6, <1>7, <1>8, <1>9, <1>10, <1>11, <1>12 DEF Inv

LEMMA WaitForOwnerKeeps ==
  ASSUME Inv, NEW i \in Proc, WaitForOwner(i)
  PROVE  Inv'
<1>. USE DEF Inv, WaitForOwner, Await, Owned, threadSteerAdmissionActive, TurnsOf
<1>1. TypeOK'  BY ThreadAssumption DEF TypeOK, Roles, Bound, PCs
<1>2. Roles'
  <2>1. i \in Interrupts /\ (pc' = pc \/ pc' = [pc EXCEPT ![i] = "held"])
    BY DEF TypeOK, Roles, Bound
  <2>2. TypeOK /\ Roles /\ May(i, "held")
    BY <2>1 DEF May
  <2>. HIDE DEF Inv, WaitForOwner
  <2>. QED  BY <2>1, <2>2, RolesKept
<1>3. Bound'  BY ThreadAssumption DEF TypeOK, Roles, Bound
<1>4. Owners' /\ ReservationsOwned'  BY DEF TypeOK, Roles, Bound, Owners, ReservationsOwned
<1>5. Claims'  BY DEF TypeOK, Roles, Bound, Claims, Mine
<1>6. TerminalsAlone' /\ Reservations'  BY DEF TypeOK, Roles, Bound, TerminalsAlone, Reservations
<1>7. SteersCounted'  BY DEF TypeOK, Roles, SteersCounted, Steering
<1>8. SteersDrained'  BY DEF TypeOK, Roles, Bound, SteersDrained, HoldsTerminal
<1>9. AuxiliaryRuns' /\ AuxiliaryAlone'
  BY DEF TypeOK, Roles, Bound, AuxiliaryRuns, AuxiliaryAlone, PreparationsWait
<1>10. PreparationsCounted' /\ PreparationsWait'
  BY DEF TypeOK, Roles, Bound, AuxiliaryRuns, PreparationsCounted, PreparationsWait,
         Preparing
<1>11. TransitionsAlone' /\ QuietTransition'
  BY DEF TypeOK, Roles, TransitionsAlone, QuietTransition
<1>12. OperationsCounted'  BY OperationsFrame DEF TypeOK, Roles, Operating
<1>. QED  BY <1>1, <1>2, <1>3, <1>4, <1>5, <1>6, <1>7, <1>8, <1>9, <1>10, <1>11, <1>12 DEF Inv

LEMMA releaseInterruptReservationKeeps ==
  ASSUME Inv, NEW i \in Proc, releaseInterruptReservation(i)
  PROVE  Inv'
<1>. USE DEF Inv, releaseInterruptReservation, EndInterrupt
<1>1. TypeOK'  BY ThreadAssumption DEF TypeOK, Roles, Bound, PCs
<1>2. Roles'  BY DEF TypeOK, Roles
<1>3. Bound'  BY ThreadAssumption DEF TypeOK, Roles, Bound
<1>4. Owners' /\ ReservationsOwned'
  BY DEF TypeOK, Roles, Bound, Owners, ReservationsOwned, Owned
<1>5. Claims'  BY DEF TypeOK, Roles, Bound, Claims, Mine, TurnsOf
<1>6. TerminalsAlone' /\ Reservations'
  BY DEF TypeOK, Roles, Bound, TerminalsAlone, Reservations, Owned, TurnsOf
<1>7. SteersCounted'  BY DEF TypeOK, Roles, SteersCounted, Steering
<1>8. SteersDrained'
  BY DEF TypeOK, Roles, Bound, SteersDrained, HoldsTerminal, threadSteerAdmissionActive,
         TurnsOf
<1>9. AuxiliaryRuns' /\ AuxiliaryAlone'
  BY DEF TypeOK, Roles, Bound, AuxiliaryRuns, AuxiliaryAlone, PreparationsWait, Owned,
         TurnsOf
<1>10. PreparationsCounted' /\ PreparationsWait'
  BY DEF TypeOK, Roles, Bound, AuxiliaryRuns, PreparationsCounted, PreparationsWait,
         Preparing
<1>11. TransitionsAlone' /\ QuietTransition'
  BY DEF TypeOK, Roles, TransitionsAlone, QuietTransition, Owned, TurnsOf
<1>12. OperationsCounted'  BY OperationsFrame DEF TypeOK, Roles, Operating
<1>. QED  BY <1>1, <1>2, <1>3, <1>4, <1>5, <1>6, <1>7, <1>8, <1>9, <1>10, <1>11, <1>12 DEF Inv

LEMMA AbandonInterruptKeeps ==
  ASSUME Inv, NEW i \in Proc, AbandonInterrupt(i)
  PROVE  Inv'
<1>. USE DEF Inv, AbandonInterrupt, EndInterrupt
<1>1. TypeOK'  BY ThreadAssumption DEF TypeOK, Roles, Bound, PCs
<1>2. Roles'  BY DEF TypeOK, Roles
<1>3. Bound'  BY ThreadAssumption DEF TypeOK, Roles, Bound
<1>4. Owners' /\ ReservationsOwned'
  BY DEF TypeOK, Roles, Bound, Owners, ReservationsOwned, Owned
<1>5. Claims'  BY DEF TypeOK, Roles, Bound, Claims, Mine, TurnsOf
<1>6. TerminalsAlone' /\ Reservations'
  BY DEF TypeOK, Roles, Bound, TerminalsAlone, Reservations, Owned, TurnsOf
<1>7. SteersCounted'  BY DEF TypeOK, Roles, SteersCounted, Steering
<1>8. SteersDrained'
  BY DEF TypeOK, Roles, Bound, SteersDrained, HoldsTerminal, threadSteerAdmissionActive,
         TurnsOf
<1>9. AuxiliaryRuns' /\ AuxiliaryAlone'
  BY DEF TypeOK, Roles, Bound, AuxiliaryRuns, AuxiliaryAlone, PreparationsWait, Owned,
         TurnsOf
<1>10. PreparationsCounted' /\ PreparationsWait'
  BY DEF TypeOK, Roles, Bound, AuxiliaryRuns, PreparationsCounted, PreparationsWait,
         Preparing
<1>11. TransitionsAlone' /\ QuietTransition'
  BY DEF TypeOK, Roles, TransitionsAlone, QuietTransition, Owned, TurnsOf
<1>12. OperationsCounted'  BY OperationsFrame DEF TypeOK, Roles, Operating
<1>. QED  BY <1>1, <1>2, <1>3, <1>4, <1>5, <1>6, <1>7, <1>8, <1>9, <1>10, <1>11, <1>12 DEF Inv

LEMMA ReserveThreadTransitionKeeps ==
  ASSUME Inv, NEW m \in Proc, ReserveThreadTransition(m)
  PROVE  Inv'
<1>. USE DEF Inv, ReserveThreadTransition, Owned
<1>1. TypeOK'  BY ThreadAssumption DEF TypeOK, Roles, Bound, PCs
<1>2. Roles'  BY DEF TypeOK, Roles
<1>3. Bound'  BY ThreadAssumption DEF TypeOK, Roles, Bound
<1>4. Owners' /\ ReservationsOwned'  BY DEF TypeOK, Roles, Bound, Owners, ReservationsOwned
<1>5. Claims'  BY DEF TypeOK, Roles, Bound, Claims, Mine, TurnsOf
<1>6. TerminalsAlone' /\ Reservations'
  BY DEF TypeOK, Roles, Bound, TerminalsAlone, Reservations, TurnsOf
<1>7. SteersCounted'  BY DEF TypeOK, Roles, SteersCounted, Steering
<1>8. SteersDrained'
  BY DEF TypeOK, Roles, Bound, SteersDrained, HoldsTerminal, threadSteerAdmissionActive,
         TurnsOf
<1>9. AuxiliaryRuns' /\ AuxiliaryAlone'
  BY DEF TypeOK, Roles, Bound, AuxiliaryRuns, AuxiliaryAlone, PreparationsWait, TurnsOf
<1>10. PreparationsCounted' /\ PreparationsWait'
  BY DEF TypeOK, Roles, Bound, AuxiliaryRuns, PreparationsCounted, PreparationsWait,
         Preparing
<1>11. TransitionsAlone' /\ QuietTransition'
  BY DEF TypeOK, Roles, TransitionsAlone, QuietTransition, TurnsOf
<1>12. OperationsCounted'  BY OperationsFrame DEF TypeOK, Roles, Operating
<1>. QED  BY <1>1, <1>2, <1>3, <1>4, <1>5, <1>6, <1>7, <1>8, <1>9, <1>10, <1>11, <1>12 DEF Inv

LEMMA ReserveIdleThreadTransitionKeeps ==
  ASSUME Inv, NEW m \in Proc, ReserveIdleThreadTransition(m)
  PROVE  Inv'
<1>. USE DEF Inv, ReserveIdleThreadTransition, goalIdle, Admits, threadTerminalActive,
             TurnsOf, Owned
<1>1. TypeOK'  BY ThreadAssumption DEF TypeOK, Roles, Bound, PCs
<1>2. Roles'  BY DEF TypeOK, Roles
<1>3. Bound'  BY ThreadAssumption DEF TypeOK, Roles, Bound
<1>4. Owners' /\ ReservationsOwned'  BY DEF TypeOK, Roles, Bound, Owners, ReservationsOwned
<1>5. Claims'  BY DEF TypeOK, Roles, Bound, Claims, Mine
<1>6. TerminalsAlone' /\ Reservations'  BY DEF TypeOK, Roles, Bound, TerminalsAlone, Reservations
<1>7. SteersCounted'  BY DEF TypeOK, Roles, SteersCounted, Steering
<1>8. SteersDrained'
  BY DEF TypeOK, Roles, Bound, SteersDrained, HoldsTerminal, threadSteerAdmissionActive
<1>9. AuxiliaryRuns' /\ AuxiliaryAlone'
  BY DEF TypeOK, Roles, Bound, AuxiliaryRuns, AuxiliaryAlone, PreparationsWait
<1>10. PreparationsCounted' /\ PreparationsWait'
  BY DEF TypeOK, Roles, Bound, AuxiliaryRuns, PreparationsCounted, PreparationsWait,
         Preparing
<1>11. TransitionsAlone' /\ QuietTransition'
  BY DEF TypeOK, Roles, TransitionsAlone, QuietTransition
<1>12. OperationsCounted'  BY OperationsFrame DEF TypeOK, Roles, Operating
<1>. QED  BY <1>1, <1>2, <1>3, <1>4, <1>5, <1>6, <1>7, <1>8, <1>9, <1>10, <1>11, <1>12 DEF Inv

LEMMA waitForThreadTurnsKeeps ==
  ASSUME Inv, NEW m \in Proc, waitForThreadTurns(m)
  PROVE  Inv'
<1>. USE DEF Inv, waitForThreadTurns, OwnersToStop, threadTurnsActive, TurnsOf, Owned,
             threadTerminalActiveOtherThan, threadSteerAdmissionActiveOtherThan
<1>0. /\ m \in Transitions
      /\ pc' = pc \/ pc' = [pc EXCEPT ![m] = "quiet"] \/ pc' = [pc EXCEPT ![m] = "cancelling"]
  BY DEF Roles
<1>1. TypeOK'  BY ThreadAssumption DEF TypeOK, Roles, Bound, PCs
<1>2. Roles'
  <2>1. TypeOK /\ Roles /\ May(m, "quiet") /\ May(m, "cancelling")
    BY <1>0 DEF May
  <2>. HIDE DEF Inv, waitForThreadTurns
  <2>. QED  BY <1>0, <2>1, RolesKept
<1>3. Bound'  BY ThreadAssumption DEF TypeOK, Roles, Bound
<1>4. Owners' /\ ReservationsOwned'  BY DEF TypeOK, Roles, Bound, Owners, ReservationsOwned
<1>5. Claims'
  <2>1. UNCHANGED <<candidateTerminals, candidateTokens, turn>>
    OBVIOUS
  <2>. HIDE DEF waitForThreadTurns
  <2>. QED  BY <1>0, <2>1 DEF TypeOK, Roles, Claims, Mine
<1>6. TerminalsAlone' /\ Reservations'
  <2>1. TerminalsAlone'  BY DEF TypeOK, Roles, Bound, TerminalsAlone
  <2>2. /\ UNCHANGED <<turnOwners, candidateTerminals, interruptReservations, turn>>
        /\ \A i \in Interrupts : pc'[i] = pc[i]
    BY <1>0 DEF TypeOK
  <2>3. Reservations
    OBVIOUS
  <2>. HIDE DEF Inv, waitForThreadTurns
  <2>4. Reservations'
    BY <2>2, <2>3 DEF Reservations
  <2>. QED  BY <2>1, <2>4
<1>7. SteersCounted'  BY DEF TypeOK, Roles, SteersCounted, Steering
<1>8. SteersDrained'
  BY DEF TypeOK, Roles, Bound, SteersDrained, HoldsTerminal, threadSteerAdmissionActive
<1>9. AuxiliaryRuns' /\ AuxiliaryAlone'
  BY DEF TypeOK, Roles, Bound, AuxiliaryRuns, AuxiliaryAlone, PreparationsWait
<1>10. PreparationsCounted' /\ PreparationsWait'
  BY DEF TypeOK, Roles, Bound, AuxiliaryRuns, PreparationsCounted, PreparationsWait,
         Preparing
<1>11. TransitionsAlone' /\ QuietTransition'
  BY DEF TypeOK, Roles, TransitionsAlone, QuietTransition
<1>12. OperationsCounted'  BY OperationsFrame DEF TypeOK, Roles, Operating
<1>. QED  BY <1>1, <1>2, <1>3, <1>4, <1>5, <1>6, <1>7, <1>8, <1>9, <1>10, <1>11, <1>12 DEF Inv

LEMMA releaseThreadTransitionKeeps ==
  ASSUME Inv, NEW m \in Proc, releaseThreadTransition(m)
  PROVE  Inv'
<1>. USE DEF Inv, releaseThreadTransition, EndTransition
<1>1. TypeOK'  BY ThreadAssumption DEF TypeOK, Roles, Bound, PCs
<1>2. Roles'  BY DEF TypeOK, Roles
<1>3. Bound'  BY ThreadAssumption DEF TypeOK, Roles, Bound
<1>4. Owners' /\ ReservationsOwned'
  BY DEF TypeOK, Roles, Bound, Owners, ReservationsOwned, Owned
<1>5. Claims'  BY DEF TypeOK, Roles, Bound, Claims, Mine, TurnsOf
<1>6. TerminalsAlone' /\ Reservations'
  BY DEF TypeOK, Roles, Bound, TerminalsAlone, Reservations, Owned, TurnsOf
<1>7. SteersCounted'  BY DEF TypeOK, Roles, SteersCounted, Steering
<1>8. SteersDrained'
  BY DEF TypeOK, Roles, Bound, SteersDrained, HoldsTerminal, threadSteerAdmissionActive,
         TurnsOf
<1>9. AuxiliaryRuns' /\ AuxiliaryAlone'
  BY DEF TypeOK, Roles, Bound, AuxiliaryRuns, AuxiliaryAlone, PreparationsWait, Owned,
         TurnsOf
<1>10. PreparationsCounted' /\ PreparationsWait'
  BY DEF TypeOK, Roles, Bound, AuxiliaryRuns, PreparationsCounted, PreparationsWait,
         Preparing
<1>11. TransitionsAlone' /\ QuietTransition'
  BY DEF TypeOK, Roles, TransitionsAlone, QuietTransition, Owned, TurnsOf
<1>12. OperationsCounted'  BY OperationsFrame DEF TypeOK, Roles, Operating
<1>. QED  BY <1>1, <1>2, <1>3, <1>4, <1>5, <1>6, <1>7, <1>8, <1>9, <1>10, <1>11, <1>12 DEF Inv

LEMMA AbandonTransitionKeeps ==
  ASSUME Inv, NEW m \in Proc, AbandonTransition(m)
  PROVE  Inv'
<1>. USE DEF Inv, AbandonTransition, EndTransition
<1>1. TypeOK'  BY ThreadAssumption DEF TypeOK, Roles, Bound, PCs
<1>2. Roles'  BY DEF TypeOK, Roles
<1>3. Bound'  BY ThreadAssumption DEF TypeOK, Roles, Bound
<1>4. Owners' /\ ReservationsOwned'
  BY DEF TypeOK, Roles, Bound, Owners, ReservationsOwned, Owned
<1>5. Claims'  BY DEF TypeOK, Roles, Bound, Claims, Mine, TurnsOf
<1>6. TerminalsAlone' /\ Reservations'
  BY DEF TypeOK, Roles, Bound, TerminalsAlone, Reservations, Owned, TurnsOf
<1>7. SteersCounted'  BY DEF TypeOK, Roles, SteersCounted, Steering
<1>8. SteersDrained'
  BY DEF TypeOK, Roles, Bound, SteersDrained, HoldsTerminal, threadSteerAdmissionActive,
         TurnsOf
<1>9. AuxiliaryRuns' /\ AuxiliaryAlone'
  BY DEF TypeOK, Roles, Bound, AuxiliaryRuns, AuxiliaryAlone, PreparationsWait, Owned,
         TurnsOf
<1>10. PreparationsCounted' /\ PreparationsWait'
  BY DEF TypeOK, Roles, Bound, AuxiliaryRuns, PreparationsCounted, PreparationsWait,
         Preparing
<1>11. TransitionsAlone' /\ QuietTransition'
  BY DEF TypeOK, Roles, TransitionsAlone, QuietTransition, Owned, TurnsOf
<1>12. OperationsCounted'  BY OperationsFrame DEF TypeOK, Roles, Operating
<1>. QED  BY <1>1, <1>2, <1>3, <1>4, <1>5, <1>6, <1>7, <1>8, <1>9, <1>10, <1>11, <1>12 DEF Inv

LEMMA BeginShutdownKeeps ==
  ASSUME Inv, BeginShutdown
  PROVE  Inv'
<1>. USE DEF Inv, BeginShutdown, Owned
<1>1. TypeOK'  BY ThreadAssumption DEF TypeOK, Roles, Bound, PCs
<1>2. Roles'  BY DEF TypeOK, Roles
<1>3. Bound'  BY ThreadAssumption DEF TypeOK, Roles, Bound
<1>4. Owners' /\ ReservationsOwned'  BY DEF TypeOK, Roles, Bound, Owners, ReservationsOwned
<1>5. Claims'  BY DEF TypeOK, Roles, Bound, Claims, Mine, TurnsOf
<1>6. TerminalsAlone' /\ Reservations'
  BY DEF TypeOK, Roles, Bound, TerminalsAlone, Reservations, TurnsOf
<1>7. SteersCounted'  BY DEF TypeOK, Roles, SteersCounted, Steering
<1>8. SteersDrained'
  BY DEF TypeOK, Roles, Bound, SteersDrained, HoldsTerminal, threadSteerAdmissionActive,
         TurnsOf
<1>9. AuxiliaryRuns' /\ AuxiliaryAlone'
  BY DEF TypeOK, Roles, Bound, AuxiliaryRuns, AuxiliaryAlone, PreparationsWait, TurnsOf
<1>10. PreparationsCounted' /\ PreparationsWait'
  BY DEF TypeOK, Roles, Bound, AuxiliaryRuns, PreparationsCounted, PreparationsWait,
         Preparing
<1>11. TransitionsAlone' /\ QuietTransition'
  BY DEF TypeOK, Roles, TransitionsAlone, QuietTransition, TurnsOf
<1>12. OperationsCounted'
  BY DEF TypeOK, Roles, Bound, OperationsCounted, Operations
<1>. QED  BY <1>1, <1>2, <1>3, <1>4, <1>5, <1>6, <1>7, <1>8, <1>9, <1>10, <1>11, <1>12 DEF Inv

LEMMA CancelAllRegisteredTurnsKeeps ==
  ASSUME Inv, CancelAllRegisteredTurns
  PROVE  Inv'
<1>. USE DEF Inv, CancelAllRegisteredTurns, Owned
<1>1. TypeOK'  BY ThreadAssumption DEF TypeOK, Roles, Bound, PCs
<1>2. Roles'  BY DEF TypeOK, Roles
<1>3. Bound'  BY ThreadAssumption DEF TypeOK, Roles, Bound
<1>4. Owners' /\ ReservationsOwned'  BY DEF TypeOK, Roles, Bound, Owners, ReservationsOwned
<1>5. Claims'  BY DEF TypeOK, Roles, Bound, Claims, Mine, TurnsOf
<1>6. TerminalsAlone' /\ Reservations'
  BY DEF TypeOK, Roles, Bound, TerminalsAlone, Reservations, TurnsOf
<1>7. SteersCounted'  BY DEF TypeOK, Roles, SteersCounted, Steering
<1>8. SteersDrained'
  BY DEF TypeOK, Roles, Bound, SteersDrained, HoldsTerminal, threadSteerAdmissionActive,
         TurnsOf
<1>9. AuxiliaryRuns' /\ AuxiliaryAlone'
  BY DEF TypeOK, Roles, Bound, AuxiliaryRuns, AuxiliaryAlone, PreparationsWait, TurnsOf
<1>10. PreparationsCounted' /\ PreparationsWait'
  BY DEF TypeOK, Roles, Bound, AuxiliaryRuns, PreparationsCounted, PreparationsWait,
         Preparing
<1>11. TransitionsAlone' /\ QuietTransition'
  BY DEF TypeOK, Roles, TransitionsAlone, QuietTransition, TurnsOf
<1>12. OperationsCounted'
  BY DEF TypeOK, Roles, Bound, OperationsCounted, Operations
<1>. QED  BY <1>1, <1>2, <1>3, <1>4, <1>5, <1>6, <1>7, <1>8, <1>9, <1>10, <1>11, <1>12 DEF Inv

LEMMA WaitForTurnOperationsKeeps ==
  ASSUME Inv, WaitForTurnOperations
  PROVE  Inv'
<1>. USE DEF Inv, WaitForTurnOperations
<1>1. TypeOK'  BY ThreadAssumption DEF TypeOK, Roles, Bound, PCs
<1>2. Roles'  BY DEF TypeOK, Roles
<1>3. Bound'  BY ThreadAssumption DEF TypeOK, Roles, Bound
<1>4. Owners' /\ ReservationsOwned'
  BY DEF TypeOK, Roles, Bound, Owners, ReservationsOwned, Owned
<1>5. Claims'  BY DEF TypeOK, Roles, Bound, Claims, Mine, TurnsOf
<1>6. TerminalsAlone' /\ Reservations'
  BY DEF TypeOK, Roles, Bound, TerminalsAlone, Reservations, Owned, TurnsOf
<1>7. SteersCounted'  BY DEF TypeOK, Roles, SteersCounted, Steering
<1>8. SteersDrained'
  BY DEF TypeOK, Roles, Bound, SteersDrained, HoldsTerminal, threadSteerAdmissionActive,
         TurnsOf
<1>9. AuxiliaryRuns' /\ AuxiliaryAlone'
  BY DEF TypeOK, Roles, Bound, AuxiliaryRuns, AuxiliaryAlone, PreparationsWait, Owned,
         TurnsOf
<1>10. PreparationsCounted' /\ PreparationsWait'
  BY DEF TypeOK, Roles, Bound, AuxiliaryRuns, PreparationsCounted, PreparationsWait,
         Preparing
<1>11. TransitionsAlone' /\ QuietTransition'
  BY DEF TypeOK, Roles, TransitionsAlone, QuietTransition, Owned, TurnsOf
<1>12. OperationsCounted'
  BY CountedFinite, CountingPositive DEF OperationsCounted, Operations
<1>. QED  BY <1>1, <1>2, <1>3, <1>4, <1>5, <1>6, <1>7, <1>8, <1>9, <1>10, <1>11, <1>12 DEF Inv

LEMMA BeginMaintenanceIfIdleKeeps ==
  ASSUME Inv, BeginMaintenanceIfIdle
  PROVE  Inv'
<1>. USE DEF Inv, BeginMaintenanceIfIdle, Admits, Owned
<1>1. TypeOK'  BY ThreadAssumption DEF TypeOK, Roles, Bound, PCs
<1>2. Roles'  BY DEF TypeOK, Roles
<1>3. Bound'  BY ThreadAssumption DEF TypeOK, Roles, Bound
<1>4. Owners' /\ ReservationsOwned'  BY DEF TypeOK, Roles, Bound, Owners, ReservationsOwned
<1>5. Claims'  BY DEF TypeOK, Roles, Bound, Claims, Mine, TurnsOf
<1>6. TerminalsAlone' /\ Reservations'
  BY DEF TypeOK, Roles, Bound, TerminalsAlone, Reservations, TurnsOf
<1>7. SteersCounted'  BY DEF TypeOK, Roles, SteersCounted, Steering
<1>8. SteersDrained'
  BY DEF TypeOK, Roles, Bound, SteersDrained, HoldsTerminal, threadSteerAdmissionActive,
         TurnsOf
<1>9. AuxiliaryRuns' /\ AuxiliaryAlone'
  BY DEF TypeOK, Roles, Bound, AuxiliaryRuns, AuxiliaryAlone, PreparationsWait, TurnsOf
<1>10. PreparationsCounted' /\ PreparationsWait'
  BY DEF TypeOK, Roles, Bound, AuxiliaryRuns, PreparationsCounted, PreparationsWait,
         Preparing
<1>11. TransitionsAlone' /\ QuietTransition'
  BY DEF TypeOK, Roles, TransitionsAlone, QuietTransition, TurnsOf
<1>12. OperationsCounted'
  BY CountedFinite, CountingPositive DEF OperationsCounted, Operations
<1>. QED  BY <1>1, <1>2, <1>3, <1>4, <1>5, <1>6, <1>7, <1>8, <1>9, <1>10, <1>11, <1>12 DEF Inv

LEMMA EndMaintenanceKeeps ==
  ASSUME Inv, EndMaintenance
  PROVE  Inv'
<1>. USE DEF Inv, EndMaintenance
<1>1. TypeOK'  BY ThreadAssumption DEF TypeOK, Roles, Bound, PCs
<1>2. Roles'  BY DEF TypeOK, Roles
<1>3. Bound'  BY ThreadAssumption DEF TypeOK, Roles, Bound
<1>4. Owners' /\ ReservationsOwned'
  BY DEF TypeOK, Roles, Bound, Owners, ReservationsOwned, Owned
<1>5. Claims'  BY DEF TypeOK, Roles, Bound, Claims, Mine, TurnsOf
<1>6. TerminalsAlone' /\ Reservations'
  BY DEF TypeOK, Roles, Bound, TerminalsAlone, Reservations, Owned, TurnsOf
<1>7. SteersCounted'  BY DEF TypeOK, Roles, SteersCounted, Steering
<1>8. SteersDrained'
  BY DEF TypeOK, Roles, Bound, SteersDrained, HoldsTerminal, threadSteerAdmissionActive,
         TurnsOf
<1>9. AuxiliaryRuns' /\ AuxiliaryAlone'
  BY DEF TypeOK, Roles, Bound, AuxiliaryRuns, AuxiliaryAlone, PreparationsWait, Owned,
         TurnsOf
<1>10. PreparationsCounted' /\ PreparationsWait'
  BY DEF TypeOK, Roles, Bound, AuxiliaryRuns, PreparationsCounted, PreparationsWait,
         Preparing
<1>11. TransitionsAlone' /\ QuietTransition'
  BY DEF TypeOK, Roles, TransitionsAlone, QuietTransition, Owned, TurnsOf
<1>12. OperationsCounted'
  BY DEF TypeOK, Roles, Bound, OperationsCounted, Operations
<1>. QED  BY <1>1, <1>2, <1>3, <1>4, <1>5, <1>6, <1>7, <1>8, <1>9, <1>10, <1>11, <1>12 DEF Inv
-------------------------------------------------------------------------------
LEMMA Initially == Init => Inv
<1>. SUFFICES ASSUME Init PROVE Inv
  OBVIOUS
<1>. USE DEF Init
<1>1. TypeOK
  BY DEF TypeOK, PCs
<1>2. Operations = {} /\ (\A k : Steering(k) = {}) /\ (\A t : Preparing(t) = {})
  BY DEF Operations, Operating, Steering, Preparing
<1>3. SteersCounted /\ PreparationsCounted /\ OperationsCounted
  BY <1>2, FS_EmptySet DEF SteersCounted, PreparationsCounted, OperationsCounted
<1>4. Roles /\ Bound /\ Owners /\ ReservationsOwned /\ Claims /\ TerminalsAlone /\ Reservations
  BY DEF Roles, Bound, Owners, Owned, ReservationsOwned, Claims, TerminalsAlone, Reservations
<1>5. SteersDrained /\ AuxiliaryRuns /\ AuxiliaryAlone /\ PreparationsWait
  BY DEF SteersDrained, HoldsTerminal, AuxiliaryRuns, AuxiliaryAlone, PreparationsWait
<1>6. TransitionsAlone /\ QuietTransition
  BY DEF TransitionsAlone, QuietTransition
<1>. QED  BY <1>1, <1>3, <1>4, <1>5, <1>6 DEF Inv

LEMMA Stutters == ASSUME Inv, UNCHANGED vars PROVE Inv'
BY DEF vars, Inv, TypeOK, Roles, Bound, Owners, ReservationsOwned, Owned, Claims, Mine,
       TerminalsAlone, Reservations, SteersCounted, Steering, SteersDrained, HoldsTerminal,
       threadSteerAdmissionActive, AuxiliaryRuns, AuxiliaryAlone, PreparationsCounted, Preparing,
       PreparationsWait, TransitionsAlone, QuietTransition, OperationsCounted, Operations

LEMMA StepKeeps == ASSUME Inv, NEW p \in Proc, Step(p) PROVE Inv'
<1>1. ASSUME ExecutionStep(p) PROVE Inv'
  BY <1>1, PrepareForegroundKeeps, ForegroundPreparedKeeps, ReleasePreparationKeeps,
     RegisterTurnCancelOwnedKeeps, RegisterMeetsAuxiliaryKeeps,
     RegisterTurnCancelAfterThreadTailKeeps, AcquireCandidateTerminalForLoopKeeps,
     AcquireCandidateTerminalKeeps, ConsumeTokenKeeps, PromoteSteeringKeeps DEF ExecutionStep
<1>2. ASSUME SteerStep(p) PROVE Inv'
  BY <1>2, ReserveSteerAdmissionKeeps, CancelRegisteredTurnKeeps DEF SteerStep
<1>3. ASSUME InterruptStep(p) PROVE Inv'
  BY <1>3, ReserveInterruptTerminalKeeps, DrainSteeringKeeps, WaitForOwnerKeeps DEF InterruptStep
<1>4. ASSUME TransitionStep(p) PROVE Inv'
  BY <1>4, ReserveThreadTransitionKeeps, ReserveIdleThreadTransitionKeeps,
     waitForThreadTurnsKeeps
     DEF TransitionStep
<1>. QED
  BY <1>1, <1>2, <1>3, <1>4, BeginTurnOperationKeeps, finishTurnOperationKeeps,
     BeginAuxiliaryKeeps, EndAuxiliaryKeeps, ReleaseTurnExecutionOwnerKeeps, CloseTurnKeeps,
     AcquireHostTerminalKeeps, waitForSteerAdmissionsKeeps, PublishedKeeps,
     ReleaseSteerAdmissionKeeps, CallCancelsKeeps, releaseInterruptReservationKeeps,
     releaseThreadTransitionKeeps DEF Step

LEMMA NextKeeps == ASSUME Inv, [Next]_vars PROVE Inv'
<1>1. ASSUME NEW p \in Proc, Retreat(p) PROVE Inv'
  BY <1>1, GiveUpKeeps, AbandonClaimKeeps, AbandonInterruptKeeps, AbandonTransitionKeeps
     DEF Retreat
<1>2. ASSUME HostStep PROVE Inv'
  BY <1>2, BeginShutdownKeeps, CancelAllRegisteredTurnsKeeps, WaitForTurnOperationsKeeps,
     BeginMaintenanceIfIdleKeeps, EndMaintenanceKeeps DEF HostStep
<1>. QED  BY <1>1, <1>2, StepKeeps, Stutters DEF Next

LEMMA Invariance == Spec => []Inv
<1>1. Init => Inv
  BY Initially
<1>2. Inv /\ [Next]_vars => Inv'
  BY NextKeeps
<1>. QED  BY <1>1, <1>2, PTL DEF Spec

-------------------------------------------------------------------------------
\* Every field of Controller and every call keeps its type: in particular the
\* counters of operations, preparations and steering never go below zero.
THEOREM Typed == Spec => []TypeOK
<1>1. Inv => TypeOK
  BY DEF Inv
<1>. QED  BY <1>1, Invariance, PTL

\* One publisher per thread, and a granted interrupt publishes for a turn that
\* nobody executes: acquireTerminal, ReserveInterruptTerminalAndWait.
THEOREM OnePublisher == Spec => []TerminalExclusive
<1>1. ASSUME Inv, NEW p \in Proc, NEW q \in Proc,
             HoldsTerminal(p), HoldsTerminal(q), thread[p] = thread[q]
      PROVE  p = q
  <2>. USE <1>1
  <2>1. \A r \in {p, q} : /\ turn[r] \in Turns /\ thread[r] = ThreadOf[turn[r]]
                          /\ turn[r] \in candidateTerminals \cup interruptReservations
    BY DEF Inv, Roles, Bound, HoldsTerminal, Claims, Mine, Reservations
  <2>2. turn[p] = turn[q]
    BY <2>1 DEF Inv, TerminalsAlone
  <2>3. \A r \in {p, q} : pc[r] = "held" <=> turn[r] \notin candidateTerminals
    BY DEF Inv, Roles, HoldsTerminal, Claims, Mine, Reservations
  <2>4. CASE pc[p] = "held"
    BY <2>2, <2>3, <2>4 DEF Inv, Roles, Reservations
  <2>5. CASE pc[p] # "held"
    BY <2>2, <2>3, <2>5 DEF Inv, HoldsTerminal, Claims
  <2>. QED  BY <2>4, <2>5
<1>2. Inv => TerminalExclusive
  BY <1>1 DEF TerminalExclusive, Inv, Reservations
<1>. QED  BY <1>2, Invariance, PTL

\* waitForSteerAdmissions and the interrupt's wait: whoever may publish has
\* seen the steering of its thread drain, and none is admitted meanwhile.
THEOREM SteeringDrained == Spec => []SteersDrained
<1>1. Inv => SteersDrained
  BY DEF Inv
<1>. QED  BY <1>1, Invariance, PTL

\* beginAuxiliary and the three registrations keep an auxiliary operation and
\* an execution out of one thread.
THEOREM AuxiliaryApart == Spec => []AuxiliaryAlone
<1>1. Inv => AuxiliaryAlone
  BY DEF Inv
<1>. QED  BY <1>1, Invariance, PTL

\* While an auxiliary operation is on a thread, at most one turn start of the
\* thread is between having waited it out and its registration.
THEOREM OneServed == Spec => []AuxiliaryServesOne
<1>1. ASSUME Inv, NEW t \in Threads, auxiliary[t] # None
      PROVE  Cardinality({ e \in Executions : thread[e] = t /\ pc[e] \in {"prepared", "tail"} }) <= 1
  <2>. DEFINE W == { e \in Executions : thread[e] = t /\ pc[e] \in {"prepared", "tail"} }
  <2>1. \A d, e \in W : d = e
    BY <1>1 DEF Inv, PreparationsWait
  <2>2. W = {} \/ \E e : W = {e}
    BY <2>1
  <2>. HIDE DEF W
  <2>3. ASSUME W = {} PROVE Cardinality(W) <= 1
    BY <2>3, FS_EmptySet
  <2>4. ASSUME NEW e, W = {e} PROVE Cardinality(W) <= 1
    <3>1. Cardinality({e}) = 1
      BY FS_Singleton
    <3>. QED  BY <2>4, <3>1
  <2>. QED  BY <2>2, <2>3, <2>4 DEF W
<1>2. Inv => AuxiliaryServesOne
  BY <1>1 DEF AuxiliaryServesOne
<1>. QED  BY <1>2, Invariance, PTL

\* A transition that waitForThreadTurns has let through, or that took an idle
\* thread, has the thread for itself.
THEOREM TransitionQuiet == Spec => []QuietTransition
<1>1. Inv => QuietTransition
  BY DEF Inv
<1>. QED  BY <1>1, Invariance, PTL

\* releaseTurnExecutionOwnerLockedV1 takes the cancellation reservation along.
THEOREM ReservationsDie == Spec => []ReservationsOwned
<1>1. Inv => ReservationsOwned
  BY DEF Inv
<1>. QED  BY <1>1, Invariance, PTL

\* With the operations drained, no goroutine stands behind an owner, a
\* reservation, a steering mutation or an auxiliary operation, so none is left.
THEOREM HostQuiesces == Spec => []Quiesced
<1>1. ASSUME Inv, shutdown = "drained" \/ maintenance
      PROVE  /\ interruptReservations = {}
             /\ \A k \in Turns : ~Owned(k) /\ steerAdmissions[k] = 0
             /\ \A t \in Threads : auxiliary[t] = None
  <2>. USE <1>1 DEF Inv
  <2>1. \A p \in Operating : pc[p] \in {"new", "done"}
    BY DEF OperationsCounted, Operations
  <2>2. interruptReservations = {}
    BY <2>1 DEF Reservations, Operating
  <2>3. \A k \in Turns : ~Owned(k)
    BY <2>1 DEF TypeOK, Owners, Owned, Operating
  <2>4. \A k \in Turns : Steering(k) = {}
    BY <2>1 DEF Steering, Operating
  <2>5. \A k \in Turns : steerAdmissions[k] = 0
    BY <2>4, FS_EmptySet DEF SteersCounted
  <2>6. \A t \in Threads : auxiliary[t] = None
    BY <2>1 DEF TypeOK, AuxiliaryRuns, Operating
  <2>. QED  BY <2>2, <2>3, <2>5, <2>6
<1>2. Inv => Quiesced
  BY <1>1 DEF Quiesced
<1>. QED  BY <1>2, Invariance, PTL
===============================================================================
