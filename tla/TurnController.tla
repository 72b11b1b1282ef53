---------------------------- MODULE TurnController ----------------------------
(***************************************************************************)
(* The turn controller of the Go runtime (internal/app/control/service.go, *)
(* auxiliary.go, turn_execution_owner.go): which execution owns a turn,    *)
(* who may publish the turn's terminal state, what drains before a thread  *)
(* transition, a shutdown or a maintenance window.                         *)
(*                                                                         *)
(* Controller.mu is one lock, so a critical section is one action.  Each   *)
(* process is one goroutine that calls the controller once in its role;    *)
(* refused calls change nothing and go to "ending".  A goroutine that      *)
(* waits on turnStateChanged is in asleep until the next notification, and *)
(* only then looks again: a forgotten notification is a lost wake-up.      *)
(***************************************************************************)
EXTENDS Integers, FiniteSets

CONSTANTS
  Threads, Turns, ThreadOf,  \* ThreadOf \in [Turns -> Threads]
  Starts,       \* executions that start a turn: SendTurn
  Resumptions,  \* executions that resume a turn after a gate: RunRegisteredTurn
  Steers,       \* SteerTurn requests
  Interrupts,   \* InterruptTurn requests
  Transitions,  \* thread security transitions
  Auxiliaries,  \* inline completions and compaction summaries
  Closers,      \* host code that settles a turn with a fixed terminal
  HostStops,    \* TRUE: the host may shut down and open maintenance windows
  None

Executions == Starts \cup Resumptions
Proc == Executions \cup Steers \cup Interrupts \cup Transitions
          \cup Auxiliaries \cup Closers

ASSUME ThreadAssumption == ThreadOf \in [Turns -> Threads]
ASSUME HostAssumption == HostStops \in BOOLEAN
ASSUME ProcAssumption ==
  /\ None \notin Proc \cup Turns \cup Threads
  /\ IsFiniteSet(Proc)
  /\ LET role == <<Starts, Resumptions, Steers, Interrupts, Transitions, Auxiliaries, Closers>>
     IN  \A i, j \in 1..7 : i # j => role[i] \cap role[j] = {}

TurnsOf(t) == { k \in Turns : ThreadOf[k] = t }

VARIABLES
  \* the fields of Controller
  turnOwners,            \* turnCancels and turnOwners: [Turns -> Executions or None]
  cancelReservations,    \* turns whose owner somebody has decided to cancel
  interruptReservations, \* turns whose terminal state belongs to an interrupt
  candidateTerminals,    \* turns whose terminal state somebody has claimed
  candidateTokens,       \* the loop execution a claim belongs to, if any
  steerAdmissions,       \* steering mutations admitted and not finished
  threadTransitions,     \* threads in a security transition
  auxiliary,             \* the auxiliary operation of each thread
  foregroundPreparing,   \* [count, current]: preparations and newest witness
  shutdown,              \* "no", "begun", "swept", "drained"; shuttingDown # "no"
  maintenance, activeTurnOperations,
  \* the goroutines
  pc, thread, turn,
  target,     \* what a call has captured under the lock to use after it
  prepared,   \* executions whose foreground preparation is not released
  cancelled,  \* goroutines whose context has been cancelled
  asleep,     \* goroutines that wait for turnStateChanged
  queued      \* turns with admitted steering that no loop has promoted

ownerVars == <<turnOwners, cancelReservations>>
terminalVars == <<interruptReservations, candidateTerminals, candidateTokens>>
prepareVars == <<auxiliary, foregroundPreparing>>
hostVars == <<shutdown, maintenance, activeTurnOperations>>
callVars == <<thread, turn, target, prepared>>
vars == <<turnOwners, cancelReservations, interruptReservations, candidateTerminals,
          candidateTokens, steerAdmissions, threadTransitions, auxiliary,
          foregroundPreparing, shutdown, maintenance, activeTurnOperations, pc, thread,
          turn, target, prepared, cancelled, asleep, queued>>

Init ==
  /\ turnOwners = [k \in Turns |-> None] /\ cancelReservations = {}
  /\ interruptReservations = {} /\ candidateTerminals = {}
  /\ candidateTokens = [k \in Turns |-> None]
  /\ steerAdmissions = [k \in Turns |-> 0] /\ threadTransitions = {}
  /\ auxiliary = [t \in Threads |-> None]
  /\ foregroundPreparing = [t \in Threads |-> [count |-> 0, current |-> None]]
  /\ shutdown = "no" /\ maintenance = FALSE /\ activeTurnOperations = 0
  /\ pc = [p \in Proc |-> "new"]
  /\ thread = [p \in Proc |-> None] /\ turn = [p \in Proc |-> None]
  /\ target = [p \in Proc |-> {}]
  /\ prepared = {} /\ cancelled = {} /\ asleep = {} /\ queued = {}

-------------------------------------------------------------------------------
(* Conditions read under Controller.mu. *)
Owned(k) == turnOwners[k] # None
Admits == shutdown = "no" /\ ~maintenance
notify == asleep' = {}
Goto(p, to) == pc' = [pc EXCEPT ![p] = to]

threadTerminalActive(t) == TurnsOf(t) \cap (candidateTerminals \cup interruptReservations) # {}
threadTerminalActiveOtherThan(t, x) ==
  (TurnsOf(t) \ {x}) \cap (candidateTerminals \cup interruptReservations) # {}

threadSteerAdmissionActive(t) == \E k \in TurnsOf(t) : steerAdmissions[k] > 0
threadSteerAdmissionActiveOtherThan(t, x) ==
  \E k \in TurnsOf(t) \ {x} : steerAdmissions[k] > 0

goalIdle(t) ==
  /\ Admits /\ foregroundPreparing[t].count = 0 /\ auxiliary[t] = None
  /\ ~threadTerminalActive(t) /\ t \notin threadTransitions
  /\ \A k \in TurnsOf(t) :
       ~Owned(k) /\ k \notin cancelReservations /\ steerAdmissions[k] = 0

\* A waiter looks again after a notification: on if its condition holds, else
\* back to sleep on the channel it has just read.
Await(p, ready, to) ==
  /\ p \notin asleep
  /\ IF ready THEN Goto(p, to) /\ UNCHANGED asleep
              ELSE asleep' = asleep \cup {p} /\ UNCHANGED pc

-------------------------------------------------------------------------------
(* Turn operations: what shutdown and maintenance wait for. *)
BeginTurnOperation(p) ==
  /\ pc[p] = "new" /\ p \in Executions \cup Steers \cup Interrupts
  /\ Admits
  /\ activeTurnOperations' = activeTurnOperations + 1
  /\ Goto(p, "admitted")
  /\ \E k \in Turns : /\ turn' = [turn EXCEPT ![p] = k]
                      /\ thread' = [thread EXCEPT ![p] = ThreadOf[k]]
  /\ UNCHANGED <<ownerVars, terminalVars, steerAdmissions, threadTransitions, prepareVars,
                 shutdown, maintenance, target, prepared, cancelled, asleep, queued>>

\* The deferred finish, after the execution has released its turn.
finishTurnOperation(p) ==
  /\ pc[p] = "ending"
  /\ activeTurnOperations' = activeTurnOperations - 1
  /\ Goto(p, "done")
  /\ turn' = [turn EXCEPT ![p] = None] /\ cancelled' = cancelled \ {p}
  /\ UNCHANGED <<ownerVars, terminalVars, steerAdmissions, threadTransitions, prepareVars,
                 shutdown, maintenance, thread, target, prepared, asleep, queued>>

\* A refused or abandoned call ends: its request context is done, or a guard
\* of the controller returned an error.
GiveUp(p) ==
  /\ pc[p] \in {"admitted", "preparing", "prepared", "tail", "closing"}
  /\ Goto(p, IF p \in Closers THEN "done" ELSE "ending")
  /\ asleep' = asleep \ {p}
  /\ UNCHANGED <<ownerVars, terminalVars, steerAdmissions, threadTransitions, prepareVars,
                 hostVars, callVars, cancelled, queued>>

-------------------------------------------------------------------------------
(* Foreground preparation and auxiliary operations (auxiliary.go). *)

\* prepareForegroundWithWitnessV1: close auxiliary admission, revoke the older
\* witness, cancel the running auxiliary operation and then wait for it.
PrepareForeground(e) ==
  LET t == thread[e] IN
  /\ pc[e] = "admitted" /\ e \in Starts
  /\ Admits
  /\ foregroundPreparing' = [foregroundPreparing EXCEPT ![t] =
                               [count |-> @.count + 1, current |-> e]]
  /\ prepared' = prepared \cup {e}
  /\ target' = [target EXCEPT ![e] = {auxiliary[t]} \ {None}]
  /\ cancelled' = cancelled \cup ({auxiliary[t]} \ {None})
  /\ Goto(e, "preparing")
  /\ UNCHANGED <<ownerVars, terminalVars, steerAdmissions, threadTransitions, auxiliary,
                 hostVars, thread, turn, asleep, queued>>

\* The captured operation is done.  A turn start keeps the witness; the
\* serialized registration behind a thread tail throws it away.
ForegroundPrepared(e) ==
  /\ pc[e] = "preparing"
  /\ \A a \in target[e] : pc[a] # "auxiliary"
  /\ \E to \in {"prepared", "tail"} : Goto(e, to)
  /\ UNCHANGED <<ownerVars, terminalVars, steerAdmissions, threadTransitions, prepareVars,
                 hostVars, callVars, cancelled, asleep, queued>>

\* Mutant: a superseded preparation is not counted down.
ReleaseNewestPreparation(e) ==
  LET t == thread[e] IN
  /\ e \in prepared /\ pc[e] \notin {"preparing", "prepared", "tail"}
  /\ prepared' = prepared \ {e}
  /\ foregroundPreparing' = [foregroundPreparing EXCEPT ![t] =
       IF @.current # e THEN @
       ELSE IF @.count = 1 THEN [count |-> 0, current |-> None]
       ELSE [count |-> @.count - 1, current |-> @.current]]
  /\ notify
  /\ UNCHANGED <<ownerVars, terminalVars, steerAdmissions, threadTransitions, auxiliary,
                 hostVars, pc, thread, turn, target, cancelled, queued>>
ReleasePreparation(e) ==
  LET t == thread[e] IN
  /\ e \in prepared /\ pc[e] \notin {"preparing", "prepared", "tail"}
  /\ prepared' = prepared \ {e}
  /\ foregroundPreparing' = [foregroundPreparing EXCEPT ![t] =
       IF @.count = 1 THEN [count |-> 0, current |-> None]
       ELSE [count |-> @.count - 1, current |-> @.current]]
  /\ notify
  /\ UNCHANGED <<ownerVars, terminalVars, steerAdmissions, threadTransitions, auxiliary,
                 hostVars, pc, thread, turn, target, cancelled, queued>>

\* reservationCurrentLocked: the only live preparation is the witness's own.
\* Mutant: a second preparation does not invalidate an older registration.
reservationCurrentAmongMany(e) ==
  foregroundPreparing[thread[e]].current = e /\ e \in prepared /\ Admits
reservationCurrent(e) ==
  /\ foregroundPreparing[thread[e]] = [count |-> 1, current |-> e]
  /\ e \in prepared /\ Admits

\* beginAuxiliary, on an idle thread or for the foreground of execution e.
BeginAuxiliary(a) ==
  \E t \in Threads :
    /\ pc[a] = "new" /\ a \in Auxiliaries
    /\ Admits
    /\ \/ foregroundPreparing[t].count = 0
       \/ \E e \in Executions : pc[e] = "prepared" /\ thread[e] = t /\ reservationCurrent(e)
    /\ auxiliary[t] = None /\ ~threadTerminalActive(t) /\ t \notin threadTransitions
    /\ \A k \in TurnsOf(t) : ~Owned(k)
    /\ auxiliary' = [auxiliary EXCEPT ![t] = a]
    /\ activeTurnOperations' = activeTurnOperations + 1
    /\ thread' = [thread EXCEPT ![a] = t]
    /\ Goto(a, "auxiliary")
    /\ notify
    /\ UNCHANGED <<ownerVars, terminalVars, steerAdmissions, threadTransitions,
                   foregroundPreparing, shutdown, maintenance, turn, target, prepared,
                   cancelled, queued>>

\* Mutant: the operation of the turn is not finished.
EndAuxiliaryUnfinished(a) ==
  /\ pc[a] = "auxiliary"
  /\ auxiliary' = [auxiliary EXCEPT ![thread[a]] = None]
  /\ Goto(a, "done")
  /\ notify
  /\ UNCHANGED <<ownerVars, terminalVars, steerAdmissions, threadTransitions,
                 foregroundPreparing, hostVars, callVars, cancelled, queued>>
EndAuxiliary(a) ==
  /\ pc[a] = "auxiliary"
  /\ auxiliary' = [auxiliary EXCEPT ![thread[a]] = None]
  /\ Goto(a, "ending")
  /\ notify
  /\ UNCHANGED <<ownerVars, terminalVars, steerAdmissions, threadTransitions,
                 foregroundPreparing, hostVars, callVars, cancelled, queued>>

-------------------------------------------------------------------------------
(* Execution owners. *)

\* installTurnExecutionOwnerLockedV1
Install(e) ==
  /\ turnOwners' = [turnOwners EXCEPT ![turn[e]] = e]
  /\ Goto(e, "running")
  /\ notify
  /\ UNCHANGED <<cancelReservations, terminalVars, steerAdmissions, threadTransitions,
                 prepareVars, hostVars, callVars, cancelled, queued>>

\* What both registrations refuse, besides a closed controller.
TurnFree(k) ==
  ~Owned(k) /\ k \notin interruptReservations \cup cancelReservations \cup candidateTerminals
ThreadFree(t) == t \notin threadTransitions /\ ~threadTerminalActive(t)

CanRegister(e) == pc[e] = "prepared" \/ (pc[e] = "admitted" /\ e \in Resumptions)

\* registerTurnExecutionOwnerV1: a prepared start, or a continuation that
\* RunRegisteredTurn resumes without a preparation.
\* Mutant: the resumed continuation does not look at the auxiliary operation.
RegisterBesideAuxiliary(e) ==
  /\ CanRegister(e)
  /\ Admits /\ TurnFree(turn[e]) /\ ThreadFree(thread[e])
  /\ Install(e)
RegisterTurnCancelOwned(e) ==
  /\ CanRegister(e)
  /\ Admits /\ TurnFree(turn[e]) /\ ThreadFree(thread[e])
  /\ auxiliary[thread[e]] = None
  /\ Install(e)

\* ... and the refusal that cancels the auxiliary operation in its way.
RegisterMeetsAuxiliary(e) ==
  /\ CanRegister(e)
  /\ Admits /\ auxiliary[thread[e]] # None
  /\ cancelled' = cancelled \cup {auxiliary[thread[e]]}
  /\ Goto(e, "ending")
  /\ UNCHANGED <<ownerVars, terminalVars, steerAdmissions, threadTransitions, prepareVars,
                 hostVars, callVars, asleep, queued>>

\* RegisterTurnCancelAfterThreadTail: wait for the tail of the thread.
RegisterTurnCancelAfterThreadTail(e) ==
  /\ pc[e] = "tail" /\ e \notin asleep
  /\ Admits /\ TurnFree(turn[e])
  /\ IF ThreadFree(thread[e])
       THEN Install(e)
       ELSE /\ asleep' = asleep \cup {e}
            /\ UNCHANGED <<ownerVars, terminalVars, steerAdmissions, threadTransitions,
                           prepareVars, hostVars, pc, callVars, cancelled, queued>>

\* releaseTurnExecutionOwnerLockedV1, when the execution has returned.
\* Mutant: the cancellation reservation outlives its owner.
ReleaseOwnerOnly(e) ==
  /\ pc[e] \in {"running", "failed", "settled"}
  /\ turnOwners' = [turnOwners EXCEPT ![turn[e]] = None]
  /\ Goto(e, "ending")
  /\ notify
  /\ UNCHANGED <<cancelReservations, terminalVars, steerAdmissions, threadTransitions,
                 prepareVars, hostVars, callVars, cancelled, queued>>
\* Mutant: the operation is finished before the turn is released.
ReleaseOwnerLate(e) ==
  /\ pc[e] \in {"running", "failed", "settled"}
  /\ activeTurnOperations' = activeTurnOperations - 1
  /\ Goto(e, "done")
  /\ UNCHANGED <<ownerVars, terminalVars, steerAdmissions, threadTransitions, prepareVars,
                 shutdown, maintenance, callVars, cancelled, asleep, queued>>
ReleaseTurnExecutionOwner(e) ==
  /\ pc[e] \in {"running", "failed", "settled"}
  /\ turnOwners' = [turnOwners EXCEPT ![turn[e]] = None]
  /\ cancelReservations' = cancelReservations \ {turn[e]}
  /\ Goto(e, "ending")
  /\ notify
  /\ UNCHANGED <<terminalVars, steerAdmissions, threadTransitions, prepareVars, hostVars,
                 callVars, cancelled, queued>>

-------------------------------------------------------------------------------
(* Terminal claims. *)
Claim(p, token) ==
  /\ candidateTerminals' = candidateTerminals \cup {turn[p]}
  /\ candidateTokens' = [candidateTokens EXCEPT ![turn[p]] = token]
  /\ notify
  /\ UNCHANGED <<ownerVars, interruptReservations, steerAdmissions, threadTransitions,
                 prepareVars, hostVars, thread, target, prepared, cancelled, queued>>

\* AcquireCandidateTerminalForLoop: the claim is installed before it is
\* granted, so that later steering cannot starve it.  (Its test of the context
\* comes before the lock, so a cancellation may still slip in between.)
AcquireCandidateTerminalForLoop(e) ==
  LET k == turn[e] IN
  /\ pc[e] = "running" /\ e \in Executions
  /\ shutdown = "no" /\ Owned(k)
  /\ k \notin interruptReservations \cup cancelReservations
  /\ ThreadFree(thread[e])
  /\ Claim(e, e) /\ Goto(e, "claiming") /\ UNCHANGED turn

\* acquireTerminal without a loop token, for a provider candidate.
AcquireCandidateTerminal(e) ==
  LET k == turn[e] IN
  /\ pc[e] = "running" /\ e \in Executions
  /\ shutdown = "no" /\ Owned(k)
  /\ k \notin interruptReservations \cup cancelReservations
  /\ ThreadFree(thread[e])
  /\ Claim(e, None) /\ Goto(e, "hosting") /\ UNCHANGED turn

\* acquireTerminal for a host-coded fixed terminal: also without an owner,
\* after a cancellation, in a transition and in a shutdown.
\* Mutant: a fixed terminal does not respect an interrupt's reservation.
AcquireHostTerminalAnyway(p) ==
  /\ pc[p] \in {"closing", "running", "failed"}
  /\ TurnsOf(thread[p]) \cap candidateTerminals = {}
  /\ Claim(p, None) /\ Goto(p, "hosting") /\ UNCHANGED turn
AcquireHostTerminal(p) ==
  /\ pc[p] \in {"closing", "running", "failed"}
  /\ ~threadTerminalActive(thread[p])
  /\ Claim(p, None) /\ Goto(p, "hosting") /\ UNCHANGED turn

\* Host code that closes a turn nobody executes: a drained gate, a shutdown.
CloseTurn(p) ==
  /\ pc[p] = "new" /\ p \in Closers
  /\ \E k \in Turns : /\ turn' = [turn EXCEPT ![p] = k]
                      /\ thread' = [thread EXCEPT ![p] = ThreadOf[k]]
  /\ Goto(p, "closing")
  /\ UNCHANGED <<ownerVars, terminalVars, steerAdmissions, threadTransitions, prepareVars,
                 hostVars, target, prepared, cancelled, asleep, queued>>

\* The claim that p installed is still there: the only one p may use or release.
Mine(p) == /\ turn[p] \in candidateTerminals
           /\ candidateTokens[turn[p]] = IF pc[p] \in {"claiming", "claimed", "publishing"}
                                       THEN p ELSE None

\* waitForSteerAdmissions grants the claim.
\* Mutant: it is granted with steering still in flight.
GrantedAtOnce(p) ==
  /\ pc[p] \in {"claiming", "hosting"}
  /\ Await(p, TRUE, IF pc[p] = "claiming" THEN "claimed" ELSE "settling")
  /\ UNCHANGED <<ownerVars, terminalVars, steerAdmissions, threadTransitions, prepareVars,
                 hostVars, callVars, cancelled, queued>>
waitForSteerAdmissions(p) ==
  /\ pc[p] \in {"claiming", "hosting"}
  /\ Mine(p)
  /\ Await(p, ~threadSteerAdmissionActive(thread[p]),
           IF pc[p] = "claiming" THEN "claimed" ELSE "settling")
  /\ UNCHANGED <<ownerVars, terminalVars, steerAdmissions, threadTransitions, prepareVars,
                 hostVars, callVars, cancelled, queued>>

\* acquireTerminal with the loop's token: the publication layer consumes the
\* claim that the loop already has.
ConsumeToken(e) ==
  /\ pc[e] = "claimed"
  /\ turn[e] \in candidateTerminals /\ candidateTokens[turn[e]] = e
  /\ Goto(e, "publishing")
  /\ UNCHANGED <<ownerVars, terminalVars, steerAdmissions, threadTransitions, prepareVars,
                 hostVars, callVars, cancelled, asleep, queued>>

releaseTerminalClaim(p, to) ==
  /\ IF Mine(p)
       THEN /\ candidateTerminals' = candidateTerminals \ {turn[p]}
            /\ candidateTokens' = [candidateTokens EXCEPT ![turn[p]] = None]
            /\ notify
       ELSE UNCHANGED <<candidateTerminals, candidateTokens>> /\ asleep' = asleep \ {p}
  /\ Goto(p, to)

\* The terminal state is durable; the publisher gives its claim back.
Published(p) ==
  /\ pc[p] \in {"publishing", "settling"}
  /\ releaseTerminalClaim(p, IF p \in Executions THEN "settled" ELSE "done")
  /\ UNCHANGED <<ownerVars, interruptReservations, steerAdmissions, threadTransitions,
                 prepareVars, hostVars, callVars, cancelled, queued>>

\* The loop finds admitted steering under its claim, gives the claim back and
\* runs on.
PromoteSteering(e) ==
  /\ pc[e] = "claimed" /\ turn[e] \in queued
  /\ queued' = queued \ {turn[e]}
  /\ releaseTerminalClaim(e, "running")
  /\ UNCHANGED <<ownerVars, interruptReservations, steerAdmissions, threadTransitions,
                 prepareVars, hostVars, callVars, cancelled>>

\* Waiting for steering, the claimant finds its context done or its claim gone;
\* or the loop fails between its claim and the publication.  A failed loop may
\* still try a fixed terminal, once.
AbandonClaim(p) ==
  /\ pc[p] \in {"claiming", "claimed", "hosting"}
  /\ pc[p] = "claiming" => p \in cancelled \/ ~Mine(p)
  /\ releaseTerminalClaim(p, IF p \in Closers THEN "done"
                             ELSE IF pc[p] = "hosting" THEN "settled" ELSE "failed")
  /\ UNCHANGED <<ownerVars, interruptReservations, steerAdmissions, threadTransitions,
                 prepareVars, hostVars, callVars, cancelled, queued>>

-------------------------------------------------------------------------------
(* Steering. *)

\* Mutant: a pending interrupt does not refuse the steering.
ReserveSteerUnderInterrupt(s) ==
  LET k == turn[s] IN
  /\ pc[s] = "admitted" /\ s \in Steers
  /\ Admits
  /\ k \notin candidateTerminals \cup cancelReservations
  /\ thread[s] \notin threadTransitions
  /\ steerAdmissions' = [steerAdmissions EXCEPT ![k] = @ + 1]
  /\ Goto(s, "steering")
  /\ notify
  /\ UNCHANGED <<ownerVars, terminalVars, threadTransitions, prepareVars, hostVars,
                 callVars, cancelled, queued>>
\* Mutant: the admission is not counted.
ReserveSteerUncounted(s) ==
  LET k == turn[s] IN
  /\ pc[s] = "admitted" /\ s \in Steers
  /\ Admits
  /\ k \notin candidateTerminals \cup interruptReservations \cup cancelReservations
  /\ ~threadTerminalActiveOtherThan(thread[s], k)
  /\ thread[s] \notin threadTransitions
  /\ Goto(s, "steering")
  /\ notify
  /\ UNCHANGED <<ownerVars, terminalVars, steerAdmissions, threadTransitions, prepareVars,
                 hostVars, callVars, cancelled, queued>>
ReserveSteerAdmission(s) ==
  LET k == turn[s] IN
  /\ pc[s] = "admitted" /\ s \in Steers
  /\ Admits
  /\ k \notin candidateTerminals \cup interruptReservations \cup cancelReservations
  /\ ~threadTerminalActiveOtherThan(thread[s], k)
  /\ thread[s] \notin threadTransitions
  /\ steerAdmissions' = [steerAdmissions EXCEPT ![k] = @ + 1]
  /\ Goto(s, "steering")
  /\ notify
  /\ UNCHANGED <<ownerVars, terminalVars, threadTransitions, prepareVars, hostVars,
                 callVars, cancelled, queued>>

\* The steering is durable, or was refused by the store, and its events are out.
ReleaseSteerAdmission(s) ==
  LET k == turn[s] IN
  /\ pc[s] = "steering"
  /\ steerAdmissions' = [steerAdmissions EXCEPT ![k] = @ - 1]
  /\ queued' \in {queued, queued \cup {k}}
  /\ Goto(s, "ending")
  /\ notify
  /\ UNCHANGED <<ownerVars, terminalVars, threadTransitions, prepareVars, hostVars,
                 callVars, cancelled>>

\* CancelRegisteredTurn, when the steering finds the turn's authority invalid.
CancelRegisteredTurn(s) ==
  LET k == turn[s] IN
  /\ pc[s] = "admitted" /\ s \in Steers
  /\ Owned(k) /\ k \notin candidateTerminals
  /\ cancelReservations' = cancelReservations \cup {k}
  /\ target' = [target EXCEPT ![s] = {turnOwners[k]}]
  /\ Goto(s, "cancelling")
  /\ notify
  /\ UNCHANGED <<turnOwners, terminalVars, steerAdmissions, threadTransitions, prepareVars,
                 hostVars, thread, turn, prepared, cancelled, queued>>

\* The cancel functions captured under the lock are called outside it.
CallCancels(p) ==
  /\ pc[p] = "cancelling"
  /\ cancelled' = cancelled \cup target[p]
  /\ target' = [target EXCEPT ![p] = {}]
  /\ Goto(p, CASE p \in Steers -> "ending" [] p \in Interrupts -> "waiting"
               [] p \in Transitions -> "sweeping")
  /\ UNCHANGED <<ownerVars, terminalVars, steerAdmissions, threadTransitions, prepareVars,
                 hostVars, thread, turn, prepared, asleep, queued>>

-------------------------------------------------------------------------------
(* Interrupts: ReserveInterruptTerminalAndWait and the caller's terminal CAS. *)

ReserveInterruptTerminal(i) ==
  LET k == turn[i]
      stops == Owned(k) /\ k \notin candidateTerminals
  IN
  /\ pc[i] = "admitted" /\ i \in Interrupts
  /\ k \notin interruptReservations /\ ~threadTerminalActiveOtherThan(thread[i], k)
  /\ interruptReservations' = interruptReservations \cup {k}
  /\ target' = [target EXCEPT ![i] = IF stops THEN {turnOwners[k]} ELSE {}]
  /\ Goto(i, IF stops THEN "draining" ELSE "waiting")
  /\ notify
  /\ UNCHANGED <<ownerVars, candidateTerminals, candidateTokens, steerAdmissions,
                 threadTransitions, prepareVars, hostVars, thread, turn, prepared,
                 cancelled, queued>>

\* Admitted steering finishes before the execution is cancelled.
DrainSteering(i) ==
  /\ pc[i] = "draining"
  /\ Await(i, ~threadSteerAdmissionActive(thread[i]), "cancelling")
  /\ UNCHANGED <<ownerVars, terminalVars, steerAdmissions, threadTransitions, prepareVars,
                 hostVars, callVars, cancelled, queued>>

\* Mutant: the interrupt only waits for terminal claims and steering.
InterruptOverOwner(i) ==
  /\ pc[i] = "waiting"
  /\ Await(i, turn[i] \notin candidateTerminals /\ ~threadSteerAdmissionActive(thread[i]),
           "held")
  /\ UNCHANGED <<ownerVars, terminalVars, steerAdmissions, threadTransitions, prepareVars,
                 hostVars, callVars, cancelled, queued>>

WaitForOwner(i) ==
  /\ pc[i] = "waiting"
  /\ Await(i, ~Owned(turn[i]) /\ turn[i] \notin candidateTerminals
                /\ ~threadSteerAdmissionActive(thread[i]), "held")
  /\ UNCHANGED <<ownerVars, terminalVars, steerAdmissions, threadTransitions, prepareVars,
                 hostVars, callVars, cancelled, queued>>

\* The interrupt's terminal state is durable, or its request is abandoned.
EndInterrupt(i) ==
  /\ interruptReservations' = interruptReservations \ {turn[i]}
  /\ Goto(i, "ending")
  /\ notify
  /\ UNCHANGED <<ownerVars, candidateTerminals, candidateTokens, steerAdmissions,
                 threadTransitions, prepareVars, hostVars, callVars, cancelled, queued>>
releaseInterruptReservation(i) == pc[i] = "held" /\ EndInterrupt(i)
AbandonInterrupt(i) == pc[i] \in {"draining", "waiting"} /\ EndInterrupt(i)

-------------------------------------------------------------------------------
(* Thread transitions. *)

\* A turn start that changes the security epoch reserves the transition for
\* itself and excludes the turn that it has just registered.
ReserveThreadTransition(m) ==
  \E t \in Threads, x \in Turns \cup {None} :
    /\ pc[m] = "new" /\ m \in Transitions
    /\ x # None => /\ ThreadOf[x] = t /\ Owned(x) /\ pc[turnOwners[x]] = "running"
    /\ shutdown = "no" /\ t \notin threadTransitions
    /\ threadTransitions' = threadTransitions \cup {t}
    /\ thread' = [thread EXCEPT ![m] = t]
    /\ turn' = [turn EXCEPT ![m] = x]
    /\ Goto(m, "sweeping")
    /\ notify
    /\ UNCHANGED <<ownerVars, terminalVars, steerAdmissions, prepareVars, hostVars, target,
                   prepared, cancelled, queued>>

\* A metadata transition takes an idle thread and cancels nothing.
ReserveIdleThreadTransition(m) ==
  \E t \in Threads :
    /\ pc[m] = "new" /\ m \in Transitions
    /\ shutdown = "no" /\ t \notin threadTransitions /\ goalIdle(t)
    /\ threadTransitions' = threadTransitions \cup {t}
    /\ thread' = [thread EXCEPT ![m] = t]
    /\ Goto(m, "quiet")
    /\ notify
    /\ UNCHANGED <<ownerVars, terminalVars, steerAdmissions, prepareVars, hostVars, turn,
                   target, prepared, cancelled, queued>>

\* waitForThreadTurns: one pass of its loop, up to the unlock.  The wake-up
\* channel is read under the lock, before the cancel functions are called.
OwnersToStop(t, x) == { k \in TurnsOf(t) \ {x} : Owned(k) }
threadTurnsActive(t, x) ==
  \/ threadTerminalActiveOtherThan(t, x)
  \/ threadSteerAdmissionActiveOtherThan(t, x)
  \/ OwnersToStop(t, x) # {}
\* Mutant: the loop cancels and returns, without looking a second time.
SweepOnce(m) ==
  LET t == thread[m]
      x == turn[m]
      stop == OwnersToStop(t, x) \ (candidateTerminals \cup cancelReservations)
  IN
  /\ pc[m] = "sweeping"
  /\ cancelled' = cancelled \cup { turnOwners[k] : k \in stop }
  /\ cancelReservations' = cancelReservations \cup stop
  /\ Goto(m, "quiet")
  /\ notify
  /\ UNCHANGED <<turnOwners, terminalVars, steerAdmissions, threadTransitions, prepareVars,
                 hostVars, callVars, queued>>
waitForThreadTurns(m) ==
  LET t == thread[m]
      x == turn[m]
      stop == OwnersToStop(t, x) \ (candidateTerminals \cup cancelReservations)
  IN
  /\ pc[m] = "sweeping" /\ m \notin asleep
  /\ cancelReservations' = cancelReservations \cup stop
  /\ target' = [target EXCEPT ![m] = { turnOwners[k] : k \in stop }]
  /\ IF ~threadTurnsActive(t, x)
       THEN Goto(m, "quiet") /\ UNCHANGED asleep
       ELSE /\ asleep' = (IF stop # {} THEN {} ELSE asleep) \cup {m}
            /\ IF stop # {} THEN Goto(m, "cancelling") ELSE UNCHANGED pc
  /\ UNCHANGED <<turnOwners, terminalVars, steerAdmissions, threadTransitions, prepareVars,
                 hostVars, thread, turn, prepared, cancelled, queued>>

\* Mutant: the release of the transition does not wake the thread's tail.
EndTransitionSilently(m) ==
  /\ threadTransitions' = threadTransitions \ {thread[m]}
  /\ Goto(m, "done")
  /\ asleep' = asleep \ {m}
  /\ UNCHANGED <<ownerVars, terminalVars, steerAdmissions, prepareVars, hostVars, callVars,
                 cancelled, queued>>
EndTransition(m) ==
  /\ threadTransitions' = threadTransitions \ {thread[m]}
  /\ Goto(m, "done")
  /\ notify
  /\ UNCHANGED <<ownerVars, terminalVars, steerAdmissions, prepareVars, hostVars, callVars,
                 cancelled, queued>>
releaseThreadTransition(m) == pc[m] = "quiet" /\ EndTransition(m)
AbandonTransition(m) == pc[m] = "sweeping" /\ EndTransition(m)

-------------------------------------------------------------------------------
(* Shutdown and maintenance, driven by the server. *)

\* BeginShutdown reserves every owner, but only cancels auxiliary operations.
\* It is tried again after an attempt that missed its deadline, or whose later
\* stages failed.
BeginShutdown ==
  /\ HostStops /\ shutdown \in {"no", "swept", "drained"}
  /\ shutdown = "swept" => activeTurnOperations > 0
  /\ shutdown' = "begun"
  /\ cancelReservations' = cancelReservations \cup { k \in Turns : Owned(k) }
  /\ IF \E k \in Turns : Owned(k) THEN notify ELSE UNCHANGED asleep
  /\ cancelled' = cancelled \cup ({ auxiliary[t] : t \in Threads } \ {None})
  /\ UNCHANGED <<turnOwners, terminalVars, steerAdmissions, threadTransitions, prepareVars,
                 maintenance, activeTurnOperations, pc, callVars, queued>>

\* The cancel functions run right after the unlock; nobody looks in between.
CancelAllRegisteredTurns ==
  LET stop == { k \in Turns : Owned(k) } \ candidateTerminals IN
  /\ shutdown = "begun"
  /\ shutdown' = "swept"
  /\ cancelReservations' = cancelReservations \cup stop
  /\ cancelled' = cancelled \cup { turnOwners[k] : k \in stop }
  /\ IF stop # {} THEN notify ELSE UNCHANGED asleep
  /\ UNCHANGED <<turnOwners, terminalVars, steerAdmissions, threadTransitions, prepareVars,
                 maintenance, activeTurnOperations, pc, callVars, queued>>

WaitForTurnOperations ==
  /\ shutdown = "swept" /\ activeTurnOperations = 0
  /\ shutdown' = "drained"
  /\ UNCHANGED <<ownerVars, terminalVars, steerAdmissions, threadTransitions, prepareVars,
                 maintenance, activeTurnOperations, pc, callVars, cancelled, asleep, queued>>

\* Mutant: auxiliary operations, and the count that holds them, are not looked at.
BeginMaintenanceBesideAuxiliary ==
  /\ HostStops /\ Admits
  /\ cancelReservations = {} /\ interruptReservations = {} /\ candidateTerminals = {}
  /\ threadTransitions = {}
  /\ \A k \in Turns : ~Owned(k) /\ candidateTokens[k] = None /\ steerAdmissions[k] = 0
  /\ \A t \in Threads : foregroundPreparing[t].count = 0
  /\ maintenance' = TRUE
  /\ UNCHANGED <<ownerVars, terminalVars, steerAdmissions, threadTransitions, prepareVars,
                 shutdown, activeTurnOperations, pc, callVars, cancelled, asleep, queued>>

BeginMaintenanceIfIdle ==
  /\ HostStops /\ Admits /\ activeTurnOperations = 0
  /\ cancelReservations = {} /\ interruptReservations = {} /\ candidateTerminals = {}
  /\ threadTransitions = {}
  /\ \A k \in Turns : ~Owned(k) /\ candidateTokens[k] = None /\ steerAdmissions[k] = 0
  /\ \A t \in Threads : auxiliary[t] = None /\ foregroundPreparing[t].count = 0
  /\ maintenance' = TRUE
  /\ UNCHANGED <<ownerVars, terminalVars, steerAdmissions, threadTransitions, prepareVars,
                 shutdown, activeTurnOperations, pc, callVars, cancelled, asleep, queued>>

EndMaintenance ==
  /\ maintenance
  /\ maintenance' = FALSE
  /\ UNCHANGED <<ownerVars, terminalVars, steerAdmissions, threadTransitions, prepareVars,
                 shutdown, activeTurnOperations, pc, callVars, cancelled, asleep, queued>>

-------------------------------------------------------------------------------
\* What a goroutine does until it is done; the rest are refusals and retreats.
ExecutionStep(e) ==
  \/ PrepareForeground(e) \/ ForegroundPrepared(e) \/ ReleasePreparation(e)
  \/ RegisterTurnCancelOwned(e) \/ RegisterMeetsAuxiliary(e)
  \/ RegisterTurnCancelAfterThreadTail(e)
  \/ AcquireCandidateTerminalForLoop(e) \/ AcquireCandidateTerminal(e) \/ ConsumeToken(e)
  \/ PromoteSteering(e)
SteerStep(s) ==
  ReserveSteerAdmission(s) \/ CancelRegisteredTurn(s)
InterruptStep(i) ==
  ReserveInterruptTerminal(i) \/ DrainSteering(i) \/ WaitForOwner(i)
TransitionStep(m) ==
  ReserveThreadTransition(m) \/ ReserveIdleThreadTransition(m) \/ waitForThreadTurns(m)
Step(p) ==
  \/ BeginTurnOperation(p) \/ finishTurnOperation(p)
  \/ ExecutionStep(p) \/ SteerStep(p) \/ InterruptStep(p) \/ TransitionStep(p)
  \/ BeginAuxiliary(p) \/ EndAuxiliary(p) \/ ReleaseTurnExecutionOwner(p)
  \/ CloseTurn(p) \/ AcquireHostTerminal(p) \/ waitForSteerAdmissions(p) \/ Published(p)
  \/ ReleaseSteerAdmission(p) \/ CallCancels(p) \/ releaseInterruptReservation(p)
  \/ releaseThreadTransition(p)
Retreat(p) ==
  GiveUp(p) \/ AbandonClaim(p) \/ AbandonInterrupt(p) \/ AbandonTransition(p)
HostStep ==
  \/ BeginShutdown \/ CancelAllRegisteredTurns \/ WaitForTurnOperations
  \/ BeginMaintenanceIfIdle \/ EndMaintenance

Next == (\E p \in Proc : Step(p) \/ Retreat(p)) \/ HostStep

Spec == Init /\ [][Next]_vars

\* Every goroutine goes on until it is done, refusals included: a waiter that
\* has been notified looks again, an execution returns, cancelled or not, and
\* holders release.  Nobody is made to abandon a wait, a claim or a
\* reservation, and the host need neither shut down nor open a window.
Refused(p) == pc[p] \in {"admitted", "prepared", "tail", "closing"} /\ p \notin asleep /\ GiveUp(p)
FairSpec == /\ Spec
            /\ \A p \in Proc : WF_vars(Step(p) \/ Refused(p))
            /\ WF_vars(CancelAllRegisteredTurns) /\ WF_vars(WaitForTurnOperations)
            /\ WF_vars(EndMaintenance)

-------------------------------------------------------------------------------
PCs == {"new", "admitted", "preparing", "prepared", "tail", "running", "claiming", "claimed",
        "hosting", "publishing", "settling", "settled", "failed", "auxiliary", "steering",
        "cancelling", "draining", "waiting", "held", "sweeping", "quiet", "closing", "ending", "done"}

\* Every field of the controller and of the calls keeps its type.
TypeOK ==
  /\ turnOwners \in [Turns -> Executions \cup {None}]
  /\ cancelReservations \subseteq Turns /\ interruptReservations \subseteq Turns
  /\ candidateTerminals \subseteq Turns
  /\ candidateTokens \in [Turns -> Executions \cup {None}]
  /\ steerAdmissions \in [Turns -> Nat] /\ threadTransitions \subseteq Threads
  /\ auxiliary \in [Threads -> Auxiliaries \cup {None}]
  /\ foregroundPreparing \in [Threads -> [count : Nat, current : Executions \cup {None}]]
  /\ shutdown \in {"no", "begun", "swept", "drained"} /\ maintenance \in BOOLEAN
  /\ activeTurnOperations \in Nat
  /\ pc \in [Proc -> PCs]
  /\ thread \in [Proc -> Threads \cup {None}] /\ turn \in [Proc -> Turns \cup {None}]
  /\ target \in [Proc -> SUBSET (Executions \cup Auxiliaries)]
  /\ prepared \subseteq Executions
  /\ cancelled \subseteq Executions \cup Auxiliaries
  /\ asleep \subseteq Proc /\ queued \subseteq Turns

\* Whoever may write a terminal state now: a granted claim or a granted interrupt.
HoldsTerminal(p) == pc[p] \in {"claimed", "publishing", "settling", "held"}

\* At most one goroutine of a thread may publish a terminal state, whether it
\* got there by a loop's claim, a fixed terminal or an interrupt. A granted
\* interrupt publishes for a turn that nobody executes any more, and nobody
\* starts to execute it until the reservation is released.
TerminalExclusive ==
  /\ \A p, q \in Proc : HoldsTerminal(p) /\ HoldsTerminal(q) /\ thread[p] = thread[q] => p = q
  /\ \A i \in Interrupts : pc[i] = "held" => ~Owned(turn[i])

\* While a goroutine may publish a terminal state, no admitted steering of
\* its thread is still being written.
SteersDrained ==
  \A p \in Proc : HoldsTerminal(p) => ~threadSteerAdmissionActive(thread[p])

\* An auxiliary operation and a turn execution never share a thread.
AuxiliaryAlone ==
  \A t \in Threads : auxiliary[t] # None => \A k \in TurnsOf(t) : ~Owned(k)

\* While an auxiliary operation runs, no second turn start of its thread
\* believes to have waited it out.
AuxiliaryServesOne ==
  \A t \in Threads : auxiliary[t] # None =>
    Cardinality({ e \in Executions : thread[e] = t /\ pc[e] \in {"prepared", "tail"} }) <= 1

\* A quiescent transition has its thread for itself: no execution but the turn
\* it was reserved for, and no steering of any other turn.
QuietTransition ==
  \A m \in Transitions : pc[m] = "quiet" =>
    \A k \in TurnsOf(thread[m]) \ {turn[m]} : ~Owned(k) /\ steerAdmissions[k] = 0

\* A cancellation reservation never outlives the execution it was made for, so
\* it cannot refuse the next execution of the turn.
ReservationsOwned == \A k \in cancelReservations : Owned(k)

\* Once the shutdown has waited for the turn operations, and throughout a
\* maintenance window, nothing is left that executes, assists, steers or
\* interrupts a turn, and nothing comes back.
Quiesced ==
  shutdown = "drained" \/ maintenance =>
    /\ interruptReservations = {}
    /\ \A k \in Turns : ~Owned(k) /\ steerAdmissions[k] = 0
    /\ \A t \in Threads : auxiliary[t] = None

\* No call waits for ever for a change of the turn state: no wake-up is lost
\* and the waiters do not wait for each other.
Waits(p) ==
  pc[p] \in {"preparing", "tail", "claiming", "hosting", "draining", "waiting", "sweeping"}
WaitersSettle == \A p \in Proc : Waits(p) ~> ~Waits(p)

\* A shutdown that has begun drains. A turn start that waits for an auxiliary
\* operation gets past it: no preparation keeps auxiliary operations and
\* maintenance out for ever.
ShutdownSettles ==
  /\ shutdown = "begun" ~> shutdown = "drained"
  /\ \A t \in Threads : foregroundPreparing[t].count > 0 ~> foregroundPreparing[t].count = 0
===============================================================================
