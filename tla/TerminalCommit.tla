---------------------------- MODULE TerminalCommit ----------------------------
(***************************************************************************)
(* How the turns of a case thread end: the transaction that moves a final  *)
(* from the private store into the public turn, and what a restart makes   *)
(* of one that was cut short.                                              *)
(*                                                                         *)
(* A final is stored privately first. The coordinator then writes, under   *)
(* its mutex, the terminal intent, the closure of the provider turn, the   *)
(* public turn, the disposition of the final and the disposition of the    *)
(* turn. Each store is durable on its own; a write may fail before or      *)
(* after it has taken effect, and the process may stop between two. At the *)
(* next start everything found is classified: what cannot come from a cut  *)
(* transaction makes the start fail, a boundary final without facts is     *)
(* resumed, a final that claims facts is only audited, and a turn that is  *)
(* still active is ended with a final of its own.                          *)
(***************************************************************************)
EXTENDS Naturals, FiniteSets

CONSTANTS
  Finals,      \* the finals that may be built, one per attempt to end a turn
  Facts,       \* those that state facts of the case; the others are boundaries
  NoFinal,     \* no final
  MaxTurns,    \* bound: how many turns are started
  MaxFaults,   \* bound: how many writes report an error
  MaxCrashes   \* bound: how often the process stops

ASSUME FinalAssumption == Facts \subseteq Finals /\ NoFinal \notin Finals
ASSUME BoundAssumption == {MaxTurns, MaxFaults, MaxCrashes} \subseteq Nat

Turns == 1 .. MaxTurns

VARIABLES
  current,      \* the latest turn: the thread's current security context
  turnOf,       \* turnOf[f]: the turn final f was built for, 0 when it is not built
  privateFinals, intents, closures, winners, accepted, terminals,  \* the stores
  phase,        \* "up", "down", "recovering", or "refused": the start has failed
  pc,           \* pc[f]: how far the attempt with final f is
  resumable,    \* the finals the running recovery has yet to resume
  faults, crashes  \* counted up to their bounds

stores == <<privateFinals, intents, closures, winners, accepted, terminals>>
process == <<phase, pc, resumable>>
vars == <<current, turnOf, stores, process, faults, crashes>>

\* The frozen context of the final is still the context of its thread.
Current(f) == turnOf[f] = current

\* The public turn is not over.
Active(t) == t > 0 /\ winners[t] = NoFinal

Init ==
  /\ current = 0
  /\ turnOf = [f \in Finals |-> 0]
  /\ privateFinals = {}
  /\ intents = [t \in Turns |-> NoFinal]
  /\ closures = {}
  /\ winners = [t \in Turns |-> NoFinal]
  /\ accepted = {}
  /\ terminals = [t \in Turns |-> NoFinal]
  /\ phase = "up"
  /\ pc = [f \in Finals |-> "idle"]
  /\ resumable = {}
  /\ faults = 0
  /\ crashes = 0

-----------------------------------------------------------------------------
(* Writes that may fail *)

\* "ok": the write took effect; "lost": it did not and reports an error;
\* "late": it did and reports an error.
Outcomes == {"ok", "lost", "late"}
Reported(o) ==
  /\ o # "ok" => faults < MaxFaults
  /\ faults' = faults + (IF o = "ok" THEN 0 ELSE 1)

\* The attempt with f returns with an error, or goes on. An error of the running
\* recovery, or of the abort of a stale turn, is an error of the whole start.
Return(f, error, next) ==
  /\ pc' = [pc EXCEPT ![f] = IF error THEN "idle" ELSE next]
  /\ phase' = IF error /\ phase = "recovering" THEN "down" ELSE phase
  /\ resumable' = IF error THEN {} ELSE resumable

\* One write of the transaction and what the caller is told of it.
Step(f, from, o, next) ==
  /\ pc[f] = from
  /\ Reported(o)
  /\ Return(f, o # "ok", next)
  /\ UNCHANGED <<current, turnOf, crashes>>

-----------------------------------------------------------------------------
(* A turn, and the finals built for it *)

\* A thread whose turn is running takes no other one.
StartTurn ==
  /\ phase = "up"
  /\ current < MaxTurns
  /\ current > 0 => ~Active(current)
  /\ current' = current + 1
  /\ UNCHANGED <<turnOf, stores, process, faults, crashes>>

\* The loop, its fallback, an interrupt or a failing start builds a final for
\* the running turn; they do not know of each other's.
Build(f) ==
  /\ phase = "up"
  /\ pc[f] = "idle" /\ f \notin privateFinals
  /\ Active(current)
  /\ turnOf' = [turnOf EXCEPT ![f] = current]
  /\ pc' = [pc EXCEPT ![f] = "built"]
  /\ UNCHANGED <<current, stores, phase, resumable, faults, crashes>>

\* Mutant: a preparation without an intent does not count.
OtherIntended(f) == \E g \in privateFinals \ {f} : turnOf[g] = turnOf[f] /\ intents[turnOf[f]] = g
\* Another final is already prepared for the turn.
OtherPreparation(f) == \E g \in privateFinals \ {f} : turnOf[g] = turnOf[f]
\* The final is stored, unless its turn has another one.
AdmitPrivateFinal(f, o) ==
  /\ pc[f] = "built"
  /\ ~OtherPreparation(f)
  /\ Reported(o)
  /\ privateFinals' = IF o = "lost" THEN privateFinals ELSE privateFinals \cup {f}
  /\ turnOf' = IF o = "lost" THEN [turnOf EXCEPT ![f] = 0] ELSE turnOf
  /\ Return(f, o # "ok", "stored")
  /\ UNCHANGED <<current, intents, closures, winners, accepted, terminals, crashes>>

\* It has one: the live caller gets an error, and so does the start whose
\* stale turn cannot be ended.
RefusePrivateFinal(f) ==
  /\ pc[f] = "built"
  /\ OtherPreparation(f)
  /\ pc' = [pc EXCEPT ![f] = "idle"]
  /\ turnOf' = [turnOf EXCEPT ![f] = 0]
  /\ phase' = IF phase = "recovering" THEN "refused" ELSE phase
  /\ UNCHANGED <<current, stores, resumable, faults, crashes>>

-----------------------------------------------------------------------------
(* The transaction, under the mutex of the coordinator *)

Within == {"intent", "closure", "public", "accepted", "terminal"}
Idle == \A f \in Finals : pc[f] \notin Within

\* What is read before the first write fits the final.
MayCommit(f) ==
  /\ f \in privateFinals
  /\ Current(f)
  /\ winners[turnOf[f]] \in {NoFinal, f}
  /\ winners[turnOf[f]] = f => intents[turnOf[f]] # NoFinal

\* Mutant: the transaction does not take the mutex.
EnterBeside(f) ==
  /\ pc[f] = "stored"
  /\ Return(f, ~MayCommit(f), "intent")
  /\ UNCHANGED <<current, turnOf, stores, faults, crashes>>
Enter(f) ==
  /\ pc[f] = "stored"
  /\ Idle
  /\ Return(f, ~MayCommit(f), "intent")
  /\ UNCHANGED <<current, turnOf, stores, faults, crashes>>

\* The intent of the turn names the final; an intent that is there is kept.
EnsureIntent(f, o) ==
  LET t == turnOf[f] IN
  /\ pc[f] = "intent"
  /\ Reported(o)
  /\ intents' = [intents EXCEPT ![t] = IF @ = NoFinal /\ o # "lost" THEN f ELSE @]
  /\ Return(f, o # "ok" \/ intents'[t] # f, "closure")
  /\ UNCHANGED <<current, turnOf, privateFinals, closures, winners, accepted, terminals, crashes>>

\* Mutant: a failed closure does not stop the transaction.
CloseTurnBestEffort(f, o) ==
  /\ pc[f] = "closure"
  /\ Reported(o)
  /\ Return(f, FALSE, "public")
  /\ closures' = IF o = "lost" THEN closures ELSE closures \cup {turnOf[f]}
  /\ UNCHANGED <<current, turnOf, privateFinals, intents, winners, accepted, terminals, crashes>>
\* The provider turn is closed with the reason of the intent, once.
CloseTurn(f, o) ==
  /\ Step(f, "closure", o, "public")
  /\ closures' = IF o = "lost" THEN closures ELSE closures \cup {turnOf[f]}
  /\ UNCHANGED <<privateFinals, intents, winners, accepted, terminals>>

\* The public turn takes the final if the turn is active and its context is
\* current. The error of the write counts only if the turn then read back has
\* not got the final.
PersistAcceptedFinal(f, o) ==
  LET t == turnOf[f] IN
  /\ pc[f] = "public"
  /\ Reported(o)
  /\ winners' = [winners EXCEPT ![t] = IF @ = NoFinal /\ Current(f) /\ o # "lost" THEN f ELSE @]
  /\ Return(f, winners'[t] # f, "accepted")
  /\ UNCHANGED <<current, turnOf, privateFinals, intents, closures, accepted, terminals, crashes>>

EnsureAcceptedDisposition(f, o) ==
  /\ Step(f, "accepted", o, "terminal")
  /\ accepted' = IF o = "lost" THEN accepted ELSE accepted \cup {f}
  /\ UNCHANGED <<privateFinals, intents, closures, winners, terminals>>

EnsureTerminalDisposition(f, o) ==
  /\ Step(f, "terminal", o, "idle")
  /\ terminals' = [terminals EXCEPT ![turnOf[f]] = IF o = "lost" THEN @ ELSE f]
  /\ UNCHANGED <<privateFinals, intents, closures, winners, accepted>>

Attempt(f) ==
  \/ \E o \in Outcomes :
       \/ AdmitPrivateFinal(f, o) \/ EnsureIntent(f, o) \/ CloseTurn(f, o)
       \/ PersistAcceptedFinal(f, o)
       \/ EnsureAcceptedDisposition(f, o) \/ EnsureTerminalDisposition(f, o)
  \/ RefusePrivateFinal(f)
  \/ Enter(f)

-----------------------------------------------------------------------------
(* A restart *)

Crash ==
  /\ phase \in {"up", "recovering"}
  /\ crashes < MaxCrashes
  /\ phase' = "down"
  /\ pc' = [f \in Finals |-> "idle"]
  /\ turnOf' = [f \in Finals |-> IF f \in privateFinals THEN turnOf[f] ELSE 0]
  /\ resumable' = {}
  /\ crashes' = crashes + 1
  /\ UNCHANGED <<current, stores, faults>>

Won(f) == winners[turnOf[f]] = f

\* All records of the transaction of f.
Complete(f) ==
  LET t == turnOf[f] IN
  /\ f \in privateFinals /\ intents[t] = f /\ t \in closures
  /\ Won(f) /\ f \in accepted /\ terminals[t] = f

\* A record names a final that is not stored.
Orphan ==
  \/ ~(accepted \subseteq privateFinals)
  \/ \E t \in Turns : ~({winners[t], intents[t], terminals[t]} \subseteq privateFinals \cup {NoFinal})

\* Records that no prefix of the transaction leaves.
Detached(f) ==
  LET t == turnOf[f] IN
  \/ Won(f) /\ intents[t] = f /\ t \notin closures
  \/ ~Won(f) /\ (f \in accepted \/ terminals[t] = f)
  \/ terminals[t] = f /\ (intents[t] # f \/ t \notin closures \/ f \notin accepted)
\* A boundary final is checked more closely: it is the one that is resumed.
DetachedBoundary(f) ==
  LET t == turnOf[f] IN
  \/ Won(f) /\ intents[t] = NoFinal /\ (t \in closures \/ f \in accepted)
  \/ Won(f) /\ intents[t] \notin {NoFinal, f}
  \/ ~Won(f) /\ ~Active(t) /\ intents[t] = f
  \/ Active(t) /\ (~Current(f) \/ intents[t] \notin {NoFinal, f})
  \/ Active(t) /\ t \in closures /\ intents[t] = NoFinal
  \/ Active(t) /\ \E g \in privateFinals \ (Facts \cup {f}) : turnOf[g] = t

\* A public winner without an intent is from before the transaction existed.
Legacy(f) == Won(f) /\ intents[turnOf[f]] = NoFinal

\* Mutant: only finals without a public winner are unfinished.
UnfinishedActive == { f \in privateFinals \ Facts : Active(turnOf[f]) }
\* The boundary finals that are neither complete, nor losers, nor legacy.
Unfinished ==
  { f \in privateFinals \ Facts : (Won(f) \/ Active(turnOf[f])) /\ ~Complete(f) /\ ~Legacy(f) }

\* A won final whose thread has moved on since is not resumed.
Historical == { f \in Unfinished : ~Current(f) }

Refuses ==
  \/ Orphan
  \/ \E f \in privateFinals : Detached(f) \/ (f \notin Facts /\ DetachedBoundary(f))
  \/ Historical # {}

\* The start classifies what it finds in the stores, and changes nothing.
Recover ==
  /\ phase = "down"
  /\ phase' = IF Refuses THEN "refused" ELSE "recovering"
  /\ resumable' = IF Refuses THEN {} ELSE Unfinished
  /\ UNCHANGED <<current, turnOf, stores, pc, faults, crashes>>

\* The finals to resume go through the same transaction, one after the other.
Resume(f) ==
  /\ phase = "recovering"
  /\ f \in resumable
  /\ \A g \in Finals : pc[g] = "idle"
  /\ pc' = [pc EXCEPT ![f] = "stored"]
  /\ resumable' = resumable \ {f}
  /\ UNCHANGED <<current, turnOf, stores, phase, faults, crashes>>

Resumed == phase = "recovering" /\ resumable = {} /\ \A f \in Finals : pc[f] = "idle"

\* A turn that is still active is ended with a boundary final of its own.
AbortStale(f) ==
  /\ Resumed
  /\ Active(current)
  /\ f \notin privateFinals \cup Facts
  /\ turnOf' = [turnOf EXCEPT ![f] = current]
  /\ pc' = [pc EXCEPT ![f] = "built"]
  /\ UNCHANGED <<current, stores, phase, resumable, faults, crashes>>

\* The start is over. An active turn stays so only when it waits at a gate
\* that was restored; a turn with a final on the way does not.
Serve ==
  /\ Resumed
  /\ Active(current) => \A f \in privateFinals : turnOf[f] # current
  /\ phase' = "up"
  /\ UNCHANGED <<current, turnOf, stores, pc, resumable, faults, crashes>>

Restart == Recover \/ Serve \/ \E f \in Finals : Resume(f) \/ AbortStale(f)

Next ==
  \/ StartTurn
  \/ \E f \in Finals : Build(f) \/ Attempt(f)
  \/ Crash
  \/ Restart

\* The goroutines run, a process that stopped is started again, and its start
\* goes through; nobody has to start a turn or to end one.
Fairness ==
  /\ \A f \in Finals : WF_vars(Attempt(f))
  /\ WF_vars(Restart)

Spec == Init /\ [][Next]_vars /\ Fairness

-----------------------------------------------------------------------------
(* Properties *)

\* The type of the state. The mutex of the coordinator admits one transaction,
\* only stored finals enter it or are resumed, and none of those with facts is.
TypeOK ==
  /\ current \in 0 .. MaxTurns
  /\ turnOf \in [Finals -> 0 .. MaxTurns]
  /\ privateFinals \subseteq Finals /\ accepted \subseteq privateFinals
  /\ {intents, winners, terminals} \subseteq [Turns -> privateFinals \cup {NoFinal}]
  /\ closures \subseteq Turns
  /\ phase \in {"up", "down", "recovering", "refused"}
  /\ pc \in [Finals -> {"idle", "built", "stored"} \cup Within]
  /\ Cardinality({ f \in Finals : pc[f] \in Within }) <= 1
  /\ \A f \in Finals : pc[f] \in Within \cup {"stored"} => f \in privateFinals
  /\ \A f \in Finals : (pc[f] # "idle" \/ f \in privateFinals) <=> turnOf[f] > 0
  /\ resumable \subseteq privateFinals \ Facts
  /\ resumable # {} => phase = "recovering"
  /\ faults \in 0 .. MaxFaults /\ crashes \in 0 .. MaxCrashes

\* The two states the live code can leave and the next start cannot take: a
\* final with facts is prepared and its turn is not over (it is neither resumed
\* nor may a second final end the turn), and a turn is over whose dispositions
\* were not written before the next turn began.
Stranded ==
  \/ \E f \in privateFinals \cap Facts : Active(turnOf[f])
  \/ \E f \in privateFinals \ Facts : Won(f) /\ ~Complete(f) /\ ~Current(f)

\* A start refuses the stores in those two states only: whatever else a failed
\* write or a crash leaves, the inventory accepts and the start repairs.
RefusesOnlyStranded == phase = "refused" => Stranded

\* A boundary final that was stored when the process stopped gets all of its
\* records, whatever else fails meanwhile.
PreparedCompletes ==
  \A f \in Finals \ Facts :
    (phase = "down" /\ f \in privateFinals /\ ~Stranded) ~> Complete(f)

\* The stores implement the promise: a turn has the final that was stored for
\* it, and as many of its records as follow one another without a gap.
OwnerOf(t) ==
  IF \E f \in privateFinals : turnOf[f] = t
  THEN CHOOSE f \in privateFinals : turnOf[f] = t ELSE NoFinal
Records(t) ==
  LET f == OwnerOf(t) IN
  <<f # NoFinal, f # NoFinal /\ intents[t] = f, t \in closures,
    f # NoFinal /\ winners[t] = f, f \in accepted, f # NoFinal /\ terminals[t] = f>>
\* Their number, or no stage at all when one is missing before another.
StageOf(t) ==
  LET r == Records(t)
      n == Cardinality({ i \in 1 .. 6 : r[i] })
  IN  IF \A i \in 1 .. n : r[i] THEN n ELSE 7

Decision == INSTANCE TurnDecision WITH
  started <- current, owner <- [t \in Turns |-> OwnerOf(t)], stage <- [t \in Turns |-> StageOf(t)]

\* One final per turn, its records in order and never taken back, and no turn
\* before the last one is publicly over.
ImplementsDecision == Decision!Spec
=============================================================================
