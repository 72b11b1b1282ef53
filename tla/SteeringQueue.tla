---------------------------- MODULE SteeringQueue ----------------------------
(***************************************************************************)
(* Messages that reach a turn while it runs. They are stored in the turn   *)
(* as pending entries; between two provider calls, and once more under the *)
(* terminal claim, the loop promotes a prefix of them to items of the      *)
(* transcript and puts these into the conversation that the next provider  *)
(* call shows to the model. The conversation does not only grow: a batch   *)
(* of ordinary work goes on from the lane of ordinary messages and leaves  *)
(* behind what works on case data. The terminal update cancels what is     *)
(* still pending.                                                          *)
(*                                                                         *)
(* An execution can end while its turn still runs: it waits for a user's   *)
(* answer, or could not store the end of the turn.                         *)
(*                                                                         *)
(* There are three senders. A client steers with a draft that keeps its id *)
(* until it was accepted, over several turns if need be. A late answer to  *)
(* a question is bound to its question and can be withdrawn. A parent      *)
(* steers the job that runs the thread's first turn: its message is queued *)
(* in the job's record first, even before the turn exists, then stored in  *)
(* the turn, and settled in the record when it was promoted. Record and    *)
(* thread are two stores. The process may stop between any two steps.      *)
(***************************************************************************)
EXTENDS Naturals, FiniteSets, SequencesExt, Subsequences

CONSTANTS
  Drafts,      \* messages of a client
  Replies,     \* attempts to answer one question late
  JobSteers,   \* messages of the job's parent
  Protected,   \* the messages that work on case data; a batch never mixes
  CaseTurns,   \* the turns whose own prompt works on case data
  MaxTurns,    \* bound: how many turns are started
  MaxSends,    \* bound: how many calls send a message
  MaxCrashes   \* bound: how often the process stops

Messages == Drafts \cup Replies \cup JobSteers

ASSUME SenderAssumption ==
  /\ Drafts \cap Replies = {} /\ Drafts \cap JobSteers = {} /\ Replies \cap JobSteers = {}
  /\ Protected \subseteq Messages /\ IsFiniteSet(JobSteers)
ASSUME BoundAssumption == {MaxTurns, MaxSends, MaxCrashes} \subseteq Nat

VARIABLES
  turns,    \* the thread: per turn its status, its entries in order, their status, its items
  job,      \* the job's record: the status of each message, whether the job is over
  given,    \* given[t]: the conversation of the last provider call, all messages any call
            \* showed, and whether the source of case data was lost
  sender,   \* sender[m]: how far the call that sends m is
  seen,     \* seen[j]: the job's messages when the call got its authority
  sends,    \* how many calls sent a message
  loop,     \* the execution of the last turn
  phase,    \* "up", "down" or "refused": the start has failed
  crashes   \* counted up to its bound

callers == <<sender, seen, sends>>
process == <<phase, crashes>>
vars == <<turns, job, given, callers, loop, process>>

EntryStates == {"none", "pending", "promoted", "cancelled", "withdrawn"}
SteerStates == {"none", "waiting", "queued", "admitted", "rejected", "expired"}

NewTurn == [status |-> "running", entries |-> <<>>,
            state |-> [m \in Messages |-> "none"], items |-> <<>>]
NoSteers == [j \in JobSteers |-> "none"]

\* The conversation: what the next call shows, the lane of ordinary work in it,
\* whether the step works on case data, and the batch that began such a step.
NoChat == [talk |-> <<>>, lane |-> <<>>, casework |-> FALSE, step |-> <<>>]

\* The execution: where it is, the terminal it has claimed, the batch in hand,
\* the batch that was stale, the job's messages when preparation read them,
\* whether the job's parent holds it, and its conversation.
NoLoop == [pc |-> "none", claim |-> "none", batch |-> <<>>, stale |-> <<>>, known |-> NoSteers,
           held |-> FALSE, chat |-> NoChat]

current == Len(turns)
Running == current > 0 /\ turns[current].status = "running"
StateIn(t, m) == turns[t].state[m]
Waits(t) == {m \in Messages : StateIn(t, m) = "pending"}
Pending(t) == Among(turns[t].entries, Waits(t))

Init ==
  /\ turns = <<>>
  /\ job = [steers |-> NoSteers, over |-> FALSE]
  /\ given = <<>>
  /\ sender = [m \in Messages |-> "idle"]
  /\ seen = [j \in JobSteers |-> NoSteers]
  /\ sends = 0
  /\ loop = NoLoop
  /\ phase = "up"
  /\ crashes = 0

-----------------------------------------------------------------------------
(* The store of the thread *)

\* Mutant: what was promoted may come again.
Repeats(m) == StateIn(current, m) # "pending"

\* The turn must still be the running one. It is the turn that admitted the call,
\* whose end waits for it. Every id is stored once.
Fresh(m) == StateIn(current, m) = "none"
AddEntry(m) ==
  /\ Running
  /\ Fresh(m)
  /\ turns' = [turns EXCEPT ![current].entries = Append(@, m), ![current].state[m] = "pending"]

\* Mutant: the terminal update forgets them.
KeepPending(state) == state

\* A final state for the pending entries, with the turn's.
CancelPending(state) == [m \in Messages |-> IF state[m] = "pending" THEN "cancelled" ELSE state[m]]
EndTurn(status) ==
  turns' = [turns EXCEPT ![current].status = status, ![current].state = CancelPending(@)]

-----------------------------------------------------------------------------
(* Sending to the running turn *)

\* The call is admitted unless a terminal claim or an interrupt is there. From
\* now on they wait for it.
ReserveSteer(m) ==
  /\ phase = "up" /\ Running
  /\ sender[m] = "idle"
  /\ sends < MaxSends
  /\ loop.claim = "none"
  /\ m \in JobSteers => current = 1 /\ ~job.over
  /\ sender' = [sender EXCEPT ![m] = "reserved"]
  /\ sends' = sends + 1
  /\ seen' = IF m \in JobSteers THEN [seen EXCEPT ![m] = job.steers] ELSE seen
  /\ UNCHANGED <<turns, job, given, loop, process>>

\* The call returns, with an answer or an error that left nothing behind.
Return(m) ==
  /\ sender' = [sender EXCEPT ![m] = "idle"]
  /\ seen' = IF m \in JobSteers THEN [seen EXCEPT ![m] = NoSteers] ELSE seen
  /\ UNCHANGED sends

\* A draft is added if this turn does not have its id. Each request has a stamp
\* of its own, so one that has it is refused even when it repeats an earlier one.
AdmitDraft(m) ==
  /\ m \in Drafts
  /\ sender[m] = "reserved"
  /\ AddEntry(m)
  /\ Return(m)
  /\ UNCHANGED <<job, given, loop, process>>

\* Mutant: looks in this turn only.
FreeHere(m) == \A r \in Replies : StateIn(current, r) \notin {"pending", "promoted"}

\* A reply is looked for in every turn: its question takes one at a time, and
\* an attempt that was withdrawn or cancelled is not taken again.
Free(m) ==
  \A t \in 1 .. current :
    /\ StateIn(t, m) = "none"
    /\ \A r \in Replies : StateIn(t, r) \notin {"pending", "promoted"}
AdmitReply(m) ==
  /\ m \in Replies
  /\ sender[m] = "reserved"
  /\ Free(m)
  /\ AddEntry(m)
  /\ Return(m)
  /\ UNCHANGED <<job, given, loop, process>>

\* The call returns without a change of the thread.
RefuseSteer(m) ==
  /\ sender[m] \in {"reserved", "before", "rejecting"}
  /\ Return(m)
  /\ UNCHANGED <<turns, job, given, loop, process>>

\* The sender takes its reply back. It needs no admission.
DiscardReply(m) ==
  /\ phase = "up" /\ Running
  /\ m \in Replies
  /\ StateIn(current, m) = "pending"
  /\ turns' = [turns EXCEPT ![current].state[m] = "withdrawn"]
  /\ UNCHANGED <<job, given, callers, loop, process>>

-----------------------------------------------------------------------------
(* Sending to the job *)

\* Before the first turn the call holds the boundary of the job's start.
ReserveBeforeTurn(j) ==
  /\ phase = "up" /\ current = 0
  /\ j \in JobSteers /\ ~job.over
  /\ sends < MaxSends
  /\ \A k \in JobSteers : sender[k] # "before"
  /\ sender[j] = "idle"
  /\ sender' = [sender EXCEPT ![j] = "before"]
  /\ sends' = sends + 1
  /\ seen' = [seen EXCEPT ![j] = job.steers]
  /\ UNCHANGED <<turns, job, given, loop, process>>

\* The record is the one the authority was given for, and the message is new
\* or the same as one still queued.
MayQueue(j, same) ==
  /\ ~job.over
  /\ job.steers = seen[j]
  /\ job.steers[j] \in {"none", same}

QueueBeforeTurn(j) ==
  /\ sender[j] = "before"
  /\ MayQueue(j, "waiting")
  /\ job' = [job EXCEPT !.steers[j] = "waiting"]
  /\ Return(j)
  /\ UNCHANGED <<turns, given, loop, process>>

QueueSteer(j) ==
  /\ j \in JobSteers
  /\ sender[j] = "reserved"
  /\ MayQueue(j, "queued")
  /\ job' = [job EXCEPT !.steers[j] = "queued"]
  /\ sender' = [sender EXCEPT ![j] = "queued"]
  /\ UNCHANGED <<turns, given, seen, sends, loop, process>>

\* The queued message goes into the turn, or is there already as it was sent.
\* The store may report an error all the same.
AdmitSteer(j) ==
  /\ sender[j] = "queued"
  /\ \/ AddEntry(j)
     \/ StateIn(current, j) = "pending" /\ UNCHANGED turns
  /\ \/ Return(j)
     \/ sender' = [sender EXCEPT ![j] = "rejecting"] /\ UNCHANGED <<seen, sends>>
  /\ UNCHANGED <<job, given, loop, process>>

\* It does not: a write failed, or the entry was promoted in the meantime.
FailSteer(j) ==
  /\ sender[j] = "queued"
  /\ sender' = [sender EXCEPT ![j] = "rejecting"]
  /\ UNCHANGED <<turns, job, given, seen, sends, loop, process>>

\* After an error of the thread's store the job's message is rejected, if it
\* is still queued.
RejectSteer(j) ==
  /\ sender[j] = "rejecting"
  /\ job.steers[j] = "queued"
  /\ job' = [job EXCEPT !.steers[j] = "rejected"]
  /\ Return(j)
  /\ UNCHANGED <<turns, given, loop, process>>

\* The job ends or is cancelled: what is queued expires.
EndJob ==
  /\ phase = "up"
  /\ ~job.over
  /\ job' = [steers |-> [j \in JobSteers |->
               IF job.steers[j] \in {"waiting", "queued"} THEN "expired" ELSE job.steers[j]],
             over |-> TRUE]
  /\ UNCHANGED <<turns, given, callers, loop, process>>

-----------------------------------------------------------------------------
(* The start of a turn *)

At(pc) == phase = "up" /\ loop.pc = pc
Goes(next) == loop' = next /\ UNCHANGED <<callers, process>>

\* The first turn is the job's, and waits for a message that is being queued. The
\* source of a turn that works on case data may be missing from the start.
StartTurn ==
  /\ At("none")
  /\ current < MaxTurns
  /\ current = 0 => ~job.over /\ \A j \in JobSteers : sender[j] # "before"
  /\ turns' = Append(turns, NewTurn)
  /\ \E lost \in IF current + 1 \in CaseTurns THEN BOOLEAN ELSE {FALSE} :
       given' = Append(given, [last |-> <<>>, shown |-> {}, lost |-> lost])
  /\ Goes([NoLoop EXCEPT !.pc = IF current = 0 THEN "load" ELSE "enter",
                         !.chat.casework = current + 1 \in CaseTurns])
  /\ UNCHANGED job

\* The record is read once; its open messages are prepared one by one (in the
\* order of the record; the model takes any).
LoadSteers ==
  /\ At("load")
  /\ \E order \in SetToSeqs({j \in JobSteers : job.steers[j] \in {"waiting", "queued"}}) :
       Goes([loop EXCEPT !.pc = "prepare", !.batch = order, !.known = job.steers])
  /\ UNCHANGED <<turns, job, given>>

\* A message queued before the turn is bound to it. The record must be the one
\* that was read, but for what the preparation did itself.
BindSteer ==
  /\ At("prepare") /\ loop.batch # <<>>
  /\ loop.claim = "none" /\ ~job.over /\ job.steers = loop.known
  /\ job' = [job EXCEPT !.steers[Head(loop.batch)] = "queued"]
  /\ Goes([loop EXCEPT !.pc = "bound", !.known = job'.steers])
  /\ UNCHANGED <<turns, given>>

\* Or it needs a turn of another kind.
RejectPrepared ==
  /\ At("prepare") /\ loop.batch # <<>>
  /\ ~job.over /\ job.steers = loop.known
  /\ job' = [job EXCEPT !.steers[Head(loop.batch)] = "rejected"]
  /\ Goes([loop EXCEPT !.batch = Tail(@), !.known = job'.steers])
  /\ UNCHANGED <<turns, given>>

AdmitPrepared ==
  /\ At("bound")
  /\ \/ AddEntry(Head(loop.batch))
     \/ StateIn(current, Head(loop.batch)) = "pending" /\ UNCHANGED turns
  /\ Goes([loop EXCEPT !.pc = "prepare", !.batch = Tail(@)])
  /\ UNCHANGED <<job, given>>

Prepared ==
  /\ At("prepare") /\ loop.batch = <<>>
  /\ Goes([loop EXCEPT !.pc = "enter", !.known = NoSteers])
  /\ UNCHANGED <<turns, job, given>>

-----------------------------------------------------------------------------
(* The loop *)

\* No boundary answers for the model, so the loop begins.
EnterLoop ==
  /\ At("enter")
  /\ Goes([loop EXCEPT !.pc = "read"])
  /\ UNCHANGED <<turns, job, given>>

\* The longest prefix of one effect.
Batch(p) ==
  LET other == SelectInSeq(p, LAMBDA m : (m \in Protected) # (Head(p) \in Protected))
  IN  IF other = 0 THEN p ELSE SubSeq(p, 1, other - 1)

\* Before a provider call, and under the claim of a candidate.
ReadPending ==
  /\ At("read") /\ ~loop.held
  /\ LET p == Pending(current) IN
       IF p = <<>>
       THEN Goes([loop EXCEPT !.pc = IF loop.claim = "candidate" THEN "publish" ELSE "call", !.stale = <<>>])
       ELSE /\ Batch(p) # loop.stale
            /\ Goes([loop EXCEPT !.pc = "validate", !.batch = Batch(p)])
  /\ UNCHANGED <<turns, job, given>>

\* The job's messages of the batch are still queued in its record.
ValidateSteers ==
  /\ At("validate")
  /\ \A i \in DOMAIN loop.batch : loop.batch[i] \in JobSteers => job.steers[loop.batch[i]] = "queued"
  /\ Goes([loop EXCEPT !.pc = "promote"])
  /\ UNCHANGED <<turns, job, given>>

\* The batch is promoted if it is still the front of what is pending.
IsCurrent(batch) == IsPrefix(batch, Pending(current))
Promote ==
  /\ At("promote")
  /\ IsCurrent(loop.batch)
  /\ turns' = [turns EXCEPT
       ![current].state = [m \in Messages |-> IF m \in ToSet(loop.batch) THEN "promoted" ELSE @[m]],
       ![current].items = @ \o loop.batch]
  /\ Goes([loop EXCEPT !.pc = "settle", !.stale = <<>>])
  /\ UNCHANGED <<job, given>>

\* Otherwise everything is read again.
PromoteStale ==
  /\ At("promote")
  /\ ~IsCurrent(loop.batch)
  /\ Goes([loop EXCEPT !.pc = "read", !.batch = <<>>, !.stale = loop.batch])
  /\ UNCHANGED <<turns, job, given>>

\* The next of the promoted messages of the job is settled in its record.
Unsettled == Among(loop.batch, {j \in JobSteers : job.steers[j] # "admitted"})
MaySettle(j) == job.steers[j] \in {"queued", "admitted"}
SettleSteer ==
  /\ At("settle") /\ Unsettled # <<>>
  /\ MaySettle(Head(Unsettled))
  /\ job' = [job EXCEPT !.steers[Head(Unsettled)] = "admitted"]
  /\ UNCHANGED <<turns, given, callers, loop, process>>

\* A step of ordinary work goes on from the lane of ordinary messages: what was
\* said on case data since then is not repeated. Any other step adds to the talk.
Isolated(part) ==
  [talk |-> loop.chat.lane \o part, lane |-> loop.chat.lane \o part, casework |-> FALSE, step |-> <<>>]
Added(batch) == [loop.chat EXCEPT !.talk = @ \o batch, !.casework = TRUE, !.step = batch]

\* Mutant: keeps the lane as it was.
KeepsLane(batch) ==
  IF Head(batch) \notin Protected THEN {[Isolated(batch) EXCEPT !.lane = loop.chat.lane]} ELSE {Added(batch)}

\* Without the source of case data only the ordinary part of a batch is left to
\* do, if it has one.
OrdinaryParts(batch) == {Among(batch, part) : part \in SUBSET ToSet(batch) \ {{}}}
Steered(batch) ==
  IF Head(batch) \notin Protected THEN {Isolated(batch)}
  ELSE {Added(batch)} \cup
       IF given[current].lost THEN {Isolated(part) : part \in OrdinaryParts(batch)} ELSE {}

\* The batch goes into the conversation. A candidate gives its claim back, and
\* what waits is read again before the next call.
Give ==
  /\ At("settle") /\ Unsettled = <<>>
  /\ \E chat \in Steered(loop.batch) :
       Goes([loop EXCEPT !.pc = IF loop.claim = "candidate" THEN "read" ELSE "call",
                         !.claim = IF @ = "candidate" THEN "none" ELSE @,
                         !.batch = <<>>, !.chat = chat])
  /\ UNCHANGED <<turns, job, given>>

\* The conversation is shown to the model. Work on case data whose source was
\* lost is not.
CallProvider ==
  /\ At("call")
  /\ ~(loop.chat.casework /\ given[current].lost)
  /\ given' = [given EXCEPT ![current].last = loop.chat.talk, ![current].shown = @ \cup ToSet(loop.chat.talk)]
  /\ Goes([loop EXCEPT !.pc = "answered"])
  /\ UNCHANGED <<turns, job>>

\* The model answers with tool calls. One that ends the turn runs under the
\* claim of a candidate, when nothing waits.
CallsTools ==
  /\ ~loop.held
  /\ At("answered") \/ (At("publish") /\ loop.claim = "candidate")
GoesOn(pc, chat) == Goes([loop EXCEPT !.pc = pc, !.claim = IF @ = "candidate" THEN "none" ELSE @, !.chat = chat])

CallTools ==
  /\ CallsTools
  /\ GoesOn("read", loop.chat)
  /\ UNCHANGED <<turns, job, given>>

\* A tool asks the user. The execution ends, the turn stays.
AskUser ==
  /\ CallsTools
  /\ GoesOn("paused", loop.chat)
  /\ UNCHANGED <<turns, job, given>>

\* The answer starts another one. Its conversation was kept, its lane was not:
\* the lane is empty, or all of it when nothing in it works on case data.
Answer ==
  /\ At("paused") /\ loop.claim = "none"
  /\ \E lane \in {<<>>} \cup (IF loop.chat.casework THEN {} ELSE {loop.chat.talk}) :
       GoesOn("enter", [loop.chat EXCEPT !.lane = lane])
  /\ UNCHANGED <<turns, job, given>>

\* The source of case data is lost before a call or at a tool: the step goes on
\* with the ordinary part of its batch, or of the turn's own prompt.
LoseSource ==
  /\ loop.chat.casework
  /\ \E part \in IF loop.chat.step = <<>> THEN {<<>>} ELSE OrdinaryParts(loop.chat.step) :
       \/ At("call") /\ \E pc \in {"call", "read"} : GoesOn(pc, Isolated(part))
       \/ CallsTools /\ GoesOn("read", Isolated(part))
  /\ given' = [given EXCEPT ![current].lost = TRUE]
  /\ UNCHANGED <<turns, job>>

\* The model answers with a candidate, or the host answers itself: the terminal
\* state is claimed. An interrupt or a failure claims it too.
ClaimTerminal(kind) ==
  /\ \/ At("answered") /\ kind = "candidate" /\ loop.claim = "none" /\ ~loop.held
     \/ \E pc \in {"enter", "call", "answered"} : At(pc) /\ kind = "fixed" /\ loop.claim = "none" /\ ~loop.held
     \/ At("fail") /\ kind = "failure"
  /\ Goes([loop EXCEPT !.pc = "drain", !.claim = kind])
  /\ UNCHANGED <<turns, job, given>>

\* An interrupt reserves the terminal state while the loop still works.
Interrupt ==
  /\ phase = "up" /\ Running
  /\ loop.claim = "none"
  /\ Goes([loop EXCEPT !.claim = "failure"])
  /\ UNCHANGED <<turns, job, given>>

\* Admitted calls finish first.
Drained == \A m \in Messages : sender[m] = "idle"
Drain ==
  /\ At("drain")
  /\ Drained
  /\ Goes([loop EXCEPT !.pc = IF loop.claim = "candidate" THEN "read" ELSE "publish"])
  /\ UNCHANGED <<turns, job, given>>

\* The execution is over or stands still while the turn runs: it waits for the
\* user or the job's parent, or nobody could store how the turn ended.
Idle == loop.pc \in {"paused", "stranded"} \/ loop.held

\* Any step of the loop can fail: a write, an authority, a provider, a cancelled
\* context. A claim is given back. An idle turn ends by an interrupt, or with its
\* job.
LoopFails ==
  /\ phase = "up"
  /\ loop.pc \notin {"none", "fail", "drain", "publish"}
  /\ Idle => loop.claim = "failure" \/ (loop.held /\ job.over)
  /\ Goes([NoLoop EXCEPT !.pc = "fail", !.claim = IF loop.claim = "failure" THEN "failure" ELSE "none"])
  /\ UNCHANGED <<turns, job, given>>

\* The parent of the job holds its turn, at the loop's top or after a call.
HoldJob ==
  /\ current = 1 /\ ~job.over
  /\ At("answered") \/ (At("read") /\ loop.claim # "candidate")
  /\ ~loop.held
  /\ Goes([loop EXCEPT !.held = TRUE])
  /\ UNCHANGED <<turns, job, given>>
ReleaseJob ==
  /\ phase = "up" /\ loop.held
  /\ Goes([loop EXCEPT !.held = FALSE])
  /\ UNCHANGED <<turns, job, given>>

\* The terminal update.
Outcome(claim) ==
  CASE claim = "candidate" -> "completed" [] claim = "fixed" -> "answered" [] claim = "failure" -> "aborted"
Publish ==
  /\ At("publish")
  /\ EndTurn(Outcome(loop.claim))
  /\ Goes(NoLoop)
  /\ UNCHANGED <<job, given>>

\* It is not stored. Then the turn fails, and if that is not stored either it
\* keeps running without an execution.
PublishFails ==
  /\ At("publish")
  /\ Goes([NoLoop EXCEPT !.pc = IF loop.claim = "failure" THEN "stranded" ELSE "fail"])
  /\ UNCHANGED <<turns, job, given>>

-----------------------------------------------------------------------------
(* The process *)

Crash ==
  /\ phase = "up" /\ crashes < MaxCrashes
  /\ phase' = "down" /\ crashes' = crashes + 1
  /\ loop' = NoLoop
  /\ sender' = [m \in Messages |-> "idle"]
  /\ seen' = [j \in JobSteers |-> NoSteers]
  /\ UNCHANGED <<turns, job, given, sends>>

\* What the start requires of the stored turns: no client id twice, and an item
\* exactly for what was promoted.
Trusted ==
  /\ \A t, u \in 1 .. current, m \in Messages :
       StateIn(t, m) # "none" /\ StateIn(u, m) # "none" => t = u
  /\ \A t \in 1 .. current, m \in Messages :
       StateIn(t, m) = "promoted" <=> m \in ToSet(turns[t].items)

\* The start checks the inventory, ends a turn that was running and the job,
\* whose queued messages stay as they are.
Restart ==
  /\ phase = "down"
  /\ IF Trusted
     THEN /\ phase' = "up"
          /\ IF Running THEN EndTurn("aborted") ELSE UNCHANGED turns
          /\ job' = [job EXCEPT !.over = TRUE]
     ELSE phase' = "refused" /\ UNCHANGED <<turns, job>>
  /\ UNCHANGED <<given, callers, loop, crashes>>

-----------------------------------------------------------------------------

SenderStep(m) ==
  \/ AdmitDraft(m) \/ AdmitReply(m) \/ RefuseSteer(m)
  \/ QueueBeforeTurn(m) \/ QueueSteer(m) \/ AdmitSteer(m) \/ FailSteer(m) \/ RejectSteer(m)

LoopStep ==
  \/ LoadSteers \/ BindSteer \/ RejectPrepared \/ AdmitPrepared \/ Prepared
  \/ EnterLoop \/ ReadPending \/ ValidateSteers \/ Promote \/ PromoteStale \/ SettleSteer \/ Give
  \/ CallProvider \/ CallTools \/ AskUser \/ LoseSource \/ Drain \/ LoopFails \/ Publish
  \/ \E kind \in {"candidate", "fixed", "failure"} : ClaimTerminal(kind)

Next ==
  \/ \E m \in Messages : ReserveSteer(m) \/ SenderStep(m) \/ DiscardReply(m) \/ ReserveBeforeTurn(m)
  \/ EndJob \/ HoldJob \/ ReleaseJob
  \/ StartTurn \/ LoopStep \/ Answer \/ PublishFails \/ Interrupt
  \/ Crash \/ Restart

\* Calls return, the loop goes on where it does not wait for somebody, and a
\* stopped process is started again. No user has to answer, no parent has to go
\* on with its job, and nobody has to interrupt.
Fairness ==
  /\ \A m \in Messages : WF_vars(SenderStep(m))
  /\ WF_vars(LoopStep)
  /\ WF_vars(Restart)

Spec == Init /\ [][Next]_vars /\ Fairness
-----------------------------------------------------------------------------
(* Properties *)

\* Everything has its type; a turn stores an id once, and only the last turn
\* runs or has entries that are pending.
TypeOK ==
  /\ current <= MaxTurns
  /\ \A t \in 1 .. current :
       /\ turns[t].status \in {"running", "completed", "answered", "aborted"}
       /\ turns[t].state \in [Messages -> EntryStates]
       /\ IsInjective(turns[t].entries)
       /\ ToSet(turns[t].entries) = {m \in Messages : StateIn(t, m) # "none"}
       /\ turns[t].status = "running" => t = current
       /\ turns[t].status # "running" => Pending(t) = <<>>
  /\ job.steers \in [JobSteers -> SteerStates] /\ job.over \in BOOLEAN
  /\ Len(given) = current
  /\ sender \in [Messages -> {"idle", "before", "reserved", "queued", "rejecting"}]
  /\ loop.pc \in {"none", "load", "prepare", "bound", "enter", "read", "validate", "promote",
                   "settle", "call", "answered", "paused", "fail", "stranded", "drain", "publish"}
  /\ loop.claim \in {"none", "candidate", "fixed", "failure"}
  /\ loop.pc # "none" <=> phase = "up" /\ Running
  /\ phase \in {"up", "down", "refused"}

\* The steering of a thread is the queue of TurnQueue: nothing is taken twice, out
\* of order or after it was withdrawn; the next call shows every ordinary message
\* that was taken, and the ones on case data unless ordinary work was taken after
\* them or their source was lost; a candidate answers what was taken and leaves
\* nothing behind; the verdict on a job's message is final and true.
outcomeOf(status) ==
  CASE status = "running" -> "open" [] status = "completed" -> "complete"
    [] status = "answered" -> "answered" [] status = "aborted" -> "cut"
verdictOf(steer) ==
  CASE steer \in {"none", "waiting", "queued"} -> "none"
    [] steer = "admitted" -> "admitted" [] steer \in {"rejected", "expired"} -> "refused"
Queue == INSTANCE TurnQueue WITH
  queues <- [t \in 1 .. current |->
    [seen |-> ToSet(turns[t].entries), waiting |-> Pending(t), taken |-> turns[t].items,
     last |-> given[t].last, shown |-> given[t].shown, lost |-> given[t].lost,
     outcome |-> outcomeOf(turns[t].status)]],
  verdict <- [j \in JobSteers |-> verdictOf(job.steers[j])]
ImplementsQueue == Queue!Spec

\* A start refuses the stored turns only after a client steered two turns with
\* one draft: no crash between two stores makes them look untrusted.
RefusesOnlyResent ==
  phase = "refused" =>
    \E m \in Drafts : \E t, u \in 1 .. current : t # u /\ StateIn(t, m) # "none" /\ StateIn(u, m) # "none"

\* A message that waits in the running turn is promoted, withdrawn or cancelled,
\* unless the turn is idle again and again: the loop itself, its claims, failures
\* and retries never leave it behind. (Or no start succeeds.)
IsPending(m) == current > 0 /\ StateIn(current, m) = "pending"
PendingSettles == \A m \in Messages : IsPending(m) ~> ~IsPending(m) \/ phase = "refused" \/ Idle
=============================================================================
