------------------------------ MODULE AppendLog ------------------------------
(***************************************************************************)
(* What the event log of one thread promises to the code that appends to   *)
(* it: a sequence of whole batches, an answer that tells the truth about   *)
(* the batch, and no loss of a batch that was answered with success.       *)
(***************************************************************************)
EXTENDS Naturals, Sequences, SequencesExt

CONSTANTS
  Calls,   \* the append calls; each appends one batch of events
  NoCall   \* no call is running

VARIABLES
  log,     \* the batches a reader finds, in order
  firm,    \* how many of them no crash may take away
  call,    \* the running call, or NoCall
  answer   \* answer[c]: what call c was told

vars == <<log, firm, call, answer>>

Init ==
  /\ log = <<>>
  /\ firm = 0
  /\ call = NoCall
  /\ answer = [c \in Calls |-> "none"]

\* Call c starts; a call is made once, and only one runs at a time (the lock).
Begin(c) ==
  /\ call = NoCall
  /\ answer[c] = "none"
  /\ call' = c
  /\ UNCHANGED <<log, firm, answer>>

\* The whole batch of the running call becomes readable in one step.
Commit ==
  /\ call # NoCall
  /\ call \notin ToSet(log)
  /\ log' = Append(log, call)
  /\ UNCHANGED <<firm, call, answer>>

\* The running call returns. "ok" promises that everything up to its batch
\* survives a power loss; "committed" that the batch is there; "failed" that
\* it is not, and never will be.
Return ==
  \E a \in {"ok", "committed", "failed"} :
    /\ call # NoCall
    /\ (a # "failed") <=> (call \in ToSet(log))
    /\ answer' = [answer EXCEPT ![call] = a]
    /\ firm' = IF a = "ok" THEN Len(log) ELSE firm
    /\ call' = NoCall
    /\ UNCHANGED log

\* The process stops: the running call learns nothing, the log keeps what it has.
Crash ==
  /\ call' = NoCall
  /\ answer' = IF call = NoCall THEN answer ELSE [answer EXCEPT ![call] = "lost"]
  /\ UNCHANGED <<log, firm>>

\* The machine stops: a batch that is not firm may be gone, with all after it.
PowerLoss ==
  /\ \E n \in firm .. Len(log) : log' = SubSeq(log, 1, n)
  /\ call' = NoCall
  /\ answer' = IF call = NoCall THEN answer ELSE [answer EXCEPT ![call] = "lost"]
  /\ UNCHANGED firm

Next == (\E c \in Calls : Begin(c)) \/ Commit \/ Return \/ Crash \/ PowerLoss

Spec == Init /\ [][Next]_vars
=============================================================================
