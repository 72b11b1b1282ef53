------------------------------ MODULE TurnQueue ------------------------------
(***************************************************************************)
(* What the steering of a thread promises. Each turn has a queue of its    *)
(* own. A message enters the queue of the running turn once and is taken   *)
(* from its front into the turn's transcript. What a call shows to the     *)
(* model is a part of the transcript in its order. It owes the model every *)
(* ordinary message that was taken and not shown yet; a message on case    *)
(* data it owes while its source is there and no ordinary one was taken    *)
(* after it.                                                               *)
(* A turn completes only when nothing waits and nothing is owed. The       *)
(* verdict on the message of a job agrees with its fate, and is final.     *)
(***************************************************************************)
EXTENDS Naturals, Sequences, Subsequences

CONSTANTS
  Messages,   \* everything that may be sent to a turn
  Replies,    \* those that their sender may withdraw
  Protected,  \* those on case data
  JobSteers   \* those of a job, which get a verdict

VARIABLES
  queues,   \* one queue per turn, the last one is the running turn's
  verdict   \* verdict[j]: "none", "admitted" or "refused"

vars == <<queues, verdict>>

EmptyQueue == [seen |-> {}, waiting |-> <<>>, taken |-> <<>>, last |-> <<>>, shown |-> {},
               lost |-> FALSE, outcome |-> "open"]

current == Len(queues)
Open == current > 0 /\ queues[current].outcome = "open"
Members(s) == {s[i] : i \in DOMAIN s}

\* Of what was taken, what the model should know.
Due(taken, lost) ==
  {taken[k] : k \in {i \in DOMAIN taken :
     taken[i] \in Protected =>
       ~lost /\ \A n \in i .. Len(taken) : taken[n] \in Protected}}

\* What a call must show that no call has shown.
Owed(q) == Due(q.taken, q.lost) \ q.shown

Init == queues = <<>> /\ verdict = [j \in JobSteers |-> "none"]

\* The next turn starts when the one before it is over, with the source of case
\* data or without.
Start ==
  /\ ~Open
  /\ \E lost \in BOOLEAN : queues' = Append(queues, [EmptyQueue EXCEPT !.lost = lost])
  /\ UNCHANGED verdict

Put(m) ==
  /\ Open
  /\ m \notin queues[current].seen
  /\ queues' = [queues EXCEPT ![current].seen = @ \cup {m}, ![current].waiting = Append(@, m)]
  /\ UNCHANGED verdict

\* The first n messages that wait become part of the transcript.
Take(n) ==
  /\ Open
  /\ n \in 1 .. Len(queues[current].waiting)
  /\ queues' = [queues EXCEPT
       ![current].taken = @ \o SubSeq(queues[current].waiting, 1, n),
       ![current].waiting = SubSeq(@, n + 1, Len(@))]
  /\ UNCHANGED verdict

\* A call shows messages of the transcript in their order, all that are owed and
\* none that was refused.
Give(told) ==
  /\ Open
  /\ told \subseteq Members(queues[current].taken)
  /\ Owed(queues[current]) \subseteq told
  /\ \A j \in JobSteers \cap told : verdict[j] # "refused"
  /\ queues' = [queues EXCEPT
       ![current].last = Among(queues[current].taken, told),
       ![current].shown = @ \cup told]
  /\ UNCHANGED verdict

Lose ==
  /\ Open
  /\ queues' = [queues EXCEPT ![current].lost = TRUE]
  /\ UNCHANGED verdict

\* A message that waits is withdrawn; one that was taken never is.
Withdraw(m) ==
  /\ Open
  /\ m \in Members(queues[current].waiting)
  /\ queues' = [queues EXCEPT ![current].waiting = Among(@, Messages \ {m})]
  /\ UNCHANGED verdict

\* The turn is over: complete with nothing left behind or owed, ended by an answer
\* of the host, or cut short.
Close(outcome) ==
  /\ Open
  /\ outcome = "complete" => queues[current].waiting = <<>> /\ Owed(queues[current]) = {}
  /\ queues' = [queues EXCEPT ![current].waiting = <<>>, ![current].outcome = outcome]
  /\ UNCHANGED verdict

Admit(j) ==
  /\ verdict[j] = "none"
  /\ \E t \in 1 .. current : j \in Members(queues[t].taken)
  /\ verdict' = [verdict EXCEPT ![j] = "admitted"]
  /\ UNCHANGED queues

Refuse(refused) ==
  /\ \A j \in refused :
       /\ verdict[j] = "none"
       /\ \A t \in 1 .. current : j \notin queues[t].shown
  /\ verdict' = [j \in JobSteers |-> IF j \in refused THEN "refused" ELSE verdict[j]]
  /\ UNCHANGED queues

Next ==
  \/ Start \/ Lose
  \/ Open /\ \E told \in SUBSET Members(queues[current].taken) : Give(told)
  \/ \E m \in Messages : Put(m)
  \/ Open /\ \E n \in 1 .. Len(queues[current].waiting) : Take(n)
  \/ \E m \in Replies : Withdraw(m)
  \/ \E outcome \in {"complete", "answered", "cut"} : Close(outcome)
  \/ \E j \in JobSteers : Admit(j)
  \/ \E refused \in SUBSET JobSteers : Refuse(refused)

Spec == Init /\ [][Next]_vars
=============================================================================
