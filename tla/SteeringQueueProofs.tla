-------------------------- MODULE SteeringQueueProofs --------------------------
(***************************************************************************)
(* Proofs about SteeringQueue for every set of messages, every number of   *)
(* turns, calls and crashes. Inv is the inductive invariant: a turn stores *)
(* an id once, an item exactly for what was promoted, an admitted call     *)
(* keeps its turn running, a claim that was drained stays alone, and the   *)
(* conversation with the model, and the lane of ordinary work in it, hold  *)
(* what the transcript owes. From it a start never refuses what a crash    *)
(* left behind, and the steering implements the queue of TurnQueue.        *)
(***************************************************************************)
EXTENDS SteeringQueue, SubsequencesProofs, FiniteSetTheorems, TLAPS

Statuses == {"running", "completed", "answered", "aborted"}
PCs == {"none", "load", "prepare", "bound", "enter", "read", "validate", "promote", "settle",
        "call", "answered", "paused", "fail", "stranded", "drain", "publish"}
Claims == {"none", "candidate", "fixed", "failure"}
Senders == {"idle", "before", "reserved", "queued", "rejecting"}

TurnRecords == [status : Statuses, entries : Seq(Messages),
                state : [Messages -> EntryStates], items : Seq(Messages)]
Chats == [talk : Seq(Messages), lane : Seq(Messages), casework : BOOLEAN, step : Seq(Messages)]
Shows == [last : Seq(Messages), shown : SUBSET Messages, lost : BOOLEAN]
Loops == [pc : PCs, claim : Claims, batch : Seq(Messages), stale : Seq(Messages),
          known : [JobSteers -> SteerStates], held : BOOLEAN, chat : Chats]

Typed ==
  /\ turns \in Seq(TurnRecords) /\ current <= MaxTurns
  /\ job \in [steers : [JobSteers -> SteerStates], over : BOOLEAN]
  /\ given \in Seq(Shows) /\ Len(given) = current
  /\ sender \in [Messages -> Senders]
  /\ seen \in [JobSteers -> [JobSteers -> SteerStates]]
  /\ sends \in Nat /\ crashes \in Nat
  /\ loop \in Loops
  /\ phase \in {"up", "down", "refused"}

\* A turn stores an id once, and promotes it once.
Entered ==
  \A t \in 1 .. current :
    /\ IsInjective(turns[t].entries) /\ IsInjective(turns[t].items)
    /\ ToSet(turns[t].entries) = {m \in Messages : StateIn(t, m) # "none"}

\* Only the last turn runs, and nothing is pending in another.
LastRuns ==
  \A t \in 1 .. current :
    /\ turns[t].status = "running" => t = current
    /\ turns[t].status # "running" => Waits(t) = {}

\* There is an execution exactly while a turn runs in a process.
LoopRuns ==
  /\ loop.pc # "none" <=> phase = "up" /\ Running
  /\ loop.pc = "none" => loop.claim = "none"

\* An item stands for exactly what was promoted.
ItemsPromoted ==
  \A t \in 1 .. current, m \in Messages :
    StateIn(t, m) = "promoted" <=> m \in ToSet(turns[t].items)

\* A message of the job is stored in the first turn only, and a reply in one.
StoredOnce ==
  /\ \A t \in 1 .. current, j \in JobSteers : StateIn(t, j) # "none" => t = 1
  /\ \A t, u \in 1 .. current, r \in Replies :
       StateIn(t, r) # "none" /\ StateIn(u, r) # "none" => t = u

\* A call that was admitted keeps its turn running, and the job's parent is
\* only ever admitted to the first.
SendersInTurn ==
  \A m \in Messages :
    /\ sender[m] = "before" => phase = "up" /\ current = 0 /\ m \in JobSteers
    /\ sender[m] \in {"queued", "rejecting"} => m \in JobSteers
    /\ sender[m] \in {"reserved", "queued", "rejecting"} =>
         phase = "up" /\ Running /\ (m \in JobSteers => current = 1)

\* After a claim was drained nobody else sends until it is given back.
ClaimDrained ==
  /\ loop.pc = "publish" \/ (loop.claim = "candidate" /\ loop.pc # "drain") => Drained
  /\ loop.pc \in {"drain", "publish"} => loop.claim # "none"

\* What is prepared are open messages of the job, each once, and the turn is
\* the first. A batch that is promoted is of one kind.
Uniform(b) == ToSet(b) \subseteq Protected \/ ToSet(b) \cap Protected = {}
Preparing ==
  /\ loop.pc \in {"load", "prepare", "bound"} => current = 1
  /\ loop.pc \in {"prepare", "bound"} =>
       /\ IsInjective(loop.batch)
       /\ \A m \in ToSet(loop.batch) :
            m \in JobSteers /\ loop.known[m] \in {"waiting", "queued"}
  /\ loop.pc = "bound" => loop.batch # <<>>
  /\ loop.pc \in {"validate", "promote", "settle"} => loop.batch # <<>> /\ Uniform(loop.batch)

\* What the model should know of a transcript, as in TurnQueue.
Due(taken, lost) ==
  {taken[k] : k \in {i \in DOMAIN taken :
     taken[i] \in Protected =>
       ~lost /\ \A n \in i .. Len(taken) : taken[n] \in Protected}}

\* A conversation goes with a transcript: it and its lane hold entries of the
\* transcript in order, a step on case data began after what the lane holds, and
\* what the model should know was shown or is in the conversation; the lane does
\* for what it should know without the source of case data.
Follows(items, chat, shows) ==
  /\ Selects(chat.talk, items) /\ Selects(chat.lane, items)
  /\ chat.casework =>
       \E before \in Seq(Messages) : items = before \o chat.step /\ Selects(chat.lane, before)
  /\ Due(items, shows.lost) \subseteq shows.shown \cup ToSet(chat.talk)
  /\ Due(items, TRUE) \subseteq shows.shown \cup ToSet(chat.lane)

\* The execution has a conversation with the model; the model has answered, and
\* nothing was promoted since.
Talks(l) ==
  \/ l.pc \in {"load", "prepare", "bound", "enter", "read", "validate", "promote", "call",
               "answered", "paused"}
  \/ l.pc \in {"drain", "publish"} /\ l.claim = "candidate"
Answered(l) ==
  \/ l.pc \in {"answered", "paused"}
  \/ l.pc \in PCs \ {"none", "settle"} /\ l.claim = "candidate"

\* The conversation goes with the items of the turn, all but a batch that was
\* just promoted, and an answer is to all that the model should know.
ChatFollows ==
  /\ Talks(loop) => Follows(turns[current].items, loop.chat, given[current])
  /\ loop.pc = "settle" =>
       \E before \in Seq(Messages) : /\ turns[current].items = before \o loop.batch
                                     /\ Follows(before, loop.chat, given[current])
  /\ Answered(loop) => Due(turns[current].items, given[current].lost) \subseteq given[current].shown

\* What the model was shown of the job's messages was admitted, and so is what
\* was promoted of them, but for the batch that is being settled.
ShownAdmitted ==
  /\ \A t \in 1 .. current, j \in JobSteers :
       j \in given[t].shown => job.steers[j] = "admitted"
  /\ Talks(loop) => \A j \in JobSteers :
       j \in ToSet(turns[current].items) => job.steers[j] = "admitted"
  /\ loop.pc = "settle" => \A j \in JobSteers :
       j \in ToSet(turns[current].items) => job.steers[j] = "admitted" \/ j \in ToSet(loop.batch)

\* A candidate that is published leaves nothing behind.
NothingLeft == loop.pc = "publish" /\ loop.claim = "candidate" => Waits(current) = {}

Inv ==
  /\ Typed /\ Entered /\ LastRuns /\ LoopRuns /\ ItemsPromoted /\ StoredOnce
  /\ SendersInTurn /\ ClaimDrained /\ Preparing
  /\ ChatFollows /\ ShownAdmitted /\ NothingLeft

-----------------------------------------------------------------------------
(* The operators of the loop *)

\* The messages of a finite set in some order, each once.
LEMMA Orders ==
  ASSUME NEW S, IsFiniteSet(S), NEW order \in SetToSeqs(S)
  PROVE  order \in Seq(S) /\ IsInjective(order)
<1>1. Cardinality(S) \in Nat
  BY FS_CardinalityType
<1>2. order \in [1 .. Cardinality(S) -> S]
      /\ \A i, j \in 1 .. Cardinality(S) : i # j => order[i] # order[j]
  BY DEF SetToSeqs
<1>. HIDE DEF SetToSeqs
<1>3. order \in Seq(S)
  BY <1>1, <1>2
<1>. QED  BY <1>2, <1>3 DEF IsInjective

\* The rest of a sequence without repetition does not hold its head.
LEMMA RestDistinct ==
  ASSUME NEW S, NEW s \in Seq(S), s # <<>>, IsInjective(s)
  PROVE  /\ Head(s) \in S /\ Head(s) \in ToSet(s) /\ Tail(s) \in Seq(S)
         /\ IsInjective(Tail(s)) /\ ToSet(Tail(s)) = ToSet(s) \ {Head(s)}
<1>1. /\ Head(s) \in S /\ Tail(s) \in Seq(S) /\ Head(s) = s[1]
      /\ Len(s) \in Nat \ {0} /\ Len(Tail(s)) = Len(s) - 1
      /\ \A i \in 1 .. Len(Tail(s)) : Tail(s)[i] = s[i + 1]
  BY HeadTailProperties, EmptySeq
<1>2. DOMAIN s = 1 .. Len(s) /\ DOMAIN Tail(s) = 1 .. (Len(s) - 1)
  BY <1>1, LenProperties
<1>. PICK x, r : x = Head(s) /\ r = Tail(s)
  OBVIOUS
<1>3. \A i \in 1 .. Len(s) : i = 1 \/ (i - 1 \in 1 .. (Len(s) - 1) /\ (i - 1) + 1 = i)
  BY <1>1
<1>4. x \in ToSet(s)
  BY <1>1, <1>2 DEF ToSet
<1>5. IsInjective(r)
  BY <1>1, <1>2 DEF IsInjective
<1>6. x \notin ToSet(r)
  BY <1>1, <1>2 DEF IsInjective, ToSet
<1>7. \A i \in 1 .. Len(s) : i # 1 => s[i] = r[i - 1]
  BY <1>1, <1>3
<1>8. ToSet(s) \subseteq ToSet(r) \cup {x}
  <2>. SUFFICES ASSUME NEW i \in 1 .. Len(s) PROVE s[i] \in ToSet(r) \cup {x}
    BY <1>2 DEF ToSet
  <2>1. CASE i = 1
    BY <1>1, <2>1
  <2>2. CASE i # 1
    BY <1>2, <1>3, <1>7, <2>2 DEF ToSet
  <2>. QED  BY <2>1, <2>2
<1>9. ToSet(r) \subseteq ToSet(s)
  BY <1>1, <1>2 DEF ToSet
<1>. QED  BY <1>1, <1>4, <1>5, <1>6, <1>8, <1>9

\* A batch has at least one message, and is of one kind.
LEMMA BatchIsUniform ==
  ASSUME NEW p \in Seq(Messages), p # <<>>
  PROVE  Batch(p) \in Seq(Messages) /\ Batch(p) # <<>> /\ Uniform(Batch(p))
<1>. DEFINE I == {i \in 1 .. Len(p) : (p[i] \in Protected) # (Head(p) \in Protected)}
            other == SelectInSeq(p, LAMBDA m : (m \in Protected) # (Head(p) \in Protected))
<1>1. other = IF I # {} THEN Min(I) ELSE 0
  BY DEF SelectInSeq
<1>2. I \subseteq Nat /\ I \subseteq 1 .. Len(p) /\ Len(p) \in Nat /\ Len(p) > 0 /\ 1 \notin I
      /\ DOMAIN p = 1 .. Len(p) /\ \A i \in 1 .. Len(p) : p[i] \in Messages
  BY LenProperties, HeadTailProperties, ElementOfSeq, EmptySeq
<1>3. I # {} => Min(I) \in I /\ \A i \in I : Min(I) <= i
  <2>. HIDE DEF I
  <2>. QED  BY <1>2, Least DEF Min
<1>4. \A i \in 1 .. Len(p) : i \notin I => (p[i] \in Protected <=> Head(p) \in Protected)
  OBVIOUS
<1>. HIDE DEF I, other
<1>5. PICK n \in 1 .. Len(p) : /\ other = 0 \/ n = other - 1
                               /\ other = 0 => n = Len(p)
                               /\ \A i \in 1 .. n : i \notin I
  <2>1. CASE I = {}
    <3>1. other = 0 /\ Len(p) \in 1 .. Len(p)
      BY <1>1, <1>2, <2>1
    <3>. QED  BY <2>1, <3>1
  <2>2. CASE I # {}
    <3>. PICK least : least = Min(I)
      OBVIOUS
    <3>1. other = least /\ least \in I /\ \A i \in I : least <= i
      BY <1>1, <1>3, <2>2
    <3>2. least \in 1 .. Len(p) /\ least # 1
      BY <1>2, <3>1
    <3>3. least - 1 \in 1 .. Len(p) /\ least # 0
      BY <1>2, <3>2
    <3>4. \A i \in 1 .. (least - 1) : i \notin I
      BY <1>2, <3>1, <3>2
    <3>. QED  BY <3>1, <3>3, <3>4
  <2>. QED  BY <2>1, <2>2
<1>6. PICK b \in Seq(Messages) : /\ b = Batch(p) /\ Len(b) = n
                                 /\ \A i \in 1 .. n : b[i] = p[i]
  <2>1. CASE other = 0
    BY <1>5, <2>1 DEF Batch, other
  <2>2. CASE other # 0
    <3>1. Batch(p) = SubSeq(p, 1, n)
      BY <1>5, <2>2 DEF Batch, other
    <3>2. \A i \in 1 .. n : p[i] \in Messages
      BY <1>2
    <3>. PICK b : b = SubSeq(p, 1, n)
      OBVIOUS
    <3>3. b \in Seq(Messages) /\ Len(b) = n /\ \A i \in 1 .. n : b[i] = p[i]
      BY <1>2, <3>2, SubSeqProperties
    <3>. QED  BY <3>1, <3>3
  <2>. QED  BY <2>1, <2>2
<1>7. \A i \in 1 .. n : b[i] \in Protected <=> Head(p) \in Protected
  BY <1>4, <1>5, <1>6
<1>8. Uniform(b)
  BY <1>6, <1>7, LenProperties DEF Uniform, ToSet
<1>. QED  BY <1>6, <1>8, EmptySeq

\* A prefix holds nothing that the whole does not.
LEMMA PrefixMembers ==
  ASSUME NEW S, NEW s \in Seq(S), NEW p \in Seq(S), IsPrefix(s, p)
  PROVE  /\ Len(s) <= Len(p) /\ \A i \in 1 .. Len(s) : s[i] = p[i]
         /\ ToSet(s) \subseteq ToSet(p)
<1>1. /\ Len(s) <= Len(p) /\ SubSeq(s, 1, Len(s)) = SubSeq(p, 1, Len(s))
      /\ DOMAIN s = 1 .. Len(s) /\ DOMAIN p = 1 .. Len(p) /\ Len(s) \in Nat /\ Len(p) \in Nat
  BY LenProperties DEF IsPrefix
<1>2. \A i \in 1 .. Len(s) : s[i] \in S /\ p[i] \in S
  BY <1>1, ElementOfSeq
<1>3. /\ \A i \in 1 .. (Len(s) - 1 + 1) : SubSeq(s, 1, Len(s))[i] = s[1 + i - 1]
      /\ \A i \in 1 .. (Len(s) - 1 + 1) : SubSeq(p, 1, Len(s))[i] = p[1 + i - 1]
  BY <1>1, <1>2, SubSeqProperties
<1>4. \A i \in 1 .. Len(s) : s[i] = p[i] /\ i \in 1 .. Len(p)
  BY <1>1, <1>3
<1>. QED  BY <1>1, <1>4 DEF ToSet

-----------------------------------------------------------------------------
(* The conversation *)

\* A call owes the model what is due and was not shown.
LEMMA QueueDue == \A s, l : Queue!Due(s, l) = Due(s, l)
BY DEF Queue!Due, Due

\* Less is due without the source of case data.
LEMMA DueBounds ==
  ASSUME NEW s \in Seq(Messages), NEW l \in BOOLEAN
  PROVE  Due(s, TRUE) \subseteq Due(s, l) /\ Due(s, l) \subseteq ToSet(s)
BY DEF Due, ToSet

\* What is due of a transcript that got a batch.
LEMMA DueConcat ==
  ASSUME NEW s \in Seq(Messages), NEW b \in Seq(Messages), NEW l \in BOOLEAN
  PROVE  /\ Due(s \o b, l) \subseteq Due(s, l) \cup ToSet(b)
         /\ b # <<>> /\ ToSet(b) \cap Protected = {} => Due(s \o b, l) \subseteq Due(s, TRUE) \cup ToSet(b)
         /\ ToSet(b) \subseteq Protected => Due(s \o b, TRUE) \subseteq Due(s, TRUE)
<1>1. /\ DOMAIN s = 1 .. Len(s) /\ Len(s) \in Nat /\ DOMAIN b = 1 .. Len(b) /\ Len(b) \in Nat
      /\ DOMAIN (s \o b) = 1 .. (Len(s) + Len(b)) /\ Len(s \o b) = Len(s) + Len(b)
      /\ \A i \in 1 .. Len(s) : (s \o b)[i] = s[i]
      /\ \A i \in 1 .. Len(b) : (s \o b)[Len(s) + i] = b[i]
  BY ConcatProperties, LenProperties
<1>. PICK w : w = s \o b
  OBVIOUS
<1>. DEFINE Stays(x, r, k) == x[k] \in Protected => ~r /\ \A n \in k .. Len(x) : x[n] \in Protected
<1>2. \A x, r, m : m \in Due(x, r) <=> \E k \in DOMAIN x : m = x[k] /\ Stays(x, r, k)
  BY DEF Due
<1>3. \A k \in 1 .. (Len(s) + Len(b)) : k \in 1 .. Len(s) \/ w[k] \in ToSet(b)
  <2>. SUFFICES ASSUME NEW k \in 1 .. (Len(s) + Len(b)), k \notin 1 .. Len(s)
                PROVE  w[k] \in ToSet(b)
    OBVIOUS
  <2>1. k - Len(s) \in 1 .. Len(b) /\ Len(s) + (k - Len(s)) = k
    BY <1>1
  <2>. QED  BY <1>1, <2>1 DEF ToSet
<1>4. ASSUME NEW r \in BOOLEAN, NEW k \in 1 .. Len(s), Stays(w, r, k)
      PROVE  Stays(s, r, k)
  <2>1. w[k] = s[k] /\ \A n \in k .. Len(s) : n \in k .. Len(w) /\ w[n] = s[n]
    BY <1>1
  <2>. QED  BY <1>4, <2>1
<1>5. ASSUME b # <<>>, ToSet(b) \cap Protected = {}, NEW k \in 1 .. Len(s), Stays(w, l, k)
      PROVE  Stays(s, TRUE, k)
  <2>1. 1 \in 1 .. Len(b) /\ Len(s) + 1 \in k .. Len(w)
    BY <1>1, <1>5, EmptySeq
  <2>2. w[Len(s) + 1] \in ToSet(b) /\ w[k] = s[k]
    BY <1>1, <2>1 DEF ToSet
  <2>. QED  BY <1>5, <2>1, <2>2
<1>6. ASSUME NEW k \in 1 .. (Len(s) + Len(b)), Stays(w, TRUE, k)
      PROVE  w[k] \notin Protected
  BY <1>6
<1>. HIDE DEF Stays
<1>7. ASSUME NEW m \in Due(w, l)
      PROVE  m \in Due(s, l) \cup ToSet(b)
  <2>1. PICK k \in 1 .. (Len(s) + Len(b)) : m = w[k] /\ Stays(w, l, k)
    BY <1>1, <1>2
  <2>2. CASE k \in 1 .. Len(s)
    <3>1. m = s[k] /\ Stays(s, l, k)
      BY <1>1, <1>4, <2>1, <2>2
    <3>. QED  BY <1>1, <1>2, <2>2, <3>1
  <2>. QED  BY <1>3, <2>1, <2>2
<1>8. ASSUME b # <<>>, ToSet(b) \cap Protected = {}, NEW m \in Due(w, l)
      PROVE  m \in Due(s, TRUE) \cup ToSet(b)
  <2>1. PICK k \in 1 .. (Len(s) + Len(b)) : m = w[k] /\ Stays(w, l, k)
    BY <1>1, <1>2
  <2>2. CASE k \in 1 .. Len(s)
    <3>1. m = s[k] /\ Stays(s, TRUE, k)
      BY <1>1, <1>5, <1>8, <2>1, <2>2
    <3>. QED  BY <1>1, <1>2, <2>2, <3>1
  <2>. QED  BY <1>3, <2>1, <2>2
<1>9. ASSUME ToSet(b) \subseteq Protected, NEW m \in Due(w, TRUE)
      PROVE  m \in Due(s, TRUE)
  <2>1. PICK k \in 1 .. (Len(s) + Len(b)) : m = w[k] /\ Stays(w, TRUE, k)
    BY <1>1, <1>2
  <2>2. k \in 1 .. Len(s)
    BY <1>3, <1>6, <1>9, <2>1
  <2>3. m = s[k] /\ Stays(s, TRUE, k)
    BY <1>1, <1>4, <2>1, <2>2
  <2>. QED  BY <1>1, <1>2, <2>2, <2>3
<1>. QED  BY <1>7, <1>8, <1>9

\* A conversation is one of messages.
LEMMA FollowsTyped ==
  ASSUME NEW s \in Seq(Messages), NEW chat, NEW shows, Follows(s, chat, shows)
  PROVE  /\ chat.talk \in Seq(Messages) /\ ToSet(chat.talk) \subseteq ToSet(s)
         /\ chat.lane \in Seq(Messages) /\ ToSet(chat.lane) \subseteq ToSet(s)
BY SelectionSelects DEF Follows

\* A batch on case data is added.
LEMMA AddedFollows ==
  ASSUME NEW s \in Seq(Messages), NEW b \in Seq(Messages), IsInjective(s \o b), ToSet(b) \subseteq Protected,
         NEW chat \in Chats, NEW shows \in Shows, Follows(s, chat, shows)
  PROVE  Follows(s \o b, [chat EXCEPT !.talk = @ \o b, !.casework = TRUE, !.step = b], shows)
<1>. PICK l \in BOOLEAN : l = shows.lost
  BY DEF Shows
<1>. PICK new : new = [chat EXCEPT !.talk = @ \o b, !.casework = TRUE, !.step = b]
  OBVIOUS
<1>1. new.talk = chat.talk \o b /\ new.lane = chat.lane /\ new.step = b
  BY DEF Chats
<1>2. Selects(b, b)
  BY SelectionSelects
<1>3. Selects(chat.talk \o b, s \o b)
  BY <1>2, SelectsConcat DEF Follows
<1>4. Selects(chat.lane, s \o b)
  BY SelectsLonger DEF Follows
<1>5. ToSet(chat.talk \o b) = ToSet(chat.talk) \cup ToSet(b)
  BY FollowsTyped, Members
<1>6. Due(s \o b, l) \subseteq Due(s, l) \cup ToSet(b) /\ Due(s \o b, TRUE) \subseteq Due(s, TRUE)
  BY DueConcat
<1>. QED  BY <1>1, <1>3, <1>4, <1>5, <1>6 DEF Follows

\* Ordinary work goes on from the lane.
LEMMA IsolatedFollows ==
  ASSUME NEW s \in Seq(Messages), NEW b \in Seq(Messages), IsInjective(s \o b),
         b # <<>>, ToSet(b) \cap Protected = {},
         NEW chat \in Chats, NEW shows \in Shows, Follows(s, chat, shows),
         NEW new, new = [talk |-> chat.lane \o b, lane |-> chat.lane \o b, casework |-> FALSE, step |-> <<>>]
  PROVE  Follows(s \o b, new, shows)
<1>. PICK l \in BOOLEAN : l = shows.lost
  BY DEF Shows
<1>1. Selects(b, b)
  BY SelectionSelects
<1>2. Selects(chat.lane \o b, s \o b)
  BY <1>1, SelectsConcat DEF Follows
<1>3. ToSet(chat.lane \o b) = ToSet(chat.lane) \cup ToSet(b)
  BY FollowsTyped, Members
<1>4. Due(s \o b, l) \subseteq Due(s, TRUE) \cup ToSet(b) /\ Due(s \o b, TRUE) \subseteq Due(s, TRUE) \cup ToSet(b)
  BY DueConcat
<1>. QED  BY <1>2, <1>3, <1>4 DEF Follows

\* Without the source of case data it goes on with a part of the batch.
LEMMA PartFollows ==
  ASSUME NEW s \in Seq(Messages), NEW b \in Seq(Messages), IsInjective(s \o b),
         NEW part, Selects(part, b),
         NEW chat \in Chats, NEW shows \in Shows, shows.lost = TRUE,
         Selects(chat.lane, s), Due(s \o b, TRUE) \subseteq shows.shown \cup ToSet(chat.lane),
         NEW new, new = [talk |-> chat.lane \o part, lane |-> chat.lane \o part, casework |-> FALSE, step |-> <<>>]
  PROVE  Follows(s \o b, new, shows)
<1>1. Selects(chat.lane \o part, s \o b)
  BY SelectsConcat
<1>2. chat.lane \in Seq(Messages) /\ part \in Seq(Messages)
  BY SelectionSelects
<1>3. ToSet(chat.lane \o part) = ToSet(chat.lane) \cup ToSet(part)
  BY <1>2, Members
<1>. QED  BY <1>1, <1>3 DEF Follows

-----------------------------------------------------------------------------
(* The store of the thread *)

\* A step that leaves the turns alone keeps what is said of them.
LEMMA ThreadStays ==
  ASSUME Inv, UNCHANGED turns
  PROVE  Entered' /\ LastRuns' /\ ItemsPromoted' /\ StoredOnce'
BY DEF Inv, Entered, LastRuns, ItemsPromoted, StoredOnce, StateIn, Waits, current

\* A turn that is replaced is replaced in place.
LEMMA TurnReplaced ==
  ASSUME Typed, current > 0, NEW v \in TurnRecords, turns' = [turns EXCEPT ![current] = v]
  PROVE  /\ turns' \in Seq(TurnRecords) /\ current' = current
         /\ turns'[current] = v
         /\ \A t \in 1 .. current : t # current => turns'[t] = turns[t]
<1>1. turns \in Seq(TurnRecords) /\ current \in 1 .. Len(turns)
  BY LenProperties DEF Typed, current
<1>. QED  BY <1>1, ExceptSeq DEF current

\* A new entry: it was not in this turn, nor a message of the job or a reply in
\* any other.
LEMMA EntryAdded ==
  ASSUME Inv, NEW m \in Messages, AddEntry(m),
         m \in JobSteers => current = 1, m \in Replies => Free(m)
  PROVE  /\ turns' \in Seq(TurnRecords) /\ current' = current
         /\ \A t \in 1 .. current : /\ turns'[t].status = turns[t].status
                                    /\ turns'[t].items = turns[t].items
         /\ Entered' /\ LastRuns' /\ ItemsPromoted' /\ StoredOnce'
<1>. USE DEF Inv, AddEntry, Running, Fresh, StateIn
<1>1. current > 0 /\ current \in 1 .. current /\ current \in Nat /\ turns[current] \in TurnRecords
  BY LenProperties, ElementOfSeq DEF Typed, current
<1>2. PICK e \in Seq(Messages), q \in [Messages -> EntryStates] :
        /\ e = Append(turns[current].entries, m)
        /\ q = [turns[current].state EXCEPT ![m] = "pending"]
  BY <1>1, AppendProperties DEF TurnRecords, EntryStates
<1>3. PICK v \in TurnRecords : v = [turns[current] EXCEPT !.entries = e, !.state = q]
  BY <1>1, <1>2 DEF TurnRecords
<1>4. turns' = [turns EXCEPT ![current] = v]
  BY <1>1, <1>2, <1>3 DEF TurnRecords, Typed
<1>5. /\ turns' \in Seq(TurnRecords) /\ current' = current /\ turns'[current] = v
      /\ \A t \in 1 .. current : t # current => turns'[t] = turns[t]
  BY <1>1, <1>4, TurnReplaced
<1>6. /\ v.status = "running" /\ v.items = turns[current].items /\ v.entries = e /\ v.state = q
  BY <1>3, <1>1 DEF TurnRecords
<1>7. \A n \in Messages : q[n] = IF n = m THEN "pending" ELSE turns[current].state[n]
  BY <1>1, <1>2 DEF TurnRecords
<1>8. IsInjective(e) /\ ToSet(e) = ToSet(turns[current].entries) \cup {m}
  BY <1>1, <1>2, AppendDistinct, Members DEF Entered, TurnRecords
<1>. HIDE DEF AddEntry
<1>9. Entered'
  BY <1>1, <1>5, <1>6, <1>7, <1>8 DEF Entered
<1>10. LastRuns'
  BY <1>1, <1>5, <1>6 DEF LastRuns, Waits
<1>11. ItemsPromoted'
  BY <1>1, <1>5, <1>6, <1>7 DEF ItemsPromoted, AddEntry
<1>12. StoredOnce'
  <2>. DEFINE S(t, n) == turns[t].state[n]
              T(t, n) == turns'[t].state[n]
  <2>1. \A t \in 1 .. current, n \in Messages : T(t, n) = S(t, n) \/ (t = current /\ n = m)
    BY <1>1, <1>5, <1>6, <1>7
  <2>2. m \in Replies => \A t \in 1 .. current : S(t, m) = "none"
    BY DEF Free
  <2>3. /\ \A t \in 1 .. current, j \in JobSteers : S(t, j) # "none" => t = 1
        /\ \A t, u \in 1 .. current, r \in Replies : S(t, r) # "none" /\ S(u, r) # "none" => t = u
    BY DEF StoredOnce
  <2>4. StoredOnce' <=>
          /\ \A t \in 1 .. current, j \in JobSteers : T(t, j) # "none" => t = 1
          /\ \A t, u \in 1 .. current, r \in Replies : T(t, r) # "none" /\ T(u, r) # "none" => t = u
    BY <1>5 DEF StoredOnce
  <2>. HIDE DEF S, T
  <2>. QED  BY <2>1, <2>2, <2>3, <2>4 DEF Messages
<1>13. \A t \in 1 .. current : turns'[t].status = turns[t].status /\ turns'[t].items = turns[t].items
  BY <1>1, <1>5, <1>6 DEF AddEntry
<1>. QED  BY <1>5, <1>9, <1>10, <1>11, <1>12, <1>13

\* The states of some entries change: to "promoted" with their items, or away
\* from "pending". No entry comes or goes.
Restates(st, r, w) ==
  /\ st # "running" => \A m \in Messages : r[m] # "pending"
  /\ IsInjective(w)
  /\ \A m \in Messages : /\ r[m] = "none" <=> StateIn(current, m) = "none"
                         /\ r[m] = "promoted" <=> m \in ToSet(w)
Restated(st, r, w) ==
  /\ turns' \in Seq(TurnRecords) /\ current' = current
  /\ turns'[current].status = st /\ turns'[current].items = w
  /\ turns'[current].state = r /\ turns'[current].entries = turns[current].entries
  /\ \A t \in 1 .. current : t # current => turns'[t] = turns[t]
  /\ Entered' /\ LastRuns' /\ ItemsPromoted' /\ StoredOnce'
LEMMA StatesChanged ==
  ASSUME Inv, Running, NEW st \in Statuses, NEW r \in [Messages -> EntryStates],
         NEW w \in Seq(Messages), Restates(st, r, w),
         turns' = [turns EXCEPT ![current] =
                     [turns[current] EXCEPT !.status = st, !.state = r, !.items = w]]
  PROVE  Restated(st, r, w)
<1>. USE DEF Restates, Restated
<1>1. current > 0 /\ current \in 1 .. current /\ current \in Nat /\ turns[current] \in TurnRecords
  BY LenProperties, ElementOfSeq DEF Inv, Typed, current, Running
<1>2. PICK v \in TurnRecords : v = [turns[current] EXCEPT !.status = st, !.state = r, !.items = w]
  BY <1>1 DEF TurnRecords, Statuses
<1>3. /\ v.status = st /\ v.items = w /\ v.state = r /\ v.entries = turns[current].entries
  BY <1>1, <1>2 DEF TurnRecords
<1>4. /\ turns' \in Seq(TurnRecords) /\ current' = current /\ turns'[current] = v
      /\ \A t \in 1 .. current : t # current => turns'[t] = turns[t]
  BY <1>1, <1>2, TurnReplaced DEF Inv
<1>5. Entered'
  BY <1>1, <1>3, <1>4 DEF Inv, Entered, StateIn
<1>6. LastRuns'
  BY <1>1, <1>3, <1>4 DEF Inv, LastRuns, StateIn, Waits
<1>7. ItemsPromoted'
  BY <1>1, <1>3, <1>4 DEF Inv, ItemsPromoted, StateIn
<1>8. StoredOnce'
  BY <1>1, <1>3, <1>4 DEF Inv, StoredOnce, StateIn, Messages
<1>. QED  BY <1>3, <1>4, <1>5, <1>6, <1>7, <1>8

\* The end of a turn cancels what was pending.
LEMMA TurnEnded ==
  ASSUME Inv, Running, NEW st \in Statuses, st # "running", EndTurn(st)
  PROVE  /\ turns' \in Seq(TurnRecords) /\ current' = current
         /\ turns'[current].status = st
         /\ turns'[current].items = turns[current].items
         /\ turns'[current].entries = turns[current].entries
         /\ turns'[current].state = CancelPending(turns[current].state)
         /\ \A t \in 1 .. current : t # current => turns'[t] = turns[t]
         /\ Entered' /\ LastRuns' /\ ItemsPromoted' /\ StoredOnce'
<1>1. current \in 1 .. current /\ turns[current] \in TurnRecords
  BY LenProperties, ElementOfSeq DEF Inv, Typed, current, Running
<1>2. PICK r \in [Messages -> EntryStates], w \in Seq(Messages) :
        r = CancelPending(turns[current].state) /\ w = turns[current].items
  BY <1>1 DEF CancelPending, TurnRecords, EntryStates
<1>3. turns' = [turns EXCEPT ![current] =
                  [turns[current] EXCEPT !.status = st, !.state = r, !.items = w]]
  BY <1>1, <1>2 DEF EndTurn, TurnRecords, Inv, Typed
<1>4. \A m \in Messages : /\ r[m] # "pending"
                          /\ r[m] = "none" <=> StateIn(current, m) = "none"
                          /\ r[m] = "promoted" <=> StateIn(current, m) = "promoted"
  BY <1>1, <1>2 DEF CancelPending, StateIn, EntryStates
<1>5. \A m \in Messages : r[m] = "promoted" <=> m \in ToSet(w)
  BY <1>1, <1>2, <1>4 DEF Inv, ItemsPromoted
<1>6. IsInjective(w)
  BY <1>1, <1>2 DEF Inv, Entered
<1>7. /\ turns' \in Seq(TurnRecords) /\ current' = current
      /\ turns'[current].status = st /\ turns'[current].items = w
      /\ turns'[current].state = r /\ turns'[current].entries = turns[current].entries
      /\ \A t \in 1 .. current : t # current => turns'[t] = turns[t]
      /\ Entered' /\ LastRuns' /\ ItemsPromoted' /\ StoredOnce'
  <2>1. Restates(st, r, w)
    BY <1>4, <1>5, <1>6 DEF Restates
  <2>2. Restated(st, r, w)
    BY <1>3, <2>1, StatesChanged
  <2>. QED  BY <2>2 DEF Restated
<1>. QED  BY <1>2, <1>7

-----------------------------------------------------------------------------
(* The invariant: each step keeps it *)

\* A step that changes neither the conversation nor the transcript, and no
\* verdict on a message of the job that was admitted.
SameTalk ==
  /\ UNCHANGED given /\ current' = current
  /\ loop'.pc # "none" => turns'[current].items = turns[current].items
  /\ Talks(loop') => Talks(loop) /\ loop'.chat = loop.chat
  /\ Answered(loop') => Answered(loop)
  /\ loop'.pc = "settle" => loop.pc = "settle" /\ loop'.batch = loop.batch /\ loop'.chat = loop.chat
  /\ \A j \in JobSteers : job.steers[j] = "admitted" => job'.steers[j] = "admitted"

\* It stays what the transcript owes.
LEMMA TalkStays ==
  ASSUME Inv, SameTalk
  PROVE  ChatFollows' /\ ShownAdmitted'
<1>. USE DEF SameTalk
<1>0. /\ Talks(loop)' => Talks(loop) /\ loop'.pc # "none" /\ loop'.chat = loop.chat
      /\ Answered(loop)' => Answered(loop) /\ loop'.pc # "none"
  BY DEF Talks, Answered
<1>1. ChatFollows'
  <2>1. ChatFollows
    BY DEF Inv
  <2>2. Talks(loop)' => Follows(turns'[current].items, loop'.chat, given[current])
    BY <1>0, <2>1 DEF ChatFollows
  <2>3. loop'.pc = "settle" =>
          \E before \in Seq(Messages) : /\ turns'[current].items = before \o loop'.batch
                                        /\ Follows(before, loop'.chat, given[current])
    BY <2>1 DEF ChatFollows
  <2>4. Answered(loop)' => Due(turns'[current].items, given[current].lost) \subseteq given[current].shown
    BY <1>0, <2>1 DEF ChatFollows
  <2>. QED  BY <2>2, <2>3, <2>4 DEF ChatFollows
<1>2. ShownAdmitted'
  <2>1. ShownAdmitted
    BY DEF Inv
  <2>2. \A t \in 1 .. current, j \in JobSteers : j \in given[t].shown => job'.steers[j] = "admitted"
    BY <2>1 DEF ShownAdmitted
  <2>3. Talks(loop)' => \A j \in JobSteers : j \in ToSet(turns'[current].items) => job'.steers[j] = "admitted"
    BY <1>0, <2>1 DEF ShownAdmitted
  <2>4. loop'.pc = "settle" => \A j \in JobSteers :
          j \in ToSet(turns'[current].items) => job'.steers[j] = "admitted" \/ j \in ToSet(loop'.batch)
    BY <2>1 DEF ShownAdmitted
  <2>. QED  BY <2>2, <2>3, <2>4 DEF ShownAdmitted
<1>. QED  BY <1>1, <1>2

\* No execution.
LEMMA NoLoopTyped == NoLoop \in Loops /\ NoChat \in Chats
BY EmptySeq DEF NoLoop, NoChat, Loops, Chats, NoSteers, PCs, Claims, SteerStates

\* The turn runs and nothing has been claimed.
LEMMA ReserveSteerKeeps ==
  ASSUME Inv, NEW m \in Messages, ReserveSteer(m)
  PROVE  Inv'
<1>. USE DEF Inv, ReserveSteer, process
<1>1. Typed'  BY DEF Typed, current, Senders, Loops, PCs, Claims, SteerStates, NoSteers, Messages
<1>2. Entered' /\ LastRuns' /\ ItemsPromoted' /\ StoredOnce'  BY ThreadStays
<1>3. LoopRuns'  BY DEF LoopRuns, Running, current
<1>4. SendersInTurn'  BY DEF Typed, SendersInTurn, Running, current, Messages
<1>5. ClaimDrained'  BY DEF Typed, ClaimDrained, Drained
<1>6. Preparing'  BY DEF Typed, Preparing, current
<1>7. SameTalk  BY DEF Typed, Loops, SameTalk, Talks, Answered, current
<1>8. ChatFollows' /\ ShownAdmitted'  BY <1>7, TalkStays
<1>9. NothingLeft'  BY DEF ClaimDrained, NothingLeft, Waits, StateIn, current
<1>. QED  BY <1>1, <1>2, <1>3, <1>4, <1>5, <1>6, <1>7, <1>8, <1>9 DEF Inv

\* A sender less.
LEMMA RefuseSteerKeeps ==
  ASSUME Inv, NEW m \in Messages, RefuseSteer(m)
  PROVE  Inv'
<1>. USE DEF Inv, RefuseSteer, Return, process
<1>1. Typed'  BY DEF Typed, current, Senders, Loops, PCs, Claims, SteerStates, NoSteers, Messages
<1>2. Entered' /\ LastRuns' /\ ItemsPromoted' /\ StoredOnce'  BY ThreadStays
<1>3. LoopRuns'  BY DEF LoopRuns, Running, current
<1>4. SendersInTurn'  BY DEF Typed, SendersInTurn, Running, current, Messages
<1>5. ClaimDrained'  BY DEF Typed, ClaimDrained, Drained
<1>6. Preparing'  BY DEF Typed, Preparing, current
<1>7. SameTalk  BY DEF Typed, Loops, SameTalk, Talks, Answered, current
<1>8. ChatFollows' /\ ShownAdmitted'  BY <1>7, TalkStays
<1>9. NothingLeft'  BY DEF ClaimDrained, NothingLeft, Waits, StateIn, current
<1>. QED  BY <1>1, <1>2, <1>3, <1>4, <1>5, <1>6, <1>7, <1>8, <1>9 DEF Inv

\* There is no turn yet, so there is no claim that was drained.
LEMMA ReserveBeforeTurnKeeps ==
  ASSUME Inv, NEW j \in Messages, ReserveBeforeTurn(j)
  PROVE  Inv'
<1>. USE DEF Inv, ReserveBeforeTurn, process
<1>1. Typed'  BY DEF Typed, current, Senders, Loops, PCs, Claims, SteerStates, NoSteers, Messages
<1>2. Entered' /\ LastRuns' /\ ItemsPromoted' /\ StoredOnce'  BY ThreadStays
<1>3. LoopRuns'  BY DEF LoopRuns, Running, current
<1>4. SendersInTurn'  BY DEF Typed, SendersInTurn, Running, current, Messages
<1>5. ClaimDrained'  BY DEF Typed, ClaimDrained, Drained, LoopRuns, Running
<1>6. Preparing'  BY DEF Typed, Preparing, current
<1>7. SameTalk  BY DEF Typed, Loops, SameTalk, Talks, Answered, current
<1>8. ChatFollows' /\ ShownAdmitted'  BY <1>7, TalkStays
<1>9. NothingLeft'  BY DEF ClaimDrained, NothingLeft, Waits, StateIn, current
<1>. QED  BY <1>1, <1>2, <1>3, <1>4, <1>5, <1>6, <1>7, <1>8, <1>9 DEF Inv

\* A new message waits; what was admitted stays admitted.
LEMMA QueueBeforeTurnKeeps ==
  ASSUME Inv, NEW j \in Messages, QueueBeforeTurn(j)
  PROVE  Inv'
<1>. USE DEF Inv, QueueBeforeTurn, MayQueue, Return, process
<1>1. Typed'  BY DEF Typed, current, Senders, Loops, PCs, Claims, SteerStates, NoSteers, Messages
<1>2. Entered' /\ LastRuns' /\ ItemsPromoted' /\ StoredOnce'  BY ThreadStays
<1>3. LoopRuns'  BY DEF LoopRuns, Running, current
<1>4. SendersInTurn'  BY DEF Typed, SendersInTurn, Running, current, Messages
<1>5. ClaimDrained'  BY DEF Typed, ClaimDrained, Drained
<1>6. Preparing'  BY DEF Typed, Preparing, current
<1>7. SameTalk  BY DEF Typed, Loops, SameTalk, Talks, Answered, current
<1>8. ChatFollows' /\ ShownAdmitted'  BY <1>7, TalkStays
<1>9. NothingLeft'  BY DEF ClaimDrained, NothingLeft, Waits, StateIn, current
<1>. QED  BY <1>1, <1>2, <1>3, <1>4, <1>5, <1>6, <1>7, <1>8, <1>9 DEF Inv

\* A new message is queued; what was admitted stays admitted.
LEMMA QueueSteerKeeps ==
  ASSUME Inv, NEW j \in Messages, QueueSteer(j)
  PROVE  Inv'
<1>. USE DEF Inv, QueueSteer, MayQueue, process
<1>1. Typed'  BY DEF Typed, current, Senders, Loops, PCs, Claims, SteerStates, NoSteers, Messages
<1>2. Entered' /\ LastRuns' /\ ItemsPromoted' /\ StoredOnce'  BY ThreadStays
<1>3. LoopRuns'  BY DEF LoopRuns, Running, current
<1>4. SendersInTurn'  BY DEF Typed, SendersInTurn, Running, current, Messages
<1>5. ClaimDrained'  BY DEF Typed, ClaimDrained, Drained
<1>6. Preparing'  BY DEF Typed, Preparing, current
<1>7. SameTalk  BY DEF Typed, Loops, SameTalk, Talks, Answered, current
<1>8. ChatFollows' /\ ShownAdmitted'  BY <1>7, TalkStays
<1>9. NothingLeft'  BY DEF ClaimDrained, NothingLeft, Waits, StateIn, current
<1>. QED  BY <1>1, <1>2, <1>3, <1>4, <1>5, <1>6, <1>7, <1>8, <1>9 DEF Inv

\* The call stays in its turn.
LEMMA FailSteerKeeps ==
  ASSUME Inv, NEW j \in Messages, FailSteer(j)
  PROVE  Inv'
<1>. USE DEF Inv, FailSteer, process
<1>1. Typed'  BY DEF Typed, current, Senders, Loops, PCs, Claims, SteerStates, NoSteers, Messages
<1>2. Entered' /\ LastRuns' /\ ItemsPromoted' /\ StoredOnce'  BY ThreadStays
<1>3. LoopRuns'  BY DEF LoopRuns, Running, current
<1>4. SendersInTurn'  BY DEF Typed, SendersInTurn, Running, current, Messages
<1>5. ClaimDrained'  BY DEF Typed, ClaimDrained, Drained
<1>6. Preparing'  BY DEF Typed, Preparing, current
<1>7. SameTalk  BY DEF Typed, Loops, SameTalk, Talks, Answered, current
<1>8. ChatFollows' /\ ShownAdmitted'  BY <1>7, TalkStays
<1>9. NothingLeft'  BY DEF ClaimDrained, NothingLeft, Waits, StateIn, current
<1>. QED  BY <1>1, <1>2, <1>3, <1>4, <1>5, <1>6, <1>7, <1>8, <1>9 DEF Inv

\* Only a queued message is rejected, never one that was admitted.
LEMMA RejectSteerKeeps ==
  ASSUME Inv, NEW j \in Messages, RejectSteer(j)
  PROVE  Inv'
<1>. USE DEF Inv, RejectSteer, Return, process
<1>1. Typed'  BY DEF Typed, current, Senders, Loops, PCs, Claims, SteerStates, NoSteers, Messages
<1>2. Entered' /\ LastRuns' /\ ItemsPromoted' /\ StoredOnce'  BY ThreadStays
<1>3. LoopRuns'  BY DEF LoopRuns, Running, current
<1>4. SendersInTurn'  BY DEF Typed, SendersInTurn, Running, current, Messages
<1>5. ClaimDrained'  BY DEF Typed, ClaimDrained, Drained
<1>6. Preparing'  BY DEF Typed, Preparing, current
<1>7. SameTalk  BY DEF Typed, Loops, SameTalk, Talks, Answered, current
<1>8. ChatFollows' /\ ShownAdmitted'  BY <1>7, TalkStays
<1>9. NothingLeft'  BY DEF ClaimDrained, NothingLeft, Waits, StateIn, current
<1>. QED  BY <1>1, <1>2, <1>3, <1>4, <1>5, <1>6, <1>7, <1>8, <1>9 DEF Inv

\* Only open messages expire.
LEMMA EndJobKeeps ==
  ASSUME Inv, EndJob
  PROVE  Inv'
<1>. USE DEF Inv, EndJob, callers, process
<1>1. Typed'  BY DEF Typed, current, Senders, Loops, PCs, Claims, SteerStates, NoSteers, Messages
<1>2. Entered' /\ LastRuns' /\ ItemsPromoted' /\ StoredOnce'  BY ThreadStays
<1>3. LoopRuns'  BY DEF LoopRuns, Running, current
<1>4. SendersInTurn'  BY DEF Typed, SendersInTurn, Running, current, Messages
<1>5. ClaimDrained'  BY DEF Typed, ClaimDrained, Drained
<1>6. Preparing'  BY DEF Typed, Preparing, current
<1>7. SameTalk  BY DEF Typed, Loops, SameTalk, Talks, Answered, current
<1>8. ChatFollows' /\ ShownAdmitted'  BY <1>7, TalkStays
<1>9. NothingLeft'  BY DEF ClaimDrained, NothingLeft, Waits, StateIn, current
<1>. QED  BY <1>1, <1>2, <1>3, <1>4, <1>5, <1>6, <1>7, <1>8, <1>9 DEF Inv

\* The open messages of the record, each once.
LEMMA LoadSteersKeeps ==
  ASSUME Inv, LoadSteers
  PROVE  Inv'
<1>. USE DEF Inv, LoadSteers, At, Goes, callers, process
<1>1. PICK order : /\ order \in SetToSeqs({j \in JobSteers : job.steers[j] \in {"waiting", "queued"}})
                   /\ loop' = [loop EXCEPT !.pc = "prepare", !.batch = order, !.known = job.steers]
  OBVIOUS
<1>2. IsFiniteSet({j \in JobSteers : job.steers[j] \in {"waiting", "queued"}})
  BY SenderAssumption, FS_Subset
<1>3. order \in Seq(Messages) /\ IsInjective(order)
      /\ \A m \in ToSet(order) : m \in JobSteers /\ job.steers[m] \in {"waiting", "queued"}
  <2>. PICK S : S = {j \in JobSteers : job.steers[j] \in {"waiting", "queued"}}
    OBVIOUS
  <2>1. order \in Seq(S) /\ IsInjective(order)
    BY <1>1, <1>2, Orders
  <2>. QED  BY <2>1, Members, SeqMonotonic DEF Messages
<1>4. /\ loop.pc = "load" /\ phase = "up"
      /\ UNCHANGED <<turns, job, given, sender, seen, sends, phase, crashes>>
  BY <1>1
<1>. USE <1>4
<1>. HIDE DEF LoadSteers
<1>5. Typed'
  BY <1>1, <1>3 DEF Typed, current, Senders, Loops, PCs, Claims, SteerStates, NoSteers,
         Messages, Loops
<1>6. Entered' /\ LastRuns' /\ ItemsPromoted' /\ StoredOnce'  BY ThreadStays
<1>7. LoopRuns'  BY <1>1 DEF LoopRuns, Running, current
<1>8. SendersInTurn'  BY <1>1 DEF Typed, SendersInTurn, Running, current, Messages
<1>9. ClaimDrained'  BY <1>1 DEF Typed, ClaimDrained, Drained
<1>10. Preparing'  BY <1>1, <1>3 DEF Typed, Preparing, current, Loops
<1>11. SameTalk  BY <1>1, <1>3 DEF Typed, Loops, SameTalk, Talks, Answered, current
<1>12. ChatFollows' /\ ShownAdmitted'  BY <1>11, TalkStays
<1>13. NothingLeft'  BY <1>1 DEF ClaimDrained, NothingLeft, Waits, StateIn, current
<1>. QED  BY <1>5, <1>6, <1>7, <1>8, <1>9, <1>10, <1>11, <1>12, <1>13 DEF Inv

\* The message in hand was open, so none that was admitted is queued again.
LEMMA BindSteerKeeps ==
  ASSUME Inv, BindSteer
  PROVE  Inv'
<1>. USE DEF Inv, BindSteer, At, Goes, callers, process
<1>1. PICK h \in JobSteers : h = Head(loop.batch) /\ h \in ToSet(loop.batch)
  BY RestDistinct DEF Typed, Loops, Preparing
<1>2. /\ loop.pc = "prepare" /\ phase = "up" /\ loop.batch # <<>>
      /\ job.steers = loop.known /\ job.steers[h] \in {"waiting", "queued"}
      /\ job' = [job EXCEPT !.steers[h] = "queued"]
      /\ loop' = [loop EXCEPT !.pc = "bound", !.known = job'.steers]
      /\ UNCHANGED <<turns, given, sender, seen, sends, phase, crashes>>
  BY <1>1 DEF Preparing
<1>. USE <1>2
<1>. HIDE DEF BindSteer
<1>3. Typed'  BY DEF Typed, current, Senders, Loops, PCs, Claims, SteerStates, NoSteers, Messages
<1>4. Entered' /\ LastRuns' /\ ItemsPromoted' /\ StoredOnce'  BY ThreadStays
<1>5. LoopRuns'  BY DEF LoopRuns, Running, current
<1>6. SendersInTurn'  BY DEF Typed, SendersInTurn, Running, current, Messages
<1>7. ClaimDrained'  BY DEF Typed, ClaimDrained, Drained
<1>8. Preparing'  BY DEF Typed, Preparing, current, Loops
<1>9. SameTalk  BY DEF Typed, Loops, SameTalk, Talks, Answered, current
<1>10. ChatFollows' /\ ShownAdmitted'  BY <1>9, TalkStays
<1>11. NothingLeft'  BY DEF ClaimDrained, NothingLeft, Waits, StateIn, current
<1>. QED  BY <1>3, <1>4, <1>5, <1>6, <1>7, <1>8, <1>9, <1>10, <1>11 DEF Inv

\* The message in hand was open, and is done with.
LEMMA RejectPreparedKeeps ==
  ASSUME Inv, RejectPrepared
  PROVE  Inv'
<1>. USE DEF Inv, RejectPrepared, At, Goes, callers, process
<1>1. PICK h \in JobSteers, r \in Seq(Messages) :
        /\ h = Head(loop.batch) /\ h \in ToSet(loop.batch) /\ r = Tail(loop.batch)
        /\ IsInjective(r) /\ ToSet(r) = ToSet(loop.batch) \ {h}
  <2>1. loop.batch \in Seq(Messages) /\ loop.batch # <<>> /\ IsInjective(loop.batch)
        /\ \A m \in ToSet(loop.batch) : m \in JobSteers
    BY DEF Typed, Loops, Preparing
  <2>. HIDE DEF RejectPrepared, Inv
  <2>. QED  BY <2>1, RestDistinct
<1>2. /\ loop.pc = "prepare" /\ phase = "up"
      /\ job.steers = loop.known /\ loop.known[h] \in {"waiting", "queued"}
      /\ job' = [job EXCEPT !.steers[h] = "rejected"]
      /\ loop' = [loop EXCEPT !.batch = r, !.known = job'.steers]
      /\ UNCHANGED <<turns, given, sender, seen, sends, phase, crashes>>
  BY <1>1 DEF Preparing, Typed, Loops
<1>. USE <1>2
<1>. HIDE DEF RejectPrepared
<1>3. Typed'  BY DEF Typed, current, Senders, Loops, PCs, Claims, SteerStates, NoSteers, Messages
<1>4. Entered' /\ LastRuns' /\ ItemsPromoted' /\ StoredOnce'  BY ThreadStays
<1>5. LoopRuns'  BY DEF LoopRuns, Running, current
<1>6. SendersInTurn'  BY DEF Typed, SendersInTurn, Running, current, Messages
<1>7. ClaimDrained'  BY DEF Typed, ClaimDrained, Drained
<1>8. Preparing'  BY <1>1 DEF Typed, Preparing, current
<1>9. SameTalk  BY DEF Typed, Loops, SameTalk, Talks, Answered, current
<1>10. ChatFollows' /\ ShownAdmitted'  BY <1>9, TalkStays
<1>11. NothingLeft'  BY DEF ClaimDrained, NothingLeft, Waits, StateIn, current
<1>. QED  BY <1>3, <1>4, <1>5, <1>6, <1>7, <1>8, <1>9, <1>10, <1>11 DEF Inv

\* The preparation is over.
LEMMA PreparedKeeps ==
  ASSUME Inv, Prepared
  PROVE  Inv'
<1>. USE DEF Inv, Prepared, At, Goes, callers, process
<1>1. Typed'  BY DEF Typed, current, Senders, Loops, PCs, Claims, SteerStates, NoSteers, Messages
<1>2. Entered' /\ LastRuns' /\ ItemsPromoted' /\ StoredOnce'  BY ThreadStays
<1>3. LoopRuns'  BY DEF LoopRuns, Running, current
<1>4. SendersInTurn'  BY DEF Typed, SendersInTurn, Running, current, Messages
<1>5. ClaimDrained'  BY DEF Typed, ClaimDrained, Drained
<1>6. Preparing'  BY DEF Typed, Preparing, current
<1>7. SameTalk  BY DEF Typed, Loops, SameTalk, Talks, Answered, current
<1>8. ChatFollows' /\ ShownAdmitted'  BY <1>7, TalkStays
<1>9. NothingLeft'  BY DEF ClaimDrained, NothingLeft, Waits, StateIn, current
<1>. QED  BY <1>1, <1>2, <1>3, <1>4, <1>5, <1>6, <1>7, <1>8, <1>9 DEF Inv

\* A candidate that finds nothing pending leaves nothing behind.
LEMMA ReadPendingKeeps ==
  ASSUME Inv, ReadPending
  PROVE  Inv'
<1>. USE DEF Inv, ReadPending, At, Goes, callers, process
<1>1. current \in 1 .. current /\ turns[current] \in TurnRecords
  BY LenProperties, ElementOfSeq DEF Typed, LoopRuns, Running, current
<1>2. Pending(current) \in Seq(Messages) /\ (Pending(current) = <<>> => Waits(current) = {})
  BY <1>1, AmongMembers, Members DEF Pending, TurnRecords, Waits, Entered, StateIn
<1>3. Pending(current) # <<>> =>
        LET b == Batch(Pending(current)) IN b \in Seq(Messages) /\ b # <<>> /\ Uniform(b)
  BY <1>2, BatchIsUniform
<1>4. /\ loop.pc = "read" /\ phase = "up"
      /\ UNCHANGED <<turns, job, given, sender, seen, sends, phase, crashes>>
  OBVIOUS
<1>5. PICK e \in Seq(Messages), b \in Seq(Messages) :
        \/ /\ Waits(current) = {}
           /\ \/ loop.claim = "candidate" /\ loop' = [loop EXCEPT !.pc = "publish", !.stale = e]
              \/ loop.claim # "candidate" /\ loop' = [loop EXCEPT !.pc = "call", !.stale = e]
        \/ b # <<>> /\ Uniform(b) /\ loop' = [loop EXCEPT !.pc = "validate", !.batch = b]
  BY <1>2, <1>3, EmptySeq
<1>. USE <1>4, <1>5
<1>. HIDE DEF ReadPending
<1>6. Typed'
  BY ZenonT(60) DEF Typed, current, Senders, Loops, PCs, Claims, SteerStates, NoSteers, Messages
<1>7. Entered' /\ LastRuns' /\ ItemsPromoted' /\ StoredOnce'  BY ThreadStays
<1>8. LoopRuns'  BY DEF LoopRuns, Running, current, Typed, Loops
<1>9. SendersInTurn'  BY DEF Typed, SendersInTurn, Running, current, Messages
<1>10. ClaimDrained'  BY DEF Typed, ClaimDrained, Drained, Typed, Loops
<1>11. Preparing'  BY DEF Typed, Preparing, current, Typed, Loops
<1>12. SameTalk  BY DEF Typed, Loops, SameTalk, Talks, Answered, current
<1>13. ChatFollows' /\ ShownAdmitted'  BY <1>12, TalkStays
<1>14. NothingLeft'  BY DEF ClaimDrained, NothingLeft, Waits, StateIn, current, Typed, Loops
<1>. QED  BY <1>6, <1>7, <1>8, <1>9, <1>10, <1>11, <1>12, <1>13, <1>14 DEF Inv

\* The loop goes on with the batch.
LEMMA ValidateSteersKeeps ==
  ASSUME Inv, ValidateSteers
  PROVE  Inv'
<1>. USE DEF Inv, ValidateSteers, At, Goes, callers, process
<1>1. Typed'  BY DEF Typed, current, Senders, Loops, PCs, Claims, SteerStates, NoSteers, Messages
<1>2. Entered' /\ LastRuns' /\ ItemsPromoted' /\ StoredOnce'  BY ThreadStays
<1>3. LoopRuns'  BY DEF LoopRuns, Running, current
<1>4. SendersInTurn'  BY DEF Typed, SendersInTurn, Running, current, Messages
<1>5. ClaimDrained'  BY DEF Typed, ClaimDrained, Drained
<1>6. Preparing'  BY DEF Typed, Preparing, current
<1>7. SameTalk  BY DEF Typed, Loops, SameTalk, Talks, Answered, current
<1>8. ChatFollows' /\ ShownAdmitted'  BY <1>7, TalkStays
<1>9. NothingLeft'  BY DEF ClaimDrained, NothingLeft, Waits, StateIn, current
<1>. QED  BY <1>1, <1>2, <1>3, <1>4, <1>5, <1>6, <1>7, <1>8, <1>9 DEF Inv

\* The batch is dropped.
LEMMA PromoteStaleKeeps ==
  ASSUME Inv, PromoteStale
  PROVE  Inv'
<1>. USE DEF Inv, PromoteStale, At, Goes, callers, process
<1>1. Typed'
  BY EmptySeq DEF Typed, current, Senders, Loops, PCs, Claims, SteerStates, NoSteers, Messages
<1>2. Entered' /\ LastRuns' /\ ItemsPromoted' /\ StoredOnce'  BY ThreadStays
<1>3. LoopRuns'  BY DEF LoopRuns, Running, current
<1>4. SendersInTurn'  BY DEF Typed, SendersInTurn, Running, current, Messages
<1>5. ClaimDrained'  BY DEF Typed, ClaimDrained, Drained
<1>6. Preparing'  BY DEF Typed, Preparing, current
<1>7. SameTalk  BY DEF Typed, Loops, SameTalk, Talks, Answered, current
<1>8. ChatFollows' /\ ShownAdmitted'  BY <1>7, TalkStays
<1>9. NothingLeft'  BY DEF ClaimDrained, NothingLeft, Waits, StateIn, current
<1>. QED  BY <1>1, <1>2, <1>3, <1>4, <1>5, <1>6, <1>7, <1>8, <1>9 DEF Inv

\* What was admitted stays admitted.
LEMMA SettleSteerKeeps ==
  ASSUME Inv, SettleSteer
  PROVE  Inv'
<1>. USE DEF Inv, SettleSteer, At, Goes, callers, process
<1>1. Typed'  BY DEF Typed, current, Senders, Loops, PCs, Claims, SteerStates, NoSteers, Messages
<1>2. Entered' /\ LastRuns' /\ ItemsPromoted' /\ StoredOnce'  BY ThreadStays
<1>3. LoopRuns'  BY DEF LoopRuns, Running, current
<1>4. SendersInTurn'  BY DEF Typed, SendersInTurn, Running, current, Messages
<1>5. ClaimDrained'  BY DEF Typed, ClaimDrained, Drained
<1>6. Preparing'  BY DEF Typed, Preparing, current
<1>7. SameTalk  BY DEF Typed, Loops, SameTalk, Talks, Answered, current
<1>8. ChatFollows' /\ ShownAdmitted'  BY <1>7, TalkStays
<1>9. NothingLeft'  BY DEF ClaimDrained, NothingLeft, Waits, StateIn, current
<1>. QED  BY <1>1, <1>2, <1>3, <1>4, <1>5, <1>6, <1>7, <1>8, <1>9 DEF Inv

\* The loop begins.
LEMMA EnterLoopKeeps ==
  ASSUME Inv, EnterLoop
  PROVE  Inv'
<1>. USE DEF Inv, EnterLoop, At, Goes, callers, process
<1>1. Typed'  BY DEF Typed, current, Senders, Loops, PCs, Claims, SteerStates, NoSteers, Messages
<1>2. Entered' /\ LastRuns' /\ ItemsPromoted' /\ StoredOnce'  BY ThreadStays
<1>3. LoopRuns'  BY DEF LoopRuns, Running, current, Typed, Loops
<1>4. SendersInTurn'  BY DEF Typed, SendersInTurn, Running, current, Messages
<1>5. ClaimDrained'  BY DEF Typed, ClaimDrained, Drained, Loops
<1>6. Preparing'  BY DEF Typed, Preparing, current, Loops
<1>7. SameTalk  BY DEF Typed, Loops, SameTalk, Talks, Answered, current
<1>8. ChatFollows' /\ ShownAdmitted'  BY <1>7, TalkStays
<1>9. NothingLeft'  BY DEF ClaimDrained, NothingLeft, Waits, StateIn, current
<1>. QED  BY <1>1, <1>2, <1>3, <1>4, <1>5, <1>6, <1>7, <1>8, <1>9 DEF Inv

\* The conversation goes with the batch, too.
LEMMA SteeredFollows ==
  ASSUME Inv, loop.pc = "settle", NEW chat \in Steered(loop.batch)
  PROVE  chat \in Chats /\ Follows(turns[current].items, chat, given[current])
<1>1. /\ current \in 1 .. current /\ turns[current] \in TurnRecords /\ given[current] \in Shows
      /\ loop.batch \in Seq(Messages) /\ loop.batch # <<>> /\ Uniform(loop.batch) /\ loop.chat \in Chats
  BY LenProperties, ElementOfSeq DEF Inv, Typed, LoopRuns, Running, current, Loops, Preparing
<1>. PICK b \in Seq(Messages), old \in Chats, g \in Shows :
       b = loop.batch /\ old = loop.chat /\ g = given[current]
  BY <1>1
<1>2. PICK s \in Seq(Messages) : turns[current].items = s \o b /\ Follows(s, old, g)
  BY DEF Inv, ChatFollows
<1>3. IsInjective(s \o b)
  BY <1>1, <1>2 DEF Inv, Entered
<1>4. Head(b) \in ToSet(b) /\ (ToSet(b) \subseteq Protected \/ ToSet(b) \cap Protected = {})
  <2>1. b # <<>> /\ Uniform(b) /\ 1 \in DOMAIN b /\ Head(b) = b[1]
    BY <1>1, HeadTailProperties, LenProperties, EmptySeq
  <2>. QED  BY <2>1 DEF Uniform, ToSet
<1>5. /\ old.talk \in Seq(Messages) /\ old.lane \in Seq(Messages)
      /\ old.talk \o b \in Seq(Messages) /\ old.lane \o b \in Seq(Messages)
  BY ConcatProperties DEF Chats
<1>6. CASE Head(b) \notin Protected
  <2>1. chat = [talk |-> old.lane \o b, lane |-> old.lane \o b, casework |-> FALSE, step |-> <<>>]
    BY <1>6 DEF Steered, Isolated
  <2>2. chat \in Chats
    BY <1>5, <2>1, EmptySeq DEF Chats
  <2>3. Follows(s \o b, chat, g)
    BY <1>1, <1>2, <1>3, <1>4, <1>6, <2>1, IsolatedFollows
  <2>. QED  BY <1>2, <2>2, <2>3
<1>7. CASE Head(b) \in Protected /\ chat = Added(b)
  <2>1. chat = [old EXCEPT !.talk = @ \o b, !.casework = TRUE, !.step = b]
    BY <1>7 DEF Added
  <2>2. chat \in Chats
    BY <1>5, <2>1 DEF Chats
  <2>3. ToSet(b) \subseteq Protected
    BY <1>4, <1>7
  <2>4. Follows(s \o b, chat, g)
    BY <1>2, <1>3, <2>1, <2>3, AddedFollows
  <2>. QED  BY <1>2, <2>2, <2>4
<1>8. CASE Head(b) \in Protected /\ chat # Added(b)
  <2>1. PICK part \in OrdinaryParts(b) : g.lost /\ chat = Isolated(part)
    BY <1>8 DEF Steered
  <2>2. PICK T : part = Among(b, T)
    BY DEF OrdinaryParts
  <2>3. part \in Seq(Messages) /\ Selects(part, b)
    BY <2>2, AmongMembers, SelectionSelects
  <2>4. chat = [talk |-> old.lane \o part, lane |-> old.lane \o part, casework |-> FALSE, step |-> <<>>]
    BY <2>1 DEF Isolated
  <2>5. old.lane \o part \in Seq(Messages)
    BY <1>5, <2>3, ConcatProperties
  <2>6. chat \in Chats
    BY <2>4, <2>5, EmptySeq DEF Chats
  <2>7. g.lost = TRUE
    BY <2>1 DEF Shows
  <2>8. Selects(old.lane, s) /\ Due(s \o b, TRUE) \subseteq g.shown \cup ToSet(old.lane)
    <3>1. ToSet(b) \subseteq Protected
      BY <1>4, <1>8
    <3>2. Due(s \o b, TRUE) \subseteq Due(s, TRUE)
      BY <3>1, DueConcat
    <3>. QED  BY <1>2, <3>2 DEF Follows
  <2>9. Follows(s \o b, chat, g)
    BY <1>3, <2>3, <2>4, <2>7, <2>8, PartFollows
  <2>. QED  BY <1>2, <2>6, <2>9
<1>. QED  BY <1>6, <1>7, <1>8

\* The conversation has the batch now, of which every message of the job was
\* admitted.
LEMMA GiveKeeps ==
  ASSUME Inv, Give
  PROVE  Inv'
<1>. USE DEF Inv, Give, At, Goes, callers, process
<1>1. loop.pc = "settle" /\ phase = "up"
      /\ UNCHANGED <<turns, given, job, sender, seen, sends, phase, crashes>>
  OBVIOUS
<1>2. PICK chat \in Chats, e \in Seq(Messages), pc \in {"read", "call"}, claim \in Claims \ {"candidate"} :
        /\ loop' = [loop EXCEPT !.pc = pc, !.claim = claim, !.batch = e, !.chat = chat]
        /\ Follows(turns[current].items, chat, given[current])
  <2>1. PICK chat \in Steered(loop.batch) :
          loop' = [loop EXCEPT !.pc = IF loop.claim = "candidate" THEN "read" ELSE "call",
                               !.claim = IF @ = "candidate" THEN "none" ELSE @,
                               !.batch = <<>>, !.chat = chat]
    OBVIOUS
  <2>2. loop.claim \in Claims
    BY DEF Typed, Loops
  <2>. HIDE DEF Inv, Give
  <2>3. chat \in Chats /\ Follows(turns[current].items, chat, given[current])
    BY <1>1, <2>1, SteeredFollows
  <2>. PICK e \in Seq(Messages) : e = <<>>
    BY EmptySeq
  <2>4. CASE loop.claim = "candidate"
    <3>1. loop' = [loop EXCEPT !.pc = "read", !.claim = "none", !.batch = e, !.chat = chat]
      BY <2>1, <2>4
    <3>2. "none" \in Claims \ {"candidate"}
      BY DEF Claims
    <3>. QED  BY <2>3, <3>1, <3>2
  <2>5. CASE loop.claim # "candidate"
    <3>1. loop' = [loop EXCEPT !.pc = "call", !.claim = loop.claim, !.batch = e, !.chat = chat]
      BY <2>1, <2>5
    <3>. QED  BY <2>2, <2>3, <2>5, <3>1
  <2>. QED  BY <2>4, <2>5
<1>3. \A j \in JobSteers : j \in ToSet(turns[current].items) => job.steers[j] = "admitted"
  <2>1. loop.batch \in Seq(Messages)
    BY DEF Typed, Loops
  <2>2. ToSet(loop.batch) \cap {j \in JobSteers : job.steers[j] # "admitted"} = {}
    BY <2>1, AmongMembers, Members DEF Unsettled
  <2>. QED  BY <1>1, <2>2 DEF ShownAdmitted
<1>. USE <1>1, <1>2
<1>. HIDE DEF Give
<1>4. Typed'  BY DEF Typed, current, Senders, Loops, PCs, Claims, SteerStates, NoSteers, Messages
<1>5. Entered' /\ LastRuns' /\ ItemsPromoted' /\ StoredOnce'  BY ThreadStays
<1>6. LoopRuns'  BY DEF LoopRuns, Running, current, Typed, Loops
<1>7. SendersInTurn'  BY DEF Typed, SendersInTurn, Running, current, Messages
<1>8. ClaimDrained'  BY DEF Typed, ClaimDrained, Drained, Loops
<1>9. Preparing'  BY DEF Typed, Preparing, current, Loops
<1>10. loop'.pc \in {"read", "call"} /\ loop'.claim # "candidate" /\ loop'.chat = chat
  BY DEF Typed, Loops
<1>11. ChatFollows'  BY <1>10 DEF ChatFollows, Answered, current
<1>12. ShownAdmitted'  BY <1>3, <1>10 DEF ShownAdmitted, current
<1>13. NothingLeft'  BY <1>10 DEF NothingLeft
<1>. QED  BY <1>4, <1>5, <1>6, <1>7, <1>8, <1>9, <1>11, <1>12, <1>13 DEF Inv

\* The last record of what the model was shown is replaced.
LEMMA ShownReplaced ==
  ASSUME Typed, current > 0, NEW g \in Shows, given' = [given EXCEPT ![current] = g]
  PROVE  /\ given' \in Seq(Shows) /\ Len(given') = current /\ given'[current] = g
         /\ \A t \in 1 .. current : t # current => given'[t] = given[t]
<1>1. given \in Seq(Shows) /\ Len(given) = current /\ current \in 1 .. Len(given)
  BY LenProperties DEF Typed, current
<1>. QED  BY <1>1, ExceptSeq

\* The model was shown all that it should know of the transcript.
LEMMA CallProviderKeeps ==
  ASSUME Inv, CallProvider
  PROVE  Inv'
<1>. USE DEF Inv, CallProvider, At, Goes, callers, process
<1>1. /\ current > 0 /\ current \in 1 .. current /\ given[current] \in Shows
      /\ turns[current] \in TurnRecords /\ loop.chat \in Chats
  BY LenProperties, ElementOfSeq DEF Typed, LoopRuns, Running, current, Loops
<1>2. /\ loop.pc = "call" /\ phase = "up" /\ loop' = [loop EXCEPT !.pc = "answered"]
      /\ UNCHANGED <<turns, job, sender, seen, sends, phase, crashes>>
  OBVIOUS
<1>. PICK old \in Shows : old = given[current]
  BY <1>1
<1>3. Follows(turns[current].items, loop.chat, old)
  BY <1>2 DEF ChatFollows, Talks
<1>4. loop.chat.talk \in Seq(Messages) /\ ToSet(loop.chat.talk) \subseteq ToSet(turns[current].items)
      /\ ToSet(loop.chat.talk) \subseteq Messages
  <2>1. turns[current].items \in Seq(Messages)
    BY <1>1 DEF TurnRecords
  <2>. QED  BY <1>3, <2>1, FollowsTyped, Members
<1>5. PICK g \in Shows : /\ g.shown = old.shown \cup ToSet(loop.chat.talk) /\ g.lost = old.lost
                         /\ given' = [given EXCEPT ![current] = g]
  <2>. PICK g : g = [old EXCEPT !.last = loop.chat.talk, !.shown = @ \cup ToSet(loop.chat.talk)]
    OBVIOUS
  <2>1. g \in Shows /\ g.shown = old.shown \cup ToSet(loop.chat.talk) /\ g.lost = old.lost
    BY <1>4 DEF Shows
  <2>2. given' = [given EXCEPT ![current] = g]
    BY <1>1 DEF Typed, Shows
  <2>. QED  BY <2>1, <2>2
<1>6. /\ given' \in Seq(Shows) /\ Len(given') = current /\ given'[current] = g
      /\ \A t \in 1 .. current : t # current => given'[t] = given[t]
  <2>. HIDE DEF CallProvider, Inv
  <2>1. Typed /\ current > 0
    BY <1>1 DEF Inv
  <2>. QED  BY <1>5, <2>1, ShownReplaced
<1>. USE <1>2
<1>. HIDE DEF CallProvider
<1>7. Typed'  BY <1>6 DEF Typed, current, Senders, Loops, PCs, Claims, SteerStates, NoSteers, Messages
<1>8. Entered' /\ LastRuns' /\ ItemsPromoted' /\ StoredOnce'  BY ThreadStays
<1>9. LoopRuns'  BY DEF LoopRuns, Running, current, Typed, Loops
<1>10. SendersInTurn'  BY DEF Typed, SendersInTurn, Running, current, Messages
<1>11. ClaimDrained'  BY DEF Typed, ClaimDrained, Drained, Loops
<1>12. Preparing'  BY DEF Typed, Preparing, current, Loops
<1>13. loop'.pc = "answered" /\ loop'.chat = loop.chat /\ loop'.claim = loop.claim /\ current' = current
  BY DEF Typed, Loops, current
<1>14. ChatFollows'
  <2>1. Follows(turns[current].items, loop.chat, g)
    BY <1>3, <1>5 DEF Follows
  <2>2. Due(turns[current].items, g.lost) \subseteq g.shown
    BY <1>3, <1>5 DEF Follows
  <2>. QED  BY <1>6, <1>13, <2>1, <2>2 DEF ChatFollows
<1>15. ShownAdmitted'
  <2>1. \A j \in JobSteers : j \in ToSet(turns[current].items) => job.steers[j] = "admitted"
    BY DEF ShownAdmitted, Talks
  <2>2. \A j \in JobSteers : j \in g.shown => job.steers[j] = "admitted"
    BY <1>1, <1>4, <1>5, <2>1 DEF ShownAdmitted
  <2>. QED  BY <1>1, <1>6, <1>13, <2>1, <2>2 DEF ShownAdmitted
<1>16. NothingLeft'  BY <1>13 DEF NothingLeft
<1>. QED  BY <1>7, <1>8, <1>9, <1>10, <1>11, <1>12, <1>14, <1>15, <1>16 DEF Inv

\* The loop goes on; a claim that was drained is given back.
LEMMA CallToolsKeeps ==
  ASSUME Inv, CallTools
  PROVE  Inv'
<1>. USE DEF Inv, CallTools, CallsTools, GoesOn, At, Goes, callers, process
<1>1. Typed'  BY DEF Typed, current, Senders, Loops, PCs, Claims, SteerStates, NoSteers, Messages
<1>2. Entered' /\ LastRuns' /\ ItemsPromoted' /\ StoredOnce'  BY ThreadStays
<1>3. LoopRuns'  BY DEF LoopRuns, Running, current, Typed, Loops
<1>4. SendersInTurn'  BY DEF Typed, SendersInTurn, Running, current, Messages
<1>5. ClaimDrained'  BY DEF Typed, ClaimDrained, Drained, Loops
<1>6. Preparing'  BY DEF Typed, Preparing, current, Loops
<1>7. SameTalk  BY DEF Typed, Loops, SameTalk, Talks, Answered, current
<1>8. ChatFollows' /\ ShownAdmitted'  BY <1>7, TalkStays
<1>9. NothingLeft'  BY DEF ClaimDrained, NothingLeft, Waits, StateIn, current
<1>. QED  BY <1>1, <1>2, <1>3, <1>4, <1>5, <1>6, <1>7, <1>8, <1>9 DEF Inv

\* The answer stands while the user is asked.
LEMMA AskUserKeeps ==
  ASSUME Inv, AskUser
  PROVE  Inv'
<1>. USE DEF Inv, AskUser, CallsTools, GoesOn, At, Goes, callers, process
<1>1. Typed'  BY DEF Typed, current, Senders, Loops, PCs, Claims, SteerStates, NoSteers, Messages
<1>2. Entered' /\ LastRuns' /\ ItemsPromoted' /\ StoredOnce'  BY ThreadStays
<1>3. LoopRuns'  BY DEF LoopRuns, Running, current, Typed, Loops
<1>4. SendersInTurn'  BY DEF Typed, SendersInTurn, Running, current, Messages
<1>5. ClaimDrained'  BY DEF Typed, ClaimDrained, Drained, Loops
<1>6. Preparing'  BY DEF Typed, Preparing, current, Loops
<1>7. SameTalk  BY DEF Typed, Loops, SameTalk, Talks, Answered, current
<1>8. ChatFollows' /\ ShownAdmitted'  BY <1>7, TalkStays
<1>9. NothingLeft'  BY DEF ClaimDrained, NothingLeft, Waits, StateIn, current
<1>. QED  BY <1>1, <1>2, <1>3, <1>4, <1>5, <1>6, <1>7, <1>8, <1>9 DEF Inv

\* What the model should know was shown, so nothing is missing from the lane.
LEMMA AnswerKeeps ==
  ASSUME Inv, Answer
  PROVE  Inv'
<1>. USE DEF Inv, Answer, GoesOn, At, Goes, callers, process
<1>1. /\ current > 0 /\ current \in 1 .. current /\ given[current] \in Shows
      /\ turns[current] \in TurnRecords /\ loop.chat \in Chats
  BY LenProperties, ElementOfSeq DEF Typed, LoopRuns, Running, current, Loops
<1>2. loop.pc = "paused" /\ loop.claim = "none" /\ phase = "up"
      /\ UNCHANGED <<turns, given, job, sender, seen, sends, phase, crashes>>
  OBVIOUS
<1>3. PICK lane \in Seq(Messages) :
        /\ lane = <<>> \/ (lane = loop.chat.talk /\ ~loop.chat.casework)
        /\ loop' = [loop EXCEPT !.pc = "enter", !.chat = [loop.chat EXCEPT !.lane = lane]]
  <2>1. <<>> \in Seq(Messages) /\ loop.chat.talk \in Seq(Messages)
    BY <1>1, EmptySeq DEF Chats
  <2>2. PICK lane \in {<<>>} \cup (IF loop.chat.casework THEN {} ELSE {loop.chat.talk}) :
          GoesOn("enter", [loop.chat EXCEPT !.lane = lane])
    OBVIOUS
  <2>3. loop' = [loop EXCEPT !.pc = "enter", !.chat = [loop.chat EXCEPT !.lane = lane]]
    BY <1>2, <2>2 DEF Typed, Loops
  <2>4. lane \in Seq(Messages) /\ (lane = <<>> \/ (lane = loop.chat.talk /\ ~loop.chat.casework))
    <3>. HIDE DEF Inv, Answer
    <3>. QED  BY <2>1, <2>2
  <2>. HIDE DEF Inv, Answer
  <2>. QED  BY <2>3, <2>4
<1>4. PICK chat \in Chats : /\ chat = [loop.chat EXCEPT !.lane = lane]
                            /\ chat.talk = loop.chat.talk /\ chat.lane = lane
                            /\ chat.casework = loop.chat.casework /\ chat.step = loop.chat.step
  <2>. HIDE DEF Inv, Answer
  <2>. PICK old \in Chats : old = loop.chat
    BY <1>1
  <2>. PICK chat : chat = [old EXCEPT !.lane = lane]
    OBVIOUS
  <2>1. /\ chat \in Chats /\ chat.talk = old.talk /\ chat.lane = lane
        /\ chat.casework = old.casework /\ chat.step = old.step
    BY DEF Chats
  <2>. QED  BY <2>1
<1>5. Follows(turns[current].items, chat, given[current])
  <2>. PICK s \in Seq(Messages), g \in Shows : s = turns[current].items /\ g = given[current]
    BY <1>1 DEF TurnRecords
  <2>1. Follows(s, loop.chat, g) /\ Due(s, g.lost) \subseteq g.shown
    BY <1>2 DEF ChatFollows, Talks, Answered
  <2>2. Due(s, TRUE) \subseteq g.shown
    <3>. PICK l \in BOOLEAN : l = g.lost
      BY DEF Shows
    <3>1. Due(s, TRUE) \subseteq Due(s, l)
      BY DueBounds
    <3>. QED  BY <2>1, <3>1
  <2>3. Selects(lane, s)
    BY <1>3, <2>1, SelectionSelects DEF Follows
  <2>4. chat.casework =>
          \E before \in Seq(Messages) : s = before \o chat.step /\ Selects(lane, before)
    <3>. SUFFICES ASSUME chat.casework PROVE \E before \in Seq(Messages) : s = before \o chat.step
                                                                          /\ Selects(lane, before)
      OBVIOUS
    <3>1. PICK before \in Seq(Messages) : s = before \o chat.step
      BY <1>4, <2>1 DEF Follows
    <3>2. Selects(lane, before)
      BY <1>3, <1>4, SelectionSelects
    <3>. QED  BY <3>1, <3>2
  <2>. QED  BY <1>4, <2>1, <2>2, <2>3, <2>4 DEF Follows
<1>. USE <1>2, <1>3, <1>4
<1>. HIDE DEF Answer
<1>6. Typed'  BY DEF Typed, current, Senders, Loops, PCs, Claims, SteerStates, NoSteers, Messages
<1>7. Entered' /\ LastRuns' /\ ItemsPromoted' /\ StoredOnce'  BY ThreadStays
<1>8. LoopRuns'  BY DEF LoopRuns, Running, current, Typed, Loops
<1>9. SendersInTurn'  BY DEF Typed, SendersInTurn, Running, current, Messages
<1>10. ClaimDrained'  BY DEF Typed, ClaimDrained, Drained, Loops
<1>11. Preparing'  BY DEF Typed, Preparing, current, Loops
<1>12. loop'.pc = "enter" /\ loop'.claim = "none" /\ loop'.chat = chat /\ current' = current
  BY DEF Typed, Loops, current
<1>13. ChatFollows'  BY <1>5, <1>12 DEF ChatFollows, Answered
<1>14. ShownAdmitted'  BY <1>12 DEF ShownAdmitted, Talks
<1>15. NothingLeft'  BY <1>12 DEF NothingLeft
<1>. QED  BY <1>6, <1>7, <1>8, <1>9, <1>10, <1>11, <1>13, <1>14, <1>15 DEF Inv

\* The step on case data goes on with an ordinary part of what it began with.
LEMMA LostFollows ==
  ASSUME Inv, Talks(loop), loop.chat.casework, current \in 1 .. current,
         NEW part \in IF loop.chat.step = <<>> THEN {<<>>} ELSE OrdinaryParts(loop.chat.step),
         NEW g \in Shows, g.lost = TRUE, g.shown = given[current].shown
  PROVE  Isolated(part) \in Chats /\ Follows(turns[current].items, Isolated(part), g)
<1>1. turns[current] \in TurnRecords /\ loop.chat \in Chats
  BY LenProperties, ElementOfSeq DEF Inv, Typed, current, Loops
<1>. PICK b \in Seq(Messages), old \in Chats : b = old.step /\ old = loop.chat
  BY <1>1 DEF Chats
<1>2. Follows(turns[current].items, old, given[current])
  BY DEF Inv, ChatFollows
<1>3. PICK s \in Seq(Messages) : turns[current].items = s \o b /\ Selects(old.lane, s)
  BY <1>2 DEF Follows
<1>4. IsInjective(s \o b)
  BY <1>1, <1>3 DEF Inv, Entered
<1>5. part \in Seq(Messages) /\ Selects(part, b)
  <2>1. CASE b = <<>>
    BY <2>1, SelectionSelects
  <2>2. CASE b # <<>>
    <3>1. PICK T : part = Among(b, T)
      BY <2>2 DEF OrdinaryParts
    <3>. QED  BY <3>1, AmongMembers, SelectionSelects
  <2>. QED  BY <2>1, <2>2
<1>6. Due(s \o b, TRUE) \subseteq g.shown \cup ToSet(old.lane)
  BY <1>2, <1>3 DEF Follows
<1>. PICK new : new = Isolated(part)
  OBVIOUS
<1>7. new = [talk |-> old.lane \o part, lane |-> old.lane \o part, casework |-> FALSE, step |-> <<>>]
  BY DEF Isolated
<1>8. Follows(s \o b, new, g)
  BY <1>3, <1>4, <1>5, <1>6, <1>7, PartFollows
<1>9. new \in Chats
  <2>1. old.lane \o part \in Seq(Messages)
    BY <1>5, ConcatProperties DEF Chats
  <2>. QED  BY <1>7, <2>1, EmptySeq DEF Chats
<1>. QED  BY <1>3, <1>8, <1>9

\* The lane has what the model should know without the source.
LEMMA LoseSourceKeeps ==
  ASSUME Inv, LoseSource
  PROVE  Inv'
<1>. USE DEF Inv, LoseSource, CallsTools, GoesOn, At, Goes, callers, process
<1>1. /\ loop.pc \in {"call", "answered"} \/ (loop.pc = "publish" /\ loop.claim = "candidate")
      /\ phase = "up" /\ UNCHANGED <<turns, job, sender, seen, sends, phase, crashes>>
  OBVIOUS
<1>2. /\ current > 0 /\ current \in 1 .. current /\ given[current] \in Shows
      /\ turns[current] \in TurnRecords /\ loop.chat \in Chats
  BY <1>1, LenProperties, ElementOfSeq DEF Typed, LoopRuns, Running, current, Loops
<1>3. PICK g \in Shows : /\ g.lost = TRUE /\ g.shown = given[current].shown
                         /\ given' = [given EXCEPT ![current] = g]
  <2>. PICK old \in Shows : old = given[current]
    BY <1>2
  <2>. PICK g : g = [old EXCEPT !.lost = TRUE]
    OBVIOUS
  <2>1. g \in Shows /\ g.shown = old.shown /\ g.lost = TRUE
    BY DEF Shows
  <2>2. given' = [given EXCEPT ![current] = g]
    BY <1>2 DEF Typed, Shows
  <2>. QED  BY <2>1, <2>2
<1>4. PICK chat \in Chats, pc \in {"call", "read"}, claim \in Claims \ {"candidate"} :
        /\ loop' = [loop EXCEPT !.pc = pc, !.claim = claim, !.chat = chat]
        /\ Follows(turns[current].items, chat, g)
  <2>1. PICK part \in IF loop.chat.step = <<>> THEN {<<>>} ELSE OrdinaryParts(loop.chat.step),
             pc \in {"call", "read"} :
          loop' = [loop EXCEPT !.pc = pc, !.claim = IF @ = "candidate" THEN "none" ELSE @,
                               !.chat = Isolated(part)]
    OBVIOUS
  <2>2. Talks(loop) /\ loop.chat.casework /\ loop.claim \in Claims
    BY <1>1 DEF Talks, Typed, Loops
  <2>. HIDE DEF Inv, LoseSource
  <2>3. Isolated(part) \in Chats /\ Follows(turns[current].items, Isolated(part), g)
    BY <1>2, <1>3, <2>2, LostFollows
  <2>. PICK chat \in Chats : chat = Isolated(part)
    BY <2>3
  <2>4. CASE loop.claim = "candidate"
    <3>1. loop' = [loop EXCEPT !.pc = pc, !.claim = "none", !.chat = chat]
      BY <2>1, <2>4
    <3>. QED  BY <2>3, <3>1 DEF Claims
  <2>5. CASE loop.claim # "candidate"
    <3>1. loop' = [loop EXCEPT !.pc = pc, !.claim = loop.claim, !.chat = chat]
      BY <2>1, <2>5
    <3>. QED  BY <2>2, <2>3, <2>5, <3>1
  <2>. QED  BY <2>4, <2>5
<1>5. /\ given' \in Seq(Shows) /\ Len(given') = current /\ given'[current] = g
      /\ \A t \in 1 .. current : t # current => given'[t] = given[t]
  <2>. HIDE DEF LoseSource, Inv
  <2>1. Typed /\ current > 0
    BY <1>2 DEF Inv
  <2>. QED  BY <1>3, <2>1, ShownReplaced
<1>. USE <1>1, <1>4
<1>. HIDE DEF LoseSource
<1>6. Typed'  BY <1>5 DEF Typed, current, Senders, Loops, PCs, Claims, SteerStates, NoSteers, Messages
<1>7. Entered' /\ LastRuns' /\ ItemsPromoted' /\ StoredOnce'  BY ThreadStays
<1>8. LoopRuns'  BY DEF LoopRuns, Running, current, Typed, Loops
<1>9. SendersInTurn'  BY DEF Typed, SendersInTurn, Running, current, Messages
<1>10. ClaimDrained'  BY DEF Typed, ClaimDrained, Drained, Loops
<1>11. Preparing'  BY DEF Typed, Preparing, current, Loops
<1>12. loop'.pc \in {"read", "call"} /\ loop'.claim # "candidate" /\ loop'.chat = chat /\ current' = current
  BY DEF Typed, Loops, current
<1>13. ChatFollows'  BY <1>5, <1>12 DEF ChatFollows, Answered
<1>14. ShownAdmitted'
  <2>1. \A j \in JobSteers : j \in ToSet(turns[current].items) => job.steers[j] = "admitted"
    BY DEF ShownAdmitted, Talks
  <2>2. \A j \in JobSteers : j \in g.shown => job.steers[j] = "admitted"
    BY <1>2, <1>3 DEF ShownAdmitted
  <2>. QED  BY <1>2, <1>5, <1>12, <2>1, <2>2 DEF ShownAdmitted
<1>15. NothingLeft'  BY <1>12 DEF NothingLeft
<1>. QED  BY <1>6, <1>7, <1>8, <1>9, <1>10, <1>11, <1>13, <1>14, <1>15 DEF Inv

\* The loop waits for the parent.
LEMMA HoldJobKeeps ==
  ASSUME Inv, HoldJob
  PROVE  Inv'
<1>. USE DEF Inv, HoldJob, At, Goes, callers, process
<1>1. Typed'  BY DEF Typed, current, Senders, Loops, PCs, Claims, SteerStates, NoSteers, Messages
<1>2. Entered' /\ LastRuns' /\ ItemsPromoted' /\ StoredOnce'  BY ThreadStays
<1>3. LoopRuns'  BY DEF LoopRuns, Running, current, Typed, Loops
<1>4. SendersInTurn'  BY DEF Typed, SendersInTurn, Running, current, Messages
<1>5. ClaimDrained'  BY DEF Typed, ClaimDrained, Drained, Loops
<1>6. Preparing'  BY DEF Typed, Preparing, current, Loops
<1>7. SameTalk  BY DEF Typed, Loops, SameTalk, Talks, Answered, current
<1>8. ChatFollows' /\ ShownAdmitted'  BY <1>7, TalkStays
<1>9. NothingLeft'  BY DEF ClaimDrained, NothingLeft, Waits, StateIn, current
<1>. QED  BY <1>1, <1>2, <1>3, <1>4, <1>5, <1>6, <1>7, <1>8, <1>9 DEF Inv

\* It goes on.
LEMMA ReleaseJobKeeps ==
  ASSUME Inv, ReleaseJob
  PROVE  Inv'
<1>. USE DEF Inv, ReleaseJob, At, Goes, callers, process
<1>1. Typed'  BY DEF Typed, current, Senders, Loops, PCs, Claims, SteerStates, NoSteers, Messages
<1>2. Entered' /\ LastRuns' /\ ItemsPromoted' /\ StoredOnce'  BY ThreadStays
<1>3. LoopRuns'  BY DEF LoopRuns, Running, current, Typed, Loops
<1>4. SendersInTurn'  BY DEF Typed, SendersInTurn, Running, current, Messages
<1>5. ClaimDrained'  BY DEF Typed, ClaimDrained, Drained, Loops
<1>6. Preparing'  BY DEF Typed, Preparing, current, Loops
<1>7. SameTalk  BY DEF Typed, Loops, SameTalk, Talks, Answered, current
<1>8. ChatFollows' /\ ShownAdmitted'  BY <1>7, TalkStays
<1>9. NothingLeft'  BY DEF ClaimDrained, NothingLeft, Waits, StateIn, current
<1>. QED  BY <1>1, <1>2, <1>3, <1>4, <1>5, <1>6, <1>7, <1>8, <1>9 DEF Inv

\* The execution has nothing in hand any more.
LEMMA PublishFailsKeeps ==
  ASSUME Inv, PublishFails
  PROVE  Inv'
<1>. USE DEF Inv, PublishFails, At, Goes, callers, process
<1>1. Typed'  BY NoLoopTyped DEF Typed, current, Senders, Loops, PCs, Claims, SteerStates, NoSteers, Messages
<1>2. Entered' /\ LastRuns' /\ ItemsPromoted' /\ StoredOnce'  BY ThreadStays
<1>3. LoopRuns'  BY DEF LoopRuns, Running, current, Typed, Loops, NoLoop
<1>4. SendersInTurn'  BY DEF Typed, SendersInTurn, Running, current, Messages
<1>5. ClaimDrained'  BY DEF Typed, ClaimDrained, Drained, Loops, NoLoop
<1>6. Preparing'  BY DEF Typed, Preparing, current, Loops, NoLoop
<1>7. SameTalk  BY DEF Typed, Loops, SameTalk, Talks, Answered, current, NoLoop
<1>8. ChatFollows' /\ ShownAdmitted'  BY <1>7, TalkStays
<1>9. NothingLeft'  BY DEF ClaimDrained, NothingLeft, Waits, StateIn, current, NoLoop
<1>. QED  BY <1>1, <1>2, <1>3, <1>4, <1>5, <1>6, <1>7, <1>8, <1>9 DEF Inv

\* The claim is taken when the model was given everything.
LEMMA ClaimTerminalKeeps ==
  ASSUME Inv, NEW kind \in {"candidate", "fixed", "failure"}, ClaimTerminal(kind)
  PROVE  Inv'
<1>. USE DEF Inv, ClaimTerminal, At, Goes, callers, process
<1>1. Typed'  BY DEF Typed, current, Senders, Loops, PCs, Claims, SteerStates, NoSteers, Messages
<1>2. Entered' /\ LastRuns' /\ ItemsPromoted' /\ StoredOnce'  BY ThreadStays
<1>3. LoopRuns'  BY DEF LoopRuns, Running, current
<1>4. SendersInTurn'  BY DEF Typed, SendersInTurn, Running, current, Messages
<1>5. ClaimDrained'  BY DEF Typed, ClaimDrained, Drained
<1>6. Preparing'  BY DEF Typed, Preparing, current
<1>7. SameTalk  BY DEF Typed, Loops, SameTalk, Talks, Answered, current
<1>8. ChatFollows' /\ ShownAdmitted'  BY <1>7, TalkStays
<1>9. NothingLeft'  BY DEF ClaimDrained, NothingLeft, Waits, StateIn, current
<1>. QED  BY <1>1, <1>2, <1>3, <1>4, <1>5, <1>6, <1>7, <1>8, <1>9 DEF Inv

\* A failure takes the claim, under which nothing is promised.
LEMMA InterruptKeeps ==
  ASSUME Inv, Interrupt
  PROVE  Inv'
<1>. USE DEF Inv, Interrupt, At, Goes, callers, process
<1>1. Typed'  BY DEF Typed, current, Senders, Loops, PCs, Claims, SteerStates, NoSteers, Messages
<1>2. Entered' /\ LastRuns' /\ ItemsPromoted' /\ StoredOnce'  BY ThreadStays
<1>3. LoopRuns'  BY DEF LoopRuns, Running, current
<1>4. SendersInTurn'  BY DEF Typed, SendersInTurn, Running, current, Messages
<1>5. ClaimDrained'  BY DEF Typed, ClaimDrained, Drained
<1>6. Preparing'  BY DEF Typed, Preparing, current
<1>7. SameTalk  BY DEF Typed, Loops, SameTalk, Talks, Answered, current, LoopRuns, Running
<1>8. ChatFollows' /\ ShownAdmitted'  BY <1>7, TalkStays
<1>9. NothingLeft'  BY DEF ClaimDrained, NothingLeft, Waits, StateIn, current
<1>. QED  BY <1>1, <1>2, <1>3, <1>4, <1>5, <1>6, <1>7, <1>8, <1>9 DEF Inv

\* Nobody sends any more.
LEMMA DrainKeeps ==
  ASSUME Inv, Drain
  PROVE  Inv'
<1>. USE DEF Inv, Drain, At, Goes, callers, process
<1>1. Typed'  BY DEF Typed, current, Senders, Loops, PCs, Claims, SteerStates, NoSteers, Messages
<1>2. Entered' /\ LastRuns' /\ ItemsPromoted' /\ StoredOnce'  BY ThreadStays
<1>3. LoopRuns'  BY DEF LoopRuns, Running, current
<1>4. SendersInTurn'  BY DEF Typed, SendersInTurn, Running, current, Messages
<1>5. ClaimDrained'  BY DEF Typed, ClaimDrained, Drained
<1>6. Preparing'  BY DEF Typed, Preparing, current
<1>7. SameTalk  BY DEF Typed, Loops, SameTalk, Talks, Answered, current
<1>8. ChatFollows' /\ ShownAdmitted'  BY <1>7, TalkStays
<1>9. NothingLeft'  BY DEF ClaimDrained, NothingLeft, Waits, StateIn, current
<1>. QED  BY <1>1, <1>2, <1>3, <1>4, <1>5, <1>6, <1>7, <1>8, <1>9 DEF Inv

\* A claim that was drained is given back.
LEMMA LoopFailsKeeps ==
  ASSUME Inv, LoopFails
  PROVE  Inv'
<1>. USE DEF Inv, LoopFails, At, Goes, callers, process, NoLoop
<1>1. Typed'
  BY EmptySeq DEF Typed, current, Senders, Loops, PCs, Claims, SteerStates, NoSteers,
         NoChat, Chats, Messages
<1>2. Entered' /\ LastRuns' /\ ItemsPromoted' /\ StoredOnce'  BY ThreadStays
<1>3. LoopRuns'  BY DEF LoopRuns, Running, current
<1>4. SendersInTurn'  BY DEF Typed, SendersInTurn, Running, current, Messages
<1>5. ClaimDrained'  BY DEF Typed, ClaimDrained, Drained
<1>6. Preparing'  BY DEF Typed, Preparing, current
<1>7. SameTalk  BY DEF Typed, Loops, SameTalk, Talks, Answered, current
<1>8. ChatFollows' /\ ShownAdmitted'  BY <1>7, TalkStays
<1>9. NothingLeft'  BY DEF ClaimDrained, NothingLeft, Waits, StateIn, current
<1>. QED  BY <1>1, <1>2, <1>3, <1>4, <1>5, <1>6, <1>7, <1>8, <1>9 DEF Inv

\* Nobody sends, nothing runs.
LEMMA CrashKeeps ==
  ASSUME Inv, Crash
  PROVE  Inv'
<1>. USE DEF Inv, Crash, NoLoop
<1>1. Typed'
  BY EmptySeq DEF Typed, current, Senders, Loops, PCs, Claims, SteerStates, NoSteers,
         NoChat, Chats, Messages
<1>2. Entered' /\ LastRuns' /\ ItemsPromoted' /\ StoredOnce'  BY ThreadStays
<1>3. LoopRuns'  BY DEF LoopRuns, Running, current
<1>4. SendersInTurn'  BY DEF Typed, SendersInTurn, Running, current, Messages
<1>5. ClaimDrained'  BY DEF Typed, ClaimDrained, Drained
<1>6. Preparing'  BY DEF Typed, Preparing, current
<1>7. SameTalk  BY DEF Typed, Loops, SameTalk, Talks, Answered, current
<1>8. ChatFollows' /\ ShownAdmitted'  BY <1>7, TalkStays
<1>9. NothingLeft'  BY DEF ClaimDrained, NothingLeft, Waits, StateIn, current
<1>. QED  BY <1>1, <1>2, <1>3, <1>4, <1>5, <1>6, <1>7, <1>8, <1>9 DEF Inv

\* A message of the job is stored in the first turn, where its call was admitted.
LEMMA AdmitSteerKeeps ==
  ASSUME Inv, NEW j \in Messages, AdmitSteer(j)
  PROVE  Inv'
<1>. USE DEF Inv, AdmitSteer, Return, process
<1>1. /\ turns' \in Seq(TurnRecords) /\ current' = current /\ Running' = Running
      /\ current \in 1 .. current
      /\ \A t \in 1 .. current : turns'[t].status = turns[t].status /\ turns'[t].items = turns[t].items
      /\ Entered' /\ LastRuns' /\ ItemsPromoted' /\ StoredOnce'
  <2>1. j \in JobSteers /\ j \notin Replies /\ current = 1 /\ Running
    BY SenderAssumption DEF SendersInTurn
  <2>2. current \in 1 .. current
    BY <2>1
  <2>3. CASE AddEntry(j)
    <3>. HIDE DEF Inv, AdmitSteer
    <3>1. /\ turns' \in Seq(TurnRecords) /\ current' = current
          /\ \A t \in 1 .. current : /\ turns'[t].status = turns[t].status
                                     /\ turns'[t].items = turns[t].items
          /\ Entered' /\ LastRuns' /\ ItemsPromoted' /\ StoredOnce'
      BY <2>1, <2>3, EntryAdded
    <3>. QED  BY <2>2, <3>1 DEF Running
  <2>4. CASE UNCHANGED turns
    BY <2>2, <2>4, ThreadStays DEF Typed, Running, current
  <2>. QED  BY <2>3, <2>4
<1>2. Typed'
  <2>1. /\ sender' \in [Messages -> Senders] /\ seen' \in [JobSteers -> [JobSteers -> SteerStates]]
        /\ UNCHANGED sends
    <3>1. CASE Return(j)
      BY <3>1 DEF Typed, Senders, NoSteers, SteerStates
    <3>2. CASE ~Return(j)
      BY <3>2 DEF Typed, Senders
    <3>. QED  BY <3>1, <3>2
  <2>2. UNCHANGED <<job, given, loop, phase, crashes>>
    OBVIOUS
  <2>. HIDE DEF AdmitSteer
  <2>. QED  BY <1>1, <2>1, <2>2 DEF Typed, current
<1>3. Entered' /\ LastRuns' /\ ItemsPromoted' /\ StoredOnce'  BY <1>1
<1>4. LoopRuns'  BY <1>1 DEF LoopRuns, Running, current, Typed, Loops
<1>5. SendersInTurn'  BY <1>1 DEF Typed, SendersInTurn, Running, current, Messages
<1>6. ClaimDrained'  BY DEF Typed, ClaimDrained, Drained, Loops
<1>7. Preparing'  BY <1>1 DEF Typed, Preparing, current, Loops
<1>8. SameTalk  BY <1>1 DEF Typed, Loops, SameTalk, Talks, Answered, current, LoopRuns, Running
<1>9. ChatFollows' /\ ShownAdmitted'  BY <1>8, TalkStays
<1>10. NothingLeft'
  BY DEF ClaimDrained, NothingLeft, Waits, StateIn, current, Drained, Typed, Loops
<1>. QED  BY <1>2, <1>3, <1>4, <1>5, <1>6, <1>7, <1>8, <1>9, <1>10 DEF Inv

\* The message in hand is stored in the first turn.
LEMMA AdmitPreparedKeeps ==
  ASSUME Inv, AdmitPrepared
  PROVE  Inv'
<1>. USE DEF Inv, AdmitPrepared, At, Goes, callers, process
<1>1. PICK h \in JobSteers, r \in Seq(Messages) :
        /\ h = Head(loop.batch) /\ h \in ToSet(loop.batch) /\ r = Tail(loop.batch)
        /\ IsInjective(r) /\ ToSet(r) = ToSet(loop.batch) \ {h}
  <2>1. loop.batch \in Seq(Messages) /\ loop.batch # <<>> /\ IsInjective(loop.batch)
        /\ \A m \in ToSet(loop.batch) : m \in JobSteers
    BY DEF Typed, Loops, Preparing
  <2>. HIDE DEF AdmitPrepared, Inv
  <2>. QED  BY <2>1, RestDistinct
<1>2. /\ turns' \in Seq(TurnRecords) /\ current' = current /\ Running' = Running
      /\ current \in 1 .. current
      /\ \A t \in 1 .. current : turns'[t].status = turns[t].status /\ turns'[t].items = turns[t].items
      /\ Entered' /\ LastRuns' /\ ItemsPromoted' /\ StoredOnce'
  <2>1. current = 1 /\ Running
    BY DEF Preparing, LoopRuns
  <2>2. current \in 1 .. current
    BY <2>1
  <2>3. CASE AddEntry(h)
    <3>. HIDE DEF Inv, AdmitPrepared
    <3>1. h \in Messages /\ h \notin Replies
      BY SenderAssumption DEF Messages
    <3>2. /\ turns' \in Seq(TurnRecords) /\ current' = current
          /\ \A t \in 1 .. current : /\ turns'[t].status = turns[t].status
                                     /\ turns'[t].items = turns[t].items
          /\ Entered' /\ LastRuns' /\ ItemsPromoted' /\ StoredOnce'
      BY <2>1, <2>3, <3>1, EntryAdded
    <3>. QED  BY <2>2, <3>2 DEF Running
  <2>4. CASE UNCHANGED turns
    BY <2>2, <2>4, ThreadStays DEF Typed, Running, current
  <2>. QED  BY <1>1, <2>3, <2>4

<1>3. /\ loop.pc = "bound" /\ phase = "up" /\ loop' = [loop EXCEPT !.pc = "prepare", !.batch = r]
      /\ UNCHANGED <<job, given, sender, seen, sends, phase, crashes>>
  BY <1>1
<1>. USE <1>3
<1>. HIDE DEF AdmitPrepared
<1>4. Typed'
  BY <1>2 DEF Typed, current, Senders, Loops, PCs, Claims, SteerStates, NoSteers, Messages
<1>5. Entered' /\ LastRuns' /\ ItemsPromoted' /\ StoredOnce'  BY <1>2
<1>6. LoopRuns'  BY <1>2 DEF LoopRuns, Running, current, Typed, Loops
<1>7. SendersInTurn'  BY <1>2 DEF Typed, SendersInTurn, Running, current, Messages
<1>8. ClaimDrained'  BY DEF Typed, ClaimDrained, Drained, Loops
<1>9. Preparing'  BY <1>2, <1>1 DEF Typed, Preparing, current, Loops
<1>10. SameTalk  BY <1>2 DEF Typed, Loops, SameTalk, Talks, Answered, current, LoopRuns, Running
<1>11. ChatFollows' /\ ShownAdmitted'  BY <1>10, TalkStays
<1>12. NothingLeft'
  BY DEF ClaimDrained, NothingLeft, Waits, StateIn, current, Drained, Typed, Loops
<1>. QED  BY <1>4, <1>5, <1>6, <1>7, <1>8, <1>9, <1>10, <1>11, <1>12 DEF Inv

\* An entry that waited is withdrawn.
LEMMA DiscardReplyKeeps ==
  ASSUME Inv, NEW m \in Messages, DiscardReply(m)
  PROVE  Inv'
<1>. USE DEF Inv, DiscardReply, callers, process
<1>1. current \in 1 .. current /\ turns[current] \in TurnRecords /\ Running
  BY LenProperties, ElementOfSeq DEF Typed, current, Running, LoopRuns
<1>2. PICK q \in [Messages -> EntryStates] :
        q = [turns[current].state EXCEPT ![m] = "withdrawn"]
  BY <1>1 DEF TurnRecords, EntryStates
<1>3. turns' = [turns EXCEPT ![current] =
                  [turns[current] EXCEPT !.status = turns[current].status, !.state = q,
                                         !.items = turns[current].items]]
  BY <1>1, <1>2 DEF TurnRecords, Typed
<1>4. \A n \in Messages : /\ q[n] = "none" <=> StateIn(current, n) = "none"
                          /\ q[n] = "promoted" <=> n \in ToSet(turns[current].items)
  BY <1>1, <1>2 DEF StateIn, ItemsPromoted, TurnRecords
<1>5. /\ turns' \in Seq(TurnRecords) /\ current' = current
      /\ turns'[current].status = turns[current].status
      /\ turns'[current].items = turns[current].items /\ turns'[current].state = q
      /\ \A t \in 1 .. current : t # current => turns'[t] = turns[t]
      /\ Entered' /\ LastRuns' /\ ItemsPromoted' /\ StoredOnce'
  <2>1. PICK st \in Statuses, w \in Seq(Messages) :
          st = turns[current].status /\ st = "running" /\ w = turns[current].items
    BY <1>1 DEF TurnRecords, Statuses, Running
  <2>. HIDE DEF Inv, DiscardReply
  <2>2. turns' = [turns EXCEPT ![current] =
                    [turns[current] EXCEPT !.status = st, !.state = q, !.items = w]]
    BY <1>3, <2>1
  <2>3. \A n \in Messages : /\ q[n] = "none" <=> StateIn(current, n) = "none"
                            /\ q[n] = "promoted" <=> n \in ToSet(w)
    BY <1>4, <2>1
  <2>4. Running /\ (st # "running" => \A n \in Messages : q[n] # "pending") /\ IsInjective(w)
    BY <1>1, <2>1 DEF Inv, Entered
  <2>5. /\ turns' \in Seq(TurnRecords) /\ current' = current
        /\ turns'[current].status = st /\ turns'[current].items = w /\ turns'[current].state = q
        /\ \A t \in 1 .. current : t # current => turns'[t] = turns[t]
        /\ Entered' /\ LastRuns' /\ ItemsPromoted' /\ StoredOnce'
    <3>1. Restates(st, q, w)
      BY <2>3, <2>4 DEF Restates
    <3>2. Restated(st, q, w)
      BY <2>2, <2>4, <3>1, StatesChanged
    <3>. QED  BY <3>2 DEF Restated
  <2>. QED  BY <2>1, <2>5
<1>6. Waits(current)' \subseteq Waits(current)
  BY <1>1, <1>2, <1>5 DEF Waits, StateIn
<1>7. UNCHANGED <<job, given, sender, seen, sends, loop, phase, crashes>>
  OBVIOUS
<1>. USE <1>7
<1>. HIDE DEF DiscardReply
<1>8. Typed'
  BY <1>1, <1>5 DEF Typed, current, Senders, Loops, PCs, Claims, SteerStates, NoSteers,
         Messages
<1>9. Entered' /\ LastRuns' /\ ItemsPromoted' /\ StoredOnce'  BY <1>1, <1>5
<1>10. LoopRuns'  BY <1>1, <1>5 DEF LoopRuns, Running, current
<1>11. SendersInTurn'  BY <1>1, <1>5 DEF Typed, SendersInTurn, Running, current, Messages
<1>12. ClaimDrained'  BY <1>1, <1>5 DEF Typed, ClaimDrained, Drained
<1>13. Preparing'  BY <1>1, <1>5 DEF Typed, Preparing, current
<1>14. SameTalk  BY <1>1, <1>5 DEF Typed, Loops, SameTalk, Talks, Answered, current, LoopRuns, Running
<1>15. ChatFollows' /\ ShownAdmitted'  BY <1>14, TalkStays
<1>16. NothingLeft'
  BY <1>5, <1>6 DEF NothingLeft
<1>. QED  BY <1>8, <1>9, <1>10, <1>11, <1>12, <1>13, <1>14, <1>15, <1>16 DEF Inv

\* The batch becomes items; it is what the model has not been given yet.
LEMMA PromoteKeeps ==
  ASSUME Inv, Promote
  PROVE  Inv'
<1>. USE DEF Inv, Promote, At, Goes, callers, process
<1>1. current \in 1 .. current /\ turns[current] \in TurnRecords /\ Running
  BY LenProperties, ElementOfSeq DEF Typed, current, Running, LoopRuns
<1>2. PICK q \in [Messages -> EntryStates], w \in Seq(Messages) :
        /\ q = [m \in Messages |-> IF m \in ToSet(loop.batch) THEN "promoted"
                                   ELSE turns[current].state[m]]
        /\ w = turns[current].items \o loop.batch
        /\ ToSet(w) = ToSet(turns[current].items) \cup ToSet(loop.batch)
  <2>1. [m \in Messages |-> IF m \in ToSet(loop.batch) THEN "promoted"
                            ELSE turns[current].state[m]] \in [Messages -> EntryStates]
    BY <1>1 DEF TurnRecords, EntryStates
  <2>2. turns[current].items \in Seq(Messages) /\ loop.batch \in Seq(Messages)
    BY <1>1 DEF TurnRecords, Typed, Loops
  <2>3. turns[current].items \o loop.batch \in Seq(Messages)
    BY <2>2, ConcatProperties
  <2>4. ToSet(turns[current].items \o loop.batch) = ToSet(turns[current].items) \cup ToSet(loop.batch)
    BY <2>2, Members
  <2>. HIDE DEF Promote, Inv
  <2>. QED  BY <2>1, <2>3, <2>4
<1>3. PICK p \in Seq(Messages) : p = Pending(current) /\ ToSet(p) \subseteq Waits(current)
  BY <1>1, AmongMembers DEF Pending, TurnRecords
<1>4. ToSet(loop.batch) \subseteq Waits(current)
  <2>1. loop.batch \in Seq(Messages) /\ IsPrefix(loop.batch, p)
    BY <1>3 DEF IsCurrent, Typed, Loops
  <2>. HIDE DEF Promote, Inv
  <2>. QED  BY <1>3, <2>1, PrefixMembers
<1>5. turns' = [turns EXCEPT ![current] =
                  [turns[current] EXCEPT !.status = "running", !.state = q, !.items = w]]
  BY ZenonT(60), <1>1, <1>2 DEF TurnRecords, Typed, Running
<1>6. \A n \in Messages : /\ q[n] = "none" <=> StateIn(current, n) = "none"
                          /\ q[n] = "promoted" <=> n \in ToSet(w)
  BY <1>1, <1>2, <1>4 DEF StateIn, ItemsPromoted, TurnRecords, Waits
<1>7. IsInjective(w)
  <2>1. turns[current].items \in Seq(Messages) /\ loop.batch \in Seq(Messages)
        /\ turns[current].entries \in Seq(Messages)
    BY <1>1 DEF TurnRecords, Typed, Loops
  <2>2. IsInjective(turns[current].items) /\ IsInjective(turns[current].entries)
    BY <1>1 DEF Entered
  <2>3. ToSet(turns[current].items) \cap ToSet(loop.batch) = {}
    BY <1>1, <1>4 DEF ItemsPromoted, Waits
  <2>4. IsPrefix(loop.batch, p)
    BY <1>3 DEF IsCurrent
  <2>. PICK s \in Seq(Messages), b \in Seq(Messages), n \in Seq(Messages) :
         s = turns[current].items /\ b = loop.batch /\ n = turns[current].entries
    BY <2>1
  <2>. PICK W : W = Waits(current)
    OBVIOUS
  <2>. HIDE DEF Promote, Inv
  <2>5. IsInjective(p)
    <3>1. IsInjective(Among(n, W))
      BY <2>2, AmongDistinct
    <3>. QED  BY <1>3, <3>1 DEF Pending
  <2>6. Len(b) <= Len(p) /\ \A i \in 1 .. Len(b) : b[i] = p[i]
    BY <2>4, PrefixMembers
  <2>7. IsInjective(b)
    <3>1. DOMAIN b = 1 .. Len(b) /\ DOMAIN p = 1 .. Len(p) /\ Len(b) \in Nat /\ Len(p) \in Nat
      BY LenProperties
    <3>. QED  BY <2>5, <2>6, <3>1 DEF IsInjective
  <2>8. IsInjective(s \o b)
    BY <2>2, <2>3, <2>7, ConcatDistinct
  <2>. QED  BY <1>2, <2>8
<1>8. /\ loop.pc = "promote" /\ phase = "up"
      /\ loop' = [loop EXCEPT !.pc = "settle", !.stale = <<>>]
      /\ UNCHANGED <<job, given, sender, seen, sends, phase, crashes>>
  OBVIOUS
<1>. HIDE DEF Promote
<1>9. /\ turns' \in Seq(TurnRecords) /\ current' = current
      /\ turns'[current].status = "running"
      /\ turns'[current].items = w
      /\ \A t \in 1 .. current : t # current => turns'[t] = turns[t]
      /\ Entered' /\ LastRuns' /\ ItemsPromoted' /\ StoredOnce'
  <2>. HIDE DEF Inv
  <2>1. PICK st \in Statuses : st = "running"
    BY DEF Statuses
  <2>2. turns' = [turns EXCEPT ![current] =
                    [turns[current] EXCEPT !.status = st, !.state = q, !.items = w]]
    BY <1>5, <2>1
  <2>3. Running /\ (st # "running" => \A n \in Messages : q[n] # "pending")
    BY <1>1, <2>1
  <2>4. /\ turns' \in Seq(TurnRecords) /\ current' = current
        /\ turns'[current].status = st /\ turns'[current].items = w /\ turns'[current].state = q
        /\ \A t \in 1 .. current : t # current => turns'[t] = turns[t]
        /\ Entered' /\ LastRuns' /\ ItemsPromoted' /\ StoredOnce'
    <3>1. Restates(st, q, w)
      BY <1>6, <1>7, <2>3 DEF Restates
    <3>2. Restated(st, q, w)
      BY <2>2, <2>3, <3>1, StatesChanged
    <3>. QED  BY <3>2 DEF Restated
  <2>. QED  BY <2>1, <2>4
<1>. USE <1>8
<1>10. Typed'
  BY <1>1, <1>9, EmptySeq DEF Typed, current, Senders, Loops, PCs, Claims, SteerStates,
         NoSteers, Messages
<1>11. Entered' /\ LastRuns' /\ ItemsPromoted' /\ StoredOnce'  BY <1>9
<1>12. LoopRuns'  BY <1>1, <1>9 DEF LoopRuns, Running, current, Loops, Typed
<1>13. SendersInTurn'  BY <1>1, <1>9 DEF Typed, SendersInTurn, Running, current, Messages
<1>14. ClaimDrained'  BY <1>1, <1>9 DEF Typed, ClaimDrained, Drained, Loops, Typed
<1>15. Preparing'  BY <1>1, <1>9 DEF Typed, Preparing, current, Loops, Typed
<1>16. ChatFollows'
  <2>1. loop'.pc = "settle" /\ loop'.chat = loop.chat /\ loop'.batch = loop.batch
    BY DEF Typed, Loops
  <2>2. turns[current].items \in Seq(Messages) /\ Follows(turns[current].items, loop.chat, given[current])
    BY <1>1 DEF ChatFollows, Talks, TurnRecords
  <2>3. turns'[current].items = turns[current].items \o loop.batch
    BY <1>2, <1>9
  <2>. QED  BY <1>9, <2>1, <2>2, <2>3 DEF ChatFollows, Talks, Answered
<1>17. ShownAdmitted'
  <2>1. loop'.pc = "settle" /\ loop'.batch = loop.batch
    BY DEF Typed, Loops
  <2>2. \A j \in JobSteers : j \in ToSet(turns[current].items) => job.steers[j] = "admitted"
    BY DEF ShownAdmitted, Talks
  <2>3. \A t \in 1 .. current, j \in JobSteers : j \in given[t].shown => job.steers[j] = "admitted"
    BY DEF ShownAdmitted
  <2>. QED  BY <1>2, <1>9, <2>1, <2>2, <2>3 DEF ShownAdmitted, Talks
<1>18. NothingLeft'  BY DEF ClaimDrained, NothingLeft, Waits, StateIn, current, Loops, Typed
<1>. QED  BY <1>10, <1>11, <1>12, <1>13, <1>14, <1>15, <1>16, <1>17, <1>18 DEF Inv

\* The turn ends, and with it the loop.
LEMMA PublishKeeps ==
  ASSUME Inv, Publish
  PROVE  Inv'
<1>. USE DEF Inv, Publish, At, Goes, callers, process
<1>1. current \in 1 .. current /\ turns[current] \in TurnRecords /\ Running
  BY LenProperties, ElementOfSeq DEF Typed, current, Running, LoopRuns
<1>2. PICK st \in Statuses : st = Outcome(loop.claim) /\ st # "running" /\ EndTurn(st)
  BY DEF Outcome, Statuses, ClaimDrained, Typed, Loops, Claims
<1>3. /\ loop.pc = "publish" /\ phase = "up" /\ loop' = NoLoop
      /\ UNCHANGED <<job, given, sender, seen, sends, phase, crashes>>
  OBVIOUS
<1>. HIDE DEF Publish
<1>4. /\ turns' \in Seq(TurnRecords) /\ current' = current
      /\ turns'[current].status = st /\ st # "running"
      /\ turns'[current].items = turns[current].items
      /\ \A t \in 1 .. current : t # current => turns'[t] = turns[t]
      /\ Entered' /\ LastRuns' /\ ItemsPromoted' /\ StoredOnce'
  <2>. HIDE DEF Inv
  <2>. QED  BY <1>1, <1>2, TurnEnded
<1>. USE <1>3
<1>5. Typed'
  BY <1>1, <1>4, NoLoopTyped DEF Typed, current
<1>6. Entered' /\ LastRuns' /\ ItemsPromoted' /\ StoredOnce'  BY <1>4
<1>7. LoopRuns'  BY <1>1, <1>4 DEF LoopRuns, Running, current, NoLoop, Typed
<1>8. SendersInTurn'
  BY <1>1, <1>4 DEF Typed, SendersInTurn, Running, current, Messages, NoLoop, ClaimDrained,
         Drained
<1>9. ClaimDrained'  BY <1>1, <1>4 DEF Typed, ClaimDrained, Drained, NoLoop
<1>10. Preparing'  BY <1>1, <1>4 DEF Typed, Preparing, current, NoLoop
<1>11. SameTalk  BY <1>1, <1>4 DEF SameTalk, Talks, Answered, NoLoop
<1>12. ChatFollows' /\ ShownAdmitted'  BY <1>11, TalkStays
<1>13. NothingLeft'  BY DEF ClaimDrained, NothingLeft, Waits, StateIn, current, NoLoop
<1>. QED  BY <1>5, <1>6, <1>7, <1>8, <1>9, <1>10, <1>11, <1>12, <1>13 DEF Inv

\* A new turn has nothing in it, and nobody was admitted to it yet.
LEMMA StartTurnKeeps ==
  ASSUME Inv, StartTurn
  PROVE  Inv'
<1>. USE DEF Inv, StartTurn, At, Goes, callers, process
<1>1. PICK e \in Seq(Messages), q \in [Messages -> EntryStates] :
        e = <<>> /\ q = [m \in Messages |-> "none"]
  BY EmptySeq DEF EntryStates
<1>2. current \in Nat /\ turns \in Seq(TurnRecords) /\ ~Running
  BY LenProperties DEF Typed, current, LoopRuns
<1>3. PICK v \in TurnRecords : v = [status |-> "running", entries |-> e, state |-> q, items |-> e]
  BY DEF TurnRecords, Statuses
<1>4. v = NewTurn
  BY <1>1, <1>3 DEF NewTurn
<1>5. PICK g \in Shows, chat \in Chats :
      /\ loop.pc = "none" /\ phase = "up" /\ current < MaxTurns
      /\ turns' = Append(turns, v) /\ given' = Append(given, g) /\ g.shown = {}
      /\ chat.talk = e /\ chat.lane = e /\ chat.step = e
      /\ loop' = [NoLoop EXCEPT !.pc = IF current = 0 THEN "load" ELSE "enter", !.chat = chat]
      /\ current = 0 => \A j \in JobSteers : sender[j] # "before"
      /\ UNCHANGED <<job, sender, seen, sends, phase, crashes>>
  <2>1. PICK lost \in BOOLEAN : given' = Append(given, [last |-> <<>>, shown |-> {}, lost |-> lost])
    OBVIOUS
  <2>. PICK g : g = [last |-> e, shown |-> {}, lost |-> lost]
    OBVIOUS
  <2>. PICK chat : chat = [talk |-> e, lane |-> e, casework |-> current + 1 \in CaseTurns, step |-> e]
    OBVIOUS
  <2>2. g \in Shows /\ g.shown = {} /\ given' = Append(given, g)
    BY <1>1, <2>1 DEF Shows
  <2>3. chat \in Chats /\ chat.talk = e /\ chat.lane = e /\ chat.step = e
    BY DEF Chats
  <2>4. loop' = [NoLoop EXCEPT !.pc = IF current = 0 THEN "load" ELSE "enter", !.chat = chat]
    <3>1. chat = [NoLoop.chat EXCEPT !.casework = current + 1 \in CaseTurns]
      <4>. HIDE DEF Inv, StartTurn
      <4>. QED  BY <1>1 DEF NoLoop, NoChat
    <3>2. loop' = [NoLoop EXCEPT !.pc = IF current = 0 THEN "load" ELSE "enter",
                                 !.chat.casework = current + 1 \in CaseTurns]
      OBVIOUS
    <3>. HIDE DEF Inv, StartTurn
    <3>. QED  BY <3>1, <3>2
  <2>. QED  BY <1>1, <1>4, <2>2, <2>3, <2>4
<1>. USE <1>5
<1>. HIDE DEF StartTurn
<1>6. /\ turns' \in Seq(TurnRecords) /\ current' = current + 1 /\ turns'[current + 1] = v
      /\ \A t \in 1 .. current : turns'[t] = turns[t]
      /\ given' \in Seq(Shows) /\ Len(given') = current + 1 /\ given'[current + 1] = g
      /\ \A t \in 1 .. current : given'[t] = given[t]
      /\ \A t \in 1 .. (current + 1) : t \in 1 .. current \/ t = current + 1
  <2>1. given \in Seq(Shows) /\ Len(given) = current
    BY DEF Typed
  <2>. HIDE DEF Inv
  <2>2. /\ given' \in Seq(Shows) /\ Len(given') = current + 1 /\ given'[current + 1] = g
        /\ \A t \in 1 .. current : given'[t] = given[t]
    BY <2>1, AppendProperties
  <2>3. /\ turns' \in Seq(TurnRecords) /\ Len(turns') = Len(turns) + 1
        /\ turns'[Len(turns) + 1] = v /\ \A t \in 1 .. Len(turns) : turns'[t] = turns[t]
    BY <1>2, AppendProperties
  <2>. QED  BY SMTT(30), <1>2, <2>2, <2>3 DEF current
<1>7. /\ ToSet(e) = {} /\ IsInjective(e)
      /\ v.status = "running" /\ v.entries = e /\ v.items = e /\ \A m \in Messages : v.state[m] = "none"
  <2>1. ToSet(e) = {} /\ Len(e) = 0 /\ DOMAIN e = 1 .. Len(e)
    BY <1>1, Members, EmptySeq, LenProperties
  <2>2. IsInjective(e)
    BY <2>1 DEF IsInjective
  <2>. QED  BY <1>1, <1>3, <2>1, <2>2
<1>8. Running' /\ \A t \in 1 .. current : turns[t].status # "running"
  <2>1. Running'
    BY <1>2, <1>6, <1>7 DEF Running
  <2>2. \A t \in 1 .. current : turns[t].status = "running" => t = current /\ current > 0
    BY <1>2 DEF LastRuns
  <2>. QED  BY <1>2, <2>1, <2>2 DEF Running
<1>9. Typed'
  <2>1. loop' \in Loops
    BY NoLoopTyped DEF Typed, Loops, PCs
  <2>. QED  BY <1>2, <1>6, <2>1, BoundAssumption DEF Typed, current
<1>10. Entered' /\ LastRuns' /\ ItemsPromoted' /\ StoredOnce'
  <2>1. Entered'
    BY <1>2, <1>6, <1>7 DEF Entered, StateIn, current
  <2>2. LastRuns'
    <3>. SUFFICES ASSUME NEW t \in 1 .. current'
                  PROVE  (turns[t].status = "running" => t = current)' 
                         /\ (turns[t].status # "running" => Waits(t) = {})'
      BY DEF LastRuns
    <3>1. CASE t = current + 1
      BY <1>2, <1>6, <1>7, <3>1
    <3>2. CASE t \in 1 .. current
      <4>1. turns'[t] = turns[t] /\ turns[t].status # "running"
        BY <1>6, <1>8, <3>2
      <4>2. Waits(t) = {}
        BY <3>2, <4>1 DEF LastRuns
      <4>3. Waits(t)' = Waits(t)
        BY <4>1 DEF Waits, StateIn
      <4>. QED  BY <4>1, <4>2, <4>3
    <3>. QED  BY <1>6, <3>1, <3>2
  <2>3. ItemsPromoted /\ StoredOnce
    OBVIOUS
  <2>4. \A t \in 1 .. current, m \in Messages : StateIn(t, m)' = StateIn(t, m)
    BY <1>6 DEF StateIn
  <2>5. \A m \in Messages : turns'[current + 1].state[m] = "none"
    BY <1>6, <1>7
  <2>. HIDE DEF Inv
  <2>. HIDE <1>5
  <2>6. ItemsPromoted'
    <3>. SUFFICES ASSUME NEW t \in 1 .. current', NEW m \in Messages
                  PROVE  (StateIn(t, m) = "promoted" <=> m \in ToSet(turns[t].items))'
      BY DEF ItemsPromoted
    <3>1. CASE t = current + 1
      BY <1>6, <1>7, <2>5, <3>1 DEF StateIn
    <3>2. CASE t \in 1 .. current
      <4>1. turns'[t] = turns[t] /\ StateIn(t, m)' = StateIn(t, m)
        BY <1>6, <2>4, <3>2
      <4>. QED  BY <2>3, <3>2, <4>1 DEF ItemsPromoted
    <3>. QED  BY <1>6, <3>1, <3>2
  <2>7. StoredOnce'
    <3>1. \A m \in Messages, t \in 1 .. current' : t \in 1 .. current \/ StateIn(t, m)' = "none"
      BY <1>6, <2>5 DEF StateIn
    <3>. QED  BY <1>2, <1>6, <2>3, <2>4, <3>1 DEF StoredOnce, Messages
  <2>. QED  BY <2>1, <2>2, <2>6, <2>7
<1>11. LoopRuns'  BY <1>8 DEF LoopRuns, Running, current, NoLoop
<1>12. SendersInTurn'  BY <1>2, <1>6, <1>8 DEF Typed, SendersInTurn, Running, current, Messages
<1>13. ClaimDrained'  BY DEF Typed, ClaimDrained, Drained, NoLoop
<1>14. Preparing'  BY <1>2, <1>6 DEF Typed, Preparing, current, NoLoop
<1>15. ChatFollows'
  <2>1. loop'.pc \in {"load", "enter"} /\ loop'.chat = chat
    BY DEF NoLoop
  <2>2. Follows(e, chat, g)
    <3>1. Selects(e, e) /\ e = e \o e /\ \A l : Due(e, l) = {}
      <4>1. e = e \o e
        BY <1>1, ConcatEmptySeq
      <4>2. DOMAIN e = {}
        BY <1>1, LenProperties, EmptySeq
      <4>. QED  BY <4>1, <4>2, SelectionSelects DEF Due
    <3>. QED  BY <3>1 DEF Follows
  <2>3. given'[current'] = g /\ turns'[current'].items = e
    BY <1>2, <1>6, <1>7
  <2>4. loop'.claim = "none"
    BY DEF NoLoop
  <2>. HIDE DEF Inv
  <2>. QED  BY <2>1, <2>2, <2>3, <2>4 DEF ChatFollows, Answered
<1>16. ShownAdmitted'
  <2>1. loop'.pc # "settle"
    BY DEF NoLoop
  <2>. QED  BY <1>2, <1>6, <1>7, <2>1 DEF ShownAdmitted
<1>17. NothingLeft'  BY DEF ClaimDrained, NothingLeft, Waits, StateIn, current, NoLoop
<1>. QED  BY <1>9, <1>10, <1>11, <1>12, <1>13, <1>14, <1>15, <1>16, <1>17 DEF Inv

\* The turn that ran is ended, or the process stays down.
LEMMA RestartKeeps ==
  ASSUME Inv, Restart
  PROVE  Inv'
<1>. USE DEF Inv, Restart, callers
<1>1. loop.pc = "none" /\ phase = "down" /\ phase' \in {"up", "refused"}
      /\ job' \in {job, [job EXCEPT !.over = TRUE]}
      /\ UNCHANGED <<given, sender, seen, sends, loop, crashes>>
  BY DEF LoopRuns
<1>2. /\ turns' \in Seq(TurnRecords) /\ current' = current
      /\ \A t \in 1 .. current : turns'[t].items = turns[t].items
      /\ phase' = "up" => ~Running'
      /\ Entered' /\ LastRuns' /\ ItemsPromoted' /\ StoredOnce'
  <2>1. CASE UNCHANGED turns /\ (phase' = "up" => ~Running)
    BY <2>1, ThreadStays DEF Typed, Running, current
  <2>2. CASE Running /\ EndTurn("aborted")
    <3>1. PICK st \in Statuses : st = "aborted" /\ EndTurn(st)
      BY <2>2 DEF Statuses
    <3>. HIDE DEF Inv, Restart
    <3>2. /\ turns' \in Seq(TurnRecords) /\ current' = current
          /\ turns'[current].status = st /\ st # "running"
          /\ turns'[current].items = turns[current].items
          /\ \A t \in 1 .. current : t # current => turns'[t] = turns[t]
          /\ Entered' /\ LastRuns' /\ ItemsPromoted' /\ StoredOnce'
      BY <2>2, <3>1, TurnEnded
    <3>3. current \in 1 .. current
      BY <2>2, LenProperties DEF Running, Inv, Typed, current
    <3>. QED  BY <3>2, <3>3 DEF Running
  <2>. QED  BY <2>1, <2>2
<1>. USE <1>1
<1>. HIDE DEF Restart
<1>3. Typed'
  BY <1>2 DEF Typed, current, Senders, Loops, PCs, Claims, SteerStates, NoSteers, Messages
<1>4. Entered' /\ LastRuns' /\ ItemsPromoted' /\ StoredOnce'  BY <1>2
<1>5. LoopRuns'  BY <1>2 DEF LoopRuns, Running, current
<1>6. SendersInTurn'  BY <1>2 DEF Typed, SendersInTurn, Running, current, Messages, LoopRuns
<1>7. ClaimDrained'  BY <1>2 DEF Typed, ClaimDrained, Drained, LoopRuns, Loops
<1>8. Preparing'  BY <1>2 DEF Typed, Preparing, current
<1>9. SameTalk  BY <1>2 DEF Typed, Loops, SameTalk, Talks, Answered, current, LoopRuns, Running
<1>10. ChatFollows' /\ ShownAdmitted'  BY <1>9, TalkStays
<1>11. NothingLeft'  BY <1>2 DEF ClaimDrained, NothingLeft, Waits, StateIn, current
<1>. QED  BY <1>3, <1>4, <1>5, <1>6, <1>7, <1>8, <1>9, <1>10, <1>11 DEF Inv

\* A draft is stored in the turn that admitted its call.
LEMMA AdmitDraftKeeps ==
  ASSUME Inv, NEW m \in Messages, AdmitDraft(m)
  PROVE  Inv'
<1>. USE DEF Inv, AdmitDraft, Return, process
<1>1. /\ turns' \in Seq(TurnRecords) /\ current' = current /\ Running' = Running
      /\ current \in 1 .. current
      /\ \A t \in 1 .. current : turns'[t].status = turns[t].status /\ turns'[t].items = turns[t].items
      /\ Entered' /\ LastRuns' /\ ItemsPromoted' /\ StoredOnce'
  <2>1. AddEntry(m) /\ (m \in JobSteers => current = 1) /\ (m \in Replies => Free(m))
    BY SenderAssumption
  <2>2. current \in 1 .. current /\ Running
    BY <2>1, LenProperties DEF AddEntry, Running, Typed, current
  <2>. HIDE DEF Inv, AdmitDraft
  <2>3. /\ turns' \in Seq(TurnRecords) /\ current' = current
        /\ \A t \in 1 .. current : /\ turns'[t].status = turns[t].status
                                   /\ turns'[t].items = turns[t].items
        /\ Entered' /\ LastRuns' /\ ItemsPromoted' /\ StoredOnce'
    BY <2>1, EntryAdded
  <2>. QED  BY <2>2, <2>3 DEF Running
<1>2. Typed'
  BY <1>1 DEF Typed, current, Senders, Loops, PCs, Claims, SteerStates, NoSteers, Messages
<1>3. Entered' /\ LastRuns' /\ ItemsPromoted' /\ StoredOnce'  BY <1>1
<1>4. LoopRuns'  BY <1>1 DEF LoopRuns, Running, current, Typed, Loops
<1>5. SendersInTurn'  BY <1>1 DEF Typed, SendersInTurn, Running, current, Messages
<1>6. ClaimDrained'  BY DEF Typed, ClaimDrained, Drained, Loops
<1>7. Preparing'  BY <1>1 DEF Typed, Preparing, current, Loops
<1>8. SameTalk  BY <1>1 DEF Typed, Loops, SameTalk, Talks, Answered, current, LoopRuns, Running
<1>9. ChatFollows' /\ ShownAdmitted'  BY <1>8, TalkStays
<1>10. NothingLeft'
  BY DEF ClaimDrained, NothingLeft, Waits, StateIn, current, Drained, Typed, Loops
<1>. QED  BY <1>2, <1>3, <1>4, <1>5, <1>6, <1>7, <1>8, <1>9, <1>10 DEF Inv

\* A reply is stored that no turn has.
LEMMA AdmitReplyKeeps ==
  ASSUME Inv, NEW m \in Messages, AdmitReply(m)
  PROVE  Inv'
<1>. USE DEF Inv, AdmitReply, Return, process
<1>1. /\ turns' \in Seq(TurnRecords) /\ current' = current /\ Running' = Running
      /\ current \in 1 .. current
      /\ \A t \in 1 .. current : turns'[t].status = turns[t].status /\ turns'[t].items = turns[t].items
      /\ Entered' /\ LastRuns' /\ ItemsPromoted' /\ StoredOnce'
  <2>1. AddEntry(m) /\ (m \in JobSteers => current = 1) /\ (m \in Replies => Free(m))
    BY SenderAssumption
  <2>2. current \in 1 .. current /\ Running
    BY <2>1, LenProperties DEF AddEntry, Running, Typed, current
  <2>. HIDE DEF Inv, AdmitReply
  <2>3. /\ turns' \in Seq(TurnRecords) /\ current' = current
        /\ \A t \in 1 .. current : /\ turns'[t].status = turns[t].status
                                   /\ turns'[t].items = turns[t].items
        /\ Entered' /\ LastRuns' /\ ItemsPromoted' /\ StoredOnce'
    BY <2>1, EntryAdded
  <2>. QED  BY <2>2, <2>3 DEF Running
<1>2. Typed'
  BY <1>1 DEF Typed, current, Senders, Loops, PCs, Claims, SteerStates, NoSteers, Messages
<1>3. Entered' /\ LastRuns' /\ ItemsPromoted' /\ StoredOnce'  BY <1>1
<1>4. LoopRuns'  BY <1>1 DEF LoopRuns, Running, current, Typed, Loops
<1>5. SendersInTurn'  BY <1>1 DEF Typed, SendersInTurn, Running, current, Messages
<1>6. ClaimDrained'  BY DEF Typed, ClaimDrained, Drained, Loops
<1>7. Preparing'  BY <1>1 DEF Typed, Preparing, current, Loops
<1>8. SameTalk  BY <1>1 DEF Typed, Loops, SameTalk, Talks, Answered, current, LoopRuns, Running
<1>9. ChatFollows' /\ ShownAdmitted'  BY <1>8, TalkStays
<1>10. NothingLeft'
  BY DEF ClaimDrained, NothingLeft, Waits, StateIn, current, Drained, Typed, Loops
<1>. QED  BY <1>2, <1>3, <1>4, <1>5, <1>6, <1>7, <1>8, <1>9, <1>10 DEF Inv

\* The initial state satisfies the invariant.
LEMMA Initially == Init => Inv
<1>. SUFFICES ASSUME Init PROVE Inv
  OBVIOUS
<1>1. turns = <<>> /\ given = <<>> /\ turns \in Seq(TurnRecords) /\ given \in Seq(Shows)
      /\ Len(turns) = 0 /\ Len(given) = 0
  <2>1. \A S : \E s \in Seq(S) : s = <<>> /\ Len(s) = 0
    BY EmptySeq
  <2>. QED  BY <2>1 DEF Init
<1>2. loop \in Loops
  BY NoLoopTyped DEF Init
<1>3. Typed
  BY <1>1, <1>2, BoundAssumption DEF Init, Typed, current, NoSteers, SteerStates, Senders
<1>4. Entered /\ LastRuns /\ ItemsPromoted /\ StoredOnce
  BY <1>1 DEF Entered, LastRuns, ItemsPromoted, StoredOnce, current
<1>5. LoopRuns /\ SendersInTurn /\ ClaimDrained /\ Preparing /\ NothingLeft
  BY <1>1 DEF Init, LoopRuns, Running, SendersInTurn, ClaimDrained, Preparing, NothingLeft, current, NoLoop
<1>6. ChatFollows /\ ShownAdmitted
  BY <1>1 DEF Init, ChatFollows, ShownAdmitted, Talks, Answered, current, NoLoop
<1>. QED  BY <1>3, <1>4, <1>5, <1>6 DEF Inv

\* Each step keeps the invariant.
LEMMA NextKeeps == Inv /\ [Next]_vars => Inv'
<1>. SUFFICES ASSUME Inv, [Next]_vars PROVE Inv'
  OBVIOUS
<1>1. ASSUME NEW m \in Messages,
             ReserveSteer(m) \/ SenderStep(m) \/ DiscardReply(m) \/ ReserveBeforeTurn(m)
      PROVE  Inv'
  BY <1>1, ReserveSteerKeeps, ReserveBeforeTurnKeeps, AdmitDraftKeeps, AdmitReplyKeeps,
     RefuseSteerKeeps, DiscardReplyKeeps, QueueBeforeTurnKeeps, QueueSteerKeeps,
     AdmitSteerKeeps, FailSteerKeeps, RejectSteerKeeps DEF SenderStep
<1>2. CASE \/ EndJob \/ HoldJob \/ ReleaseJob \/ StartTurn \/ Answer \/ PublishFails
           \/ Interrupt \/ Crash \/ Restart
  BY <1>2, EndJobKeeps, HoldJobKeeps, ReleaseJobKeeps, StartTurnKeeps, AnswerKeeps,
     PublishFailsKeeps, InterruptKeeps, CrashKeeps, RestartKeeps
<1>3. CASE LoopStep
  BY <1>3, LoadSteersKeeps, BindSteerKeeps, RejectPreparedKeeps, AdmitPreparedKeeps,
     PreparedKeeps, EnterLoopKeeps, CallProviderKeeps, AskUserKeeps, LoseSourceKeeps, ReadPendingKeeps, ValidateSteersKeeps, PromoteKeeps, PromoteStaleKeeps,
     SettleSteerKeeps, GiveKeeps, CallToolsKeeps, DrainKeeps, LoopFailsKeeps, PublishKeeps,
     ClaimTerminalKeeps DEF LoopStep
<1>4. CASE UNCHANGED vars
  <2>. USE <1>4 DEF vars, callers, process, Inv
  <2>1. Typed'  BY DEF Typed, current
  <2>2. Entered' /\ LastRuns' /\ ItemsPromoted' /\ StoredOnce'  BY ThreadStays
  <2>3. LoopRuns' /\ SendersInTurn'  BY DEF LoopRuns, SendersInTurn, Running, current
  <2>4. ClaimDrained' /\ Preparing'  BY DEF ClaimDrained, Drained, Preparing, current
  <2>5. ChatFollows' /\ ShownAdmitted'  BY DEF ChatFollows, ShownAdmitted, current
  <2>6. NothingLeft'  BY DEF NothingLeft, Waits, StateIn, current
  <2>. QED  BY <2>1, <2>2, <2>3, <2>4, <2>5, <2>6
<1>. QED  BY <1>1, <1>2, <1>3, <1>4 DEF Next

\* Inv holds in every reachable state.
THEOREM Invariance == Spec => []Inv
<1>. QED  BY Initially, NextKeeps, PTL DEF Spec

-----------------------------------------------------------------------------
(* The properties *)

\* Everything has its type, a turn stores an id once, and only the last turn
\* runs or has entries that are pending.
THEOREM Types == Spec => []TypeOK
<1>1. Inv => TypeOK
  <2>. SUFFICES ASSUME Inv PROVE TypeOK
    OBVIOUS
  <2>1. ASSUME NEW t \in 1 .. current
        PROVE  /\ turns[t] \in TurnRecords
               /\ turns[t].status # "running" => Pending(t) = <<>>
    <3>1. turns[t] \in TurnRecords
      BY ElementOfSeq DEF Inv, Typed, current
    <3>2. Pending(t) \in Seq(Messages) /\ ToSet(Pending(t)) \subseteq Waits(t)
      BY <3>1, AmongMembers DEF Pending, TurnRecords
    <3>3. turns[t].status # "running" => Waits(t) = {}
      BY DEF Inv, LastRuns
    <3>4. turns[t].status # "running" => ToSet(Pending(t)) = {}
      BY <3>2, <3>3
    <3>. QED  BY <3>1, <3>2, <3>4, Members
  <2>. QED  BY <2>1 DEF Inv, Typed, Entered, LastRuns, LoopRuns, TypeOK, TurnRecords, Statuses,
               Senders, Loops, PCs, Claims, StateIn
<1>. QED  BY <1>1, Invariance, PTL

\* Once a start has refused the stored turns nothing changes them.
LEMMA RefusedStays == Inv /\ phase = "refused" /\ [Next]_vars => UNCHANGED turns
<1>. SUFFICES ASSUME Inv, phase = "refused", [Next]_vars PROVE UNCHANGED turns
  OBVIOUS
<1>1. \A m \in Messages : sender[m] = "idle"
  BY DEF Inv, Typed, Senders, SendersInTurn
<1>2. ASSUME NEW m \in Messages,
             ReserveSteer(m) \/ SenderStep(m) \/ DiscardReply(m) \/ ReserveBeforeTurn(m)
      PROVE  UNCHANGED turns
  BY <1>1, <1>2 DEF SenderStep, ReserveSteer, DiscardReply, ReserveBeforeTurn, AdmitDraft, AdmitReply,
     RefuseSteer, QueueBeforeTurn, QueueSteer, AdmitSteer, FailSteer, RejectSteer
<1>3. CASE \/ EndJob \/ HoldJob \/ ReleaseJob \/ StartTurn \/ LoopStep \/ Answer \/ PublishFails
           \/ Interrupt \/ Crash \/ Restart
  BY <1>3 DEF EndJob, HoldJob, ReleaseJob, Answer, PublishFails, EnterLoop, CallProvider, AskUser,
     LoseSource, CallsTools, StartTurn, LoopStep, Interrupt, Crash, Restart, At,
     LoadSteers, BindSteer, RejectPrepared, AdmitPrepared, Prepared, ReadPending, ValidateSteers,
     Promote, PromoteStale, SettleSteer, Give, CallTools, Drain, LoopFails, Publish, ClaimTerminal
<1>4. CASE UNCHANGED vars
  BY <1>4 DEF vars
<1>. QED  BY <1>2, <1>3, <1>4 DEF Next

\* Only a start refuses.
LEMMA RestartRefuses == [Next]_vars /\ phase # "refused" /\ phase' = "refused" => Restart
BY DEF Next, HoldJob, ReleaseJob, Answer, PublishFails, EnterLoop, CallProvider, AskUser, LoseSource, GoesOn, SenderStep, ReserveSteer, DiscardReply, ReserveBeforeTurn, AdmitDraft, AdmitReply,
   RefuseSteer, QueueBeforeTurn, QueueSteer, AdmitSteer, FailSteer, RejectSteer, Goes,
   EndJob, StartTurn, LoopStep, Interrupt, Crash, vars, process,
   LoadSteers, BindSteer, RejectPrepared, AdmitPrepared, Prepared, ReadPending, ValidateSteers,
   Promote, PromoteStale, SettleSteer, Give, CallTools, Drain, LoopFails, Publish, ClaimTerminal

\* A start refuses the stored turns only after a client steered two turns with
\* one draft: no crash between two stores makes them look untrusted.
THEOREM StartTrusts == Spec => []RefusesOnlyResent
<1>1. Init => RefusesOnlyResent
  BY DEF Init, RefusesOnlyResent
<1>2. Inv /\ [Next]_vars /\ RefusesOnlyResent => RefusesOnlyResent'
  <2>. SUFFICES ASSUME Inv, [Next]_vars, RefusesOnlyResent, phase' = "refused"
                PROVE  RefusesOnlyResent'
    BY DEF RefusesOnlyResent
  <2>1. CASE phase = "refused"
    BY <2>1, RefusedStays DEF RefusesOnlyResent, StateIn, current
  <2>2. CASE phase # "refused"
    <3>1. Restart
      BY <2>2, RestartRefuses
    <3>2. ~Trusted /\ UNCHANGED turns
      BY <3>1 DEF Restart
    <3>3. PICK t \in 1 .. current, u \in 1 .. current, m \in Messages :
            t # u /\ StateIn(t, m) # "none" /\ StateIn(u, m) # "none"
      BY <3>2 DEF Trusted, Inv, ItemsPromoted
    <3>4. m \in Drafts
      BY <3>3 DEF Messages, Inv, StoredOnce
    <3>. QED  BY <3>2, <3>3, <3>4 DEF RefusesOnlyResent, StateIn, current
  <2>. QED  BY <2>1, <2>2
<1>. QED  BY <1>1, <1>2, Invariance, PTL DEF Spec

-----------------------------------------------------------------------------
(* The steering implements the queue *)

\* What the queue of TurnQueue is for each turn, and the verdicts.
Row(t) ==
  [seen |-> ToSet(turns[t].entries), waiting |-> Pending(t), taken |-> turns[t].items,
   last |-> given[t].last, shown |-> given[t].shown, lost |-> given[t].lost,
   outcome |-> outcomeOf(turns[t].status)]
Table == [t \in 1 .. current |-> Row(t)]
Verdicts == [j \in JobSteers |-> verdictOf(job.steers[j])]
Rows == [seen : SUBSET Messages, waiting : Seq(Messages), taken : Seq(Messages),
         last : Seq(Messages), shown : SUBSET Messages, lost : BOOLEAN,
         outcome : {"open", "complete", "answered", "cut"}]

\* The queues of a state of the thread, row by row.
Shape ==
  /\ current \in Nat /\ Len(Table) = current /\ Table \in [1 .. current -> Rows]
  /\ Queue!current = current /\ (Queue!Open <=> Running)
  /\ \A t \in 1 .. current : /\ turns[t] \in TurnRecords /\ given[t] \in Shows
                             /\ Table[t] = Row(t) /\ Row(t) \in Rows
                             /\ Pending(t) \in Seq(Messages) /\ ToSet(Pending(t)) = Waits(t)

\* The table has a row for each turn, and its last queue is open while a turn runs.
LEMMA TableShape == Inv => Shape
<1>. SUFFICES ASSUME Inv PROVE Shape
  OBVIOUS
<1>1. current \in Nat /\ given \in Seq(Shows) /\ Len(given) = current
      /\ turns \in Seq(TurnRecords)
  BY LenProperties DEF Inv, Typed, current
<1>2. \E R : Table \in [1 .. current -> R]
  <2>. PICK R : R = {Row(t) : t \in 1 .. current}
    OBVIOUS
  <2>1. Table \in [1 .. current -> R]
    BY DEF Table
  <2>. QED  BY <2>1
<1>3. Len(Table) = current
  BY <1>1, <1>2
<1>4. ASSUME NEW t \in 1 .. current
      PROVE  /\ turns[t] \in TurnRecords /\ given[t] \in Shows
             /\ Table[t] = Row(t) /\ Pending(t) \in Seq(Messages) /\ ToSet(Pending(t)) = Waits(t)
  <2>1. turns[t] \in TurnRecords
    BY <1>1, ElementOfSeq DEF current
  <2>3. given[t] \in Shows
    BY <1>1, ElementOfSeq
  <2>4. Waits(t) \subseteq ToSet(turns[t].entries)
    BY DEF Inv, Entered, Waits
  <2>5. Pending(t) \in Seq(Messages) /\ ToSet(Pending(t)) = Waits(t)
    <3>1. PICK s \in Seq(Messages) : s = turns[t].entries
      BY <2>1 DEF TurnRecords
    <3>2. PICK W : W = Waits(t)
      OBVIOUS
    <3>3. Among(s, W) \in Seq(Messages) /\ ToSet(Among(s, W)) = ToSet(s) \cap W
      BY AmongMembers
    <3>. QED  BY <2>4, <3>1, <3>2, <3>3 DEF Pending
  <2>. QED  BY <2>1, <2>3, <2>5 DEF Table
<1>5. Queue!current = current
  BY <1>3 DEF Queue!current, Table, Row
<1>6. current > 0 => Table[current].outcome = outcomeOf(turns[current].status)
                     /\ turns[current].status \in Statuses
  <2>. SUFFICES ASSUME current > 0 PROVE Table[current].outcome = outcomeOf(turns[current].status)
                                         /\ turns[current].status \in Statuses
    OBVIOUS
  <2>1. current \in 1 .. current
    BY <1>1
  <2>2. turns[current] \in TurnRecords /\ Table[current] = Row(current)
    BY <1>4, <2>1
  <2>. QED  BY <2>2 DEF Row, TurnRecords
<1>7. Queue!Open <=> Running
  <2>1. Queue!Open <=> current > 0 /\ Table[current].outcome = "open"
    BY <1>5 DEF Queue!Open, Table, Row
  <2>. QED  BY <1>6, <2>1 DEF Running, outcomeOf, Statuses
<1>8. ASSUME NEW t \in 1 .. current
      PROVE  Row(t) \in Rows
  <2>1. ToSet(turns[t].entries) \subseteq Messages
    BY <1>4, Members DEF TurnRecords
  <2>2. outcomeOf(turns[t].status) \in {"open", "complete", "answered", "cut"}
    BY <1>4 DEF outcomeOf, TurnRecords, Statuses
  <2>. QED  BY <1>4, <2>1, <2>2 DEF Row, Rows, TurnRecords, Shows
<1>9. Table \in [1 .. current -> Rows]
  BY <1>8 DEF Table
<1>. QED  BY <1>1, <1>3, <1>4, <1>5, <1>7, <1>8, <1>9 DEF Shape

\* The same of the next state.
LEMMA TableShapeNext == Inv' => Shape'
BY TableShape, PTL

\* A step that changes the last row only.
LEMMA RowChanged ==
  ASSUME Inv, Inv', current' = current, Running,
         \A t \in 1 .. current : t # current => turns'[t] = turns[t] /\ given'[t] = given[t]
  PROVE  /\ Table' = [Table EXCEPT ![current] = Row(current)'] /\ Row(current)' \in Rows
         /\ Table \in [1 .. current -> Rows] /\ current \in 1 .. current
         /\ Table[current] = Row(current)
         /\ Queue!current = current /\ Queue!Open
<1>1. \A t \in 1 .. current : t # current => Row(t)' = Row(t)
  BY DEF Row, Pending, Waits, StateIn
<1>2. current \in 1 .. current
  BY TableShape DEF Shape, Running
<1>3. Row(current)' \in Rows
  BY <1>2, TableShapeNext DEF Shape
<1>4. Table' = [Table EXCEPT ![current] = Row(current)']
  BY <1>1, <1>2 DEF Table
<1>. QED  BY <1>2, <1>3, <1>4, TableShape DEF Shape

\* An entry that is added waits behind the others.
LEMMA AddRefines ==
  ASSUME Inv, Inv', NEW m \in Messages, AddEntry(m), UNCHANGED <<job, given>>
  PROVE  Queue!Put(m)
<1>1. Running /\ current \in 1 .. current /\ turns[current] \in TurnRecords
  BY TableShape DEF Shape, AddEntry, Running
<1>2. /\ turns'[current].entries = Append(turns[current].entries, m)
      /\ turns'[current].items = turns[current].items
      /\ turns'[current].status = turns[current].status
      /\ \A n \in Messages : turns'[current].state[n] =
           IF n = m THEN "pending" ELSE turns[current].state[n]
      /\ \A t \in 1 .. current : t # current => turns'[t] = turns[t]
      /\ current' = current
  <2>1. PICK r \in TurnRecords : r = turns[current]
    BY <1>1
  <2>2. turns' = [turns EXCEPT ![current] = [r EXCEPT !.entries = Append(r.entries, m),
                                                      !.state = [r.state EXCEPT ![m] = "pending"]]]
    BY <2>1 DEF AddEntry
  <2>3. DOMAIN turns = 1 .. current /\ DOMAIN turns' = DOMAIN turns
    BY <2>2, LenProperties DEF Inv, Typed, current
  <2>4. turns'[current] = [r EXCEPT !.entries = Append(r.entries, m),
                                    !.state = [r.state EXCEPT ![m] = "pending"]]
        /\ \A t \in 1 .. current : t # current => turns'[t] = turns[t]
    BY <1>1, <2>2, <2>3
  <2>5. current' = current
    BY <2>2, <2>3, LenProperties DEF Inv, Typed, current
  <2>. QED  BY <2>1, <2>4, <2>5 DEF TurnRecords
<1>3. m \notin ToSet(turns[current].entries) /\ turns[current].entries \in Seq(Messages)
  BY <1>1 DEF AddEntry, Fresh, Inv, Entered, TurnRecords
<1>4. ToSet(turns'[current].entries) = ToSet(turns[current].entries) \cup {m}
  BY <1>2, <1>3, Members
<1>5. Waits(current)' = Waits(current) \cup {m}
  BY <1>1, <1>2 DEF Waits, StateIn
<1>6. Pending(current)' = Append(Pending(current), m)
  <2>. PICK W, U : W = Waits(current) /\ U = Waits(current)'
    OBVIOUS
  <2>1. PICK s \in Seq(Messages) : s = turns[current].entries
    BY <1>3
  <2>2. Among(Append(s, m), U) = Append(Among(s, U), m)
    BY <1>5, <2>1, AmongAppend
  <2>3. ToSet(s) \cap W = ToSet(s) \cap U
    BY <1>3, <1>5, <2>1
  <2>4. Among(s, W) = Among(s, U)
    BY <2>3, AmongFrame
  <2>. QED  BY <1>2, <2>1, <2>2, <2>4 DEF Pending
<1>7. /\ Table' = [Table EXCEPT ![current] = Row(current)'] /\ Row(current)' \in Rows
      /\ Table \in [1 .. current -> Rows] /\ Table[current] = Row(current)
      /\ Queue!current = current /\ Queue!Open
  BY <1>1, <1>2, RowChanged
<1>8. PICK v, n, a : v \in Rows /\ v = Row(current)' /\ n = Row(current).seen \cup {m}
                              /\ a = Append(Row(current).waiting, m)
  BY <1>7
<1>9. /\ v.seen = n /\ v.waiting = a /\ v.taken = Row(current).taken
      /\ v.last = Row(current).last /\ v.shown = Row(current).shown
      /\ v.lost = Row(current).lost /\ v.outcome = Row(current).outcome
  BY <1>2, <1>4, <1>6, <1>8 DEF Row
<1>10. v = [Table[current] EXCEPT !.seen = n, !.waiting = a]
  <2>. PICK old \in Rows : old = Table[current] /\ old = Row(current)
    BY <1>1, <1>7
  <2>1. v = [old EXCEPT !.seen = n, !.waiting = a]
    BY <1>9, <1>8 DEF Rows
  <2>. QED  BY <2>1
<1>11. Table' = [Table EXCEPT ![current].seen = @ \cup {m}, ![current].waiting = Append(@, m)]
  BY <1>1, <1>7, <1>8, <1>10 DEF Rows
<1>12. m \notin Table[current].seen
  BY <1>3, <1>7 DEF Row
<1>. QED  BY <1>7, <1>11, <1>12 DEF Queue!Put, Table, Row, Verdicts

\* What neither changes a row nor a verdict is not seen.
LEMMA Unseen ==
  ASSUME Inv, current' = current, Verdicts' = Verdicts,
         \A t \in 1 .. current : Row(t)' = Row(t)
  PROVE  UNCHANGED Queue!vars
<1>1. Table' = Table
  BY DEF Table
<1>. QED  BY <1>1 DEF Queue!vars, Table, Row, Verdicts

\* Nor is what leaves the thread and the model's conversation alone.
LEMMA RecordUnseen ==
  ASSUME Inv, UNCHANGED <<turns, given>>, Verdicts' = Verdicts
  PROVE  UNCHANGED Queue!vars
<1>1. current' = current /\ \A t \in 1 .. current : Row(t)' = Row(t)
  BY DEF current, Row, Pending, Waits, StateIn
<1>. QED  BY <1>1, Unseen

\* A reply leaves the messages that wait, which keep their order.
LEMMA DiscardRefines ==
  ASSUME Inv, Inv', NEW m \in Messages, DiscardReply(m)
  PROVE  Queue!Withdraw(m)
<1>1. Running /\ current \in 1 .. current /\ turns[current] \in TurnRecords
      /\ m \in Waits(current)
  BY TableShape DEF Shape, DiscardReply, Running, Waits
<1>2. /\ turns'[current].entries = turns[current].entries
      /\ turns'[current].items = turns[current].items
      /\ turns'[current].status = turns[current].status
      /\ \A n \in Messages : turns'[current].state[n] =
           IF n = m THEN "withdrawn" ELSE turns[current].state[n]
      /\ \A t \in 1 .. current : t # current => turns'[t] = turns[t]
      /\ current' = current
  <2>1. PICK r \in TurnRecords : r = turns[current]
    BY <1>1
  <2>2. turns' = [turns EXCEPT ![current] = [r EXCEPT !.state = [r.state EXCEPT ![m] = "withdrawn"]]]
    BY <2>1 DEF DiscardReply
  <2>3. DOMAIN turns = 1 .. current /\ DOMAIN turns' = DOMAIN turns
    BY <2>2, LenProperties DEF Inv, Typed, current
  <2>4. turns'[current] = [r EXCEPT !.state = [r.state EXCEPT ![m] = "withdrawn"]]
        /\ \A t \in 1 .. current : t # current => turns'[t] = turns[t]
    BY <1>1, <2>2, <2>3
  <2>5. current' = current
    BY <2>2, <2>3, LenProperties DEF Inv, Typed, current
  <2>. QED  BY <2>1, <2>4, <2>5 DEF TurnRecords
<1>3. UNCHANGED <<job, given>>
  BY DEF DiscardReply
<1>4. Waits(current)' = Waits(current) \cap (Messages \ {m})
  BY <1>1, <1>2 DEF Waits, StateIn
<1>5. Pending(current)' = Among(Pending(current), Messages \ {m})
  <2>. PICK W, U : W = Waits(current) /\ U = Messages \ {m}
    OBVIOUS
  <2>1. PICK s \in Seq(Messages) : s = turns[current].entries
    BY <1>1 DEF TurnRecords
  <2>2. Among(Among(s, W), U) = Among(s, W \cap U)
    BY AmongTwice
  <2>. QED  BY <1>2, <1>4, <2>1, <2>2 DEF Pending
<1>6. /\ Table' = [Table EXCEPT ![current] = Row(current)'] /\ Row(current)' \in Rows
      /\ Table \in [1 .. current -> Rows] /\ Table[current] = Row(current)
      /\ Queue!current = current /\ Queue!Open
  BY <1>1, <1>2, <1>3, RowChanged
<1>7. PICK v, a : v \in Rows /\ v = Row(current)' /\ a = Among(Row(current).waiting, Messages \ {m})
  BY <1>6
<1>8. /\ v.waiting = a /\ v.seen = Row(current).seen /\ v.taken = Row(current).taken
      /\ v.last = Row(current).last /\ v.shown = Row(current).shown
      /\ v.lost = Row(current).lost /\ v.outcome = Row(current).outcome
  BY <1>2, <1>3, <1>5, <1>7 DEF Row
<1>9. v = [Table[current] EXCEPT !.waiting = a]
  <2>. PICK old \in Rows : old = Table[current] /\ old = Row(current)
    BY <1>1, <1>6
  <2>1. v = [old EXCEPT !.waiting = a]
    BY <1>8, <1>7 DEF Rows
  <2>. QED  BY <2>1
<1>10. Table' = [Table EXCEPT ![current].waiting = Among(@, Messages \ {m})]
  BY <1>1, <1>6, <1>7, <1>9 DEF Rows
<1>11. m \in ToSet(Table[current].waiting)
  BY <1>1, <1>6, TableShape DEF Row, Shape
<1>12. \A s, T : Queue!Among(s, T) = Among(s, T)
  BY DEF Queue!Among, Among
<1>13. \A s : Queue!Members(s) = ToSet(s)
  BY DEF Queue!Members, ToSet
<1>. QED  BY <1>3, <1>6, <1>10, <1>11, <1>12, <1>13 DEF Queue!Withdraw, Table, Row, Verdicts

\* The end of a turn: its queue is emptied and closed.
LEMMA EndRefines ==
  ASSUME Inv, Inv', Running, NEW st \in Statuses, st # "running", EndTurn(st),
         UNCHANGED given, Verdicts' = Verdicts,
         st = "completed" =>
           /\ Waits(current) = {}
           /\ Due(turns[current].items, given[current].lost) \subseteq given[current].shown
  PROVE  Queue!Close(outcomeOf(st))
<1>1. current \in 1 .. current /\ turns[current] \in TurnRecords
      /\ Pending(current) \in Seq(Messages) /\ ToSet(Pending(current)) = Waits(current)
  BY TableShape DEF Shape, Running
<1>2. /\ current' = current /\ turns'[current].status = st
      /\ turns'[current].items = turns[current].items
      /\ turns'[current].entries = turns[current].entries
      /\ turns'[current].state = CancelPending(turns[current].state)
      /\ \A t \in 1 .. current : t # current => turns'[t] = turns[t]
  BY TurnEnded
<1>3. Pending(current)' \in Seq(Messages) /\ ToSet(Pending(current)') = Waits(current)'
  BY <1>1, <1>2, TableShapeNext DEF Shape
<1>4. Waits(current)' = {}
  BY <1>1, <1>2 DEF Waits, StateIn, CancelPending
<1>5. Pending(current)' = <<>>
  BY <1>3, <1>4, Members
<1>6. /\ Table' = [Table EXCEPT ![current] = Row(current)'] /\ Row(current)' \in Rows
      /\ Table \in [1 .. current -> Rows] /\ Table[current] = Row(current)
      /\ Queue!current = current /\ Queue!Open
  BY <1>1, <1>2, RowChanged
<1>7. PICK v, a, o : v \in Rows /\ v = Row(current)' /\ a = Pending(current)' /\ o = outcomeOf(st)
  BY <1>6
<1>8. /\ v.waiting = a /\ v.seen = Row(current).seen /\ v.taken = Row(current).taken
      /\ v.last = Row(current).last /\ v.shown = Row(current).shown
      /\ v.lost = Row(current).lost /\ v.outcome = o
  BY <1>2, <1>7 DEF Row
<1>9. v = [Table[current] EXCEPT !.waiting = a, !.outcome = o]
  BY <1>1, <1>6, <1>7, <1>8 DEF Rows
<1>10. Table' = [Table EXCEPT ![current].waiting = a, ![current].outcome = o]
  BY <1>1, <1>6, <1>7, <1>9 DEF Rows
<1>11. o = "complete" => Table[current].waiting = <<>> /\ Queue!Owed(Table[current]) = {}
  <2>. SUFFICES ASSUME o = "complete"
                PROVE  Table[current].waiting = <<>> /\ Queue!Owed(Table[current]) = {}
    OBVIOUS
  <2>1. st = "completed"
    BY <1>7 DEF outcomeOf, Statuses
  <2>2. Pending(current) = <<>>
    BY <1>1, <2>1, Members
  <2>. PICK q : q = Table[current]
    OBVIOUS
  <2>3. /\ q.waiting = Pending(current) /\ q.taken = turns[current].items
        /\ q.lost = given[current].lost /\ q.shown = given[current].shown
    BY <1>6 DEF Row
  <2>4. Queue!Owed(q) = Due(q.taken, q.lost) \ q.shown
    BY QueueDue DEF Queue!Owed
  <2>. QED  BY <2>1, <2>2, <2>3, <2>4
<1>. QED  BY <1>5, <1>6, <1>7, <1>10, <1>11 DEF Queue!Close, Table, Row, Verdicts

\* A call shows what it owes.
LEMMA CallRefines ==
  ASSUME Inv, Inv', CallProvider
  PROVE  \E told \in SUBSET ToSet(turns[current].items) : Queue!Give(told)
<1>1. Running /\ current \in 1 .. current /\ turns[current] \in TurnRecords
      /\ given[current] \in Shows /\ Talks(loop)
  BY TableShape DEF Shape, Running, CallProvider, At, Inv, LoopRuns, Talks
<1>2. UNCHANGED <<turns, job>> /\ current' = current
  BY DEF CallProvider, current
<1>. PICK s \in Seq(Messages), g \in Shows : s = turns[current].items /\ g = given[current]
  BY <1>1 DEF TurnRecords
<1>. PICK T, talk : T = ToSet(talk) /\ talk = loop.chat.talk
  OBVIOUS
<1>3. /\ talk = Among(s, T) /\ T \subseteq ToSet(s)
      /\ Due(s, g.lost) \subseteq g.shown \cup T
  <2>1. Follows(s, loop.chat, g)
    BY <1>1 DEF Inv, ChatFollows
  <2>. QED  BY <2>1, FollowsTyped DEF Follows, Selects
<1>4. /\ given'[current].last = talk /\ given'[current].shown = g.shown \cup T /\ given'[current].lost = g.lost
      /\ \A t \in 1 .. current : t # current => given'[t] = given[t]
  <2>1. given \in Seq(Shows) /\ DOMAIN given = 1 .. current
    BY LenProperties DEF Inv, Typed
  <2>2. given' = [given EXCEPT ![current].last = talk, ![current].shown = @ \cup T]
    BY DEF CallProvider
  <2>3. given' = [given EXCEPT ![current] = [g EXCEPT !.last = talk, !.shown = @ \cup T]]
    BY <1>1, <2>1, <2>2 DEF Shows
  <2>. QED  BY <1>1, <2>1, <2>3 DEF Shows
<1>5. /\ Table' = [Table EXCEPT ![current] = Row(current)'] /\ Row(current)' \in Rows
      /\ Table \in [1 .. current -> Rows] /\ Table[current] = Row(current)
      /\ Queue!current = current /\ Queue!Open
  BY <1>1, <1>2, <1>4, RowChanged
<1>6. PICK v, w : v \in Rows /\ v = Row(current)' /\ w = Row(current).shown \cup T
  BY <1>5
<1>7. /\ v.waiting = Row(current).waiting /\ v.seen = Row(current).seen
      /\ v.taken = Row(current).taken /\ v.last = talk /\ v.shown = w
      /\ v.lost = Row(current).lost /\ v.outcome = Row(current).outcome
  BY <1>2, <1>4, <1>6 DEF Row, Pending, Waits, StateIn
<1>8. v = [Table[current] EXCEPT !.last = talk, !.shown = w]
  <2>. PICK old \in Rows : old = Table[current] /\ old = Row(current)
    BY <1>1, <1>5
  <2>1. v = [old EXCEPT !.last = talk, !.shown = w]
    BY <1>7, <1>6 DEF Rows
  <2>. QED  BY <2>1
<1>9. Table' = [Table EXCEPT ![current].last = talk, ![current].shown = @ \cup T]
  BY <1>1, <1>5, <1>6, <1>8 DEF Rows
<1>10. \A x, U : Queue!Among(x, U) = Among(x, U)
  BY DEF Queue!Among, Among
<1>11. \A x : Queue!Members(x) = ToSet(x)
  BY DEF Queue!Members, ToSet
<1>. PICK q : q = Table[current]
  OBVIOUS
<1>12. q.taken = s /\ q.lost = g.lost /\ q.shown = g.shown
  BY <1>5 DEF Row
<1>13. talk = Queue!Among(q.taken, T) /\ T \subseteq Queue!Members(q.taken) /\ Queue!Owed(q) \subseteq T
  <2>1. Queue!Owed(q) = Due(q.taken, q.lost) \ q.shown
    BY QueueDue DEF Queue!Owed
  <2>. QED  BY <1>3, <1>10, <1>11, <1>12, <2>1
<1>14. \A j \in JobSteers \cap T : Verdicts[j] # "refused"
  <2>1. \A j \in JobSteers \cap T : job.steers[j] = "admitted"
    BY <1>1, <1>3 DEF Inv, ShownAdmitted
  <2>. QED  BY <2>1 DEF Verdicts, verdictOf
<1>15. Verdicts' = Verdicts
  BY <1>2 DEF Verdicts
<1>16. Queue!Give(T)
  <2>1. Table' = [Table EXCEPT ![Queue!current].last = Queue!Among(Table[Queue!current].taken, T),
                               ![Queue!current].shown = @ \cup T]
    BY <1>5, <1>9, <1>13
  <2>2. T \subseteq Queue!Members(Table[Queue!current].taken) /\ Queue!Owed(Table[Queue!current]) \subseteq T
    BY <1>5, <1>13
  <2>. QED  BY <1>5, <1>14, <1>15, <2>1, <2>2 DEF Queue!Give, Table, Row, Verdicts
<1>. QED  BY <1>3, <1>16

\* The source of case data is lost.
LEMMA LoseRefines ==
  ASSUME Inv, Inv', LoseSource
  PROVE  Queue!Lose
<1>1. Running /\ current \in 1 .. current /\ turns[current] \in TurnRecords /\ given[current] \in Shows
  BY TableShape DEF Shape, Running, LoseSource, CallsTools, At, Inv, LoopRuns
<1>2. UNCHANGED <<turns, job>> /\ current' = current
  BY DEF LoseSource, current
<1>. PICK g \in Shows : g = given[current]
  BY <1>1
<1>3. /\ given'[current].last = g.last /\ given'[current].shown = g.shown /\ given'[current].lost = TRUE
      /\ \A t \in 1 .. current : t # current => given'[t] = given[t]
  <2>1. given \in Seq(Shows) /\ DOMAIN given = 1 .. current
    BY LenProperties DEF Inv, Typed
  <2>2. given' = [given EXCEPT ![current].lost = TRUE]
    BY DEF LoseSource
  <2>3. given' = [given EXCEPT ![current] = [g EXCEPT !.lost = TRUE]]
    BY <1>1, <2>1, <2>2 DEF Shows
  <2>. QED  BY <1>1, <2>1, <2>3 DEF Shows
<1>4. /\ Table' = [Table EXCEPT ![current] = Row(current)'] /\ Row(current)' \in Rows
      /\ Table \in [1 .. current -> Rows] /\ Table[current] = Row(current)
      /\ Queue!current = current /\ Queue!Open
  BY <1>1, <1>2, <1>3, RowChanged
<1>5. PICK v : v \in Rows /\ v = Row(current)'
  BY <1>4
<1>6. /\ v.waiting = Row(current).waiting /\ v.seen = Row(current).seen
      /\ v.taken = Row(current).taken /\ v.last = Row(current).last /\ v.shown = Row(current).shown
      /\ v.lost = TRUE /\ v.outcome = Row(current).outcome
  BY <1>2, <1>3, <1>5 DEF Row, Pending, Waits, StateIn
<1>7. v = [Table[current] EXCEPT !.lost = TRUE]
  <2>. PICK old \in Rows : old = Table[current] /\ old = Row(current)
    BY <1>1, <1>4
  <2>1. v = [old EXCEPT !.lost = TRUE]
    BY <1>6, <1>5 DEF Rows
  <2>. QED  BY <2>1
<1>8. Table' = [Table EXCEPT ![current].lost = TRUE]
  BY <1>1, <1>4, <1>5, <1>7 DEF Rows
<1>9. Verdicts' = Verdicts
  BY <1>2 DEF Verdicts
<1>. QED  BY <1>4, <1>8, <1>9 DEF Queue!Lose, Table, Row, Verdicts

\* A batch that is promoted is taken from the front; the rest keeps waiting.
LEMMA PromoteRefines ==
  ASSUME Inv, Inv', Promote
  PROVE  \/ \E n \in 1 .. Len(Table[current].waiting) : Queue!Take(n)
         \/ UNCHANGED Queue!vars
<1>1. Running /\ current \in 1 .. current /\ turns[current] \in TurnRecords
      /\ Pending(current) \in Seq(Messages) /\ ToSet(Pending(current)) = Waits(current)
      /\ loop.batch \in Seq(Messages)
  BY TableShape DEF Shape, Running, Promote, At, Inv, LoopRuns, Typed, Loops
<1>2. /\ turns'[current].entries = turns[current].entries
      /\ turns'[current].items = turns[current].items \o loop.batch
      /\ turns'[current].status = turns[current].status
      /\ \A n \in Messages : turns'[current].state[n] =
           IF n \in ToSet(loop.batch) THEN "promoted" ELSE turns[current].state[n]
      /\ \A t \in 1 .. current : t # current => turns'[t] = turns[t]
      /\ current' = current
  <2>1. PICK r, q, w : r \in TurnRecords
          /\ r = turns[current]
          /\ q = [m \in Messages |-> IF m \in ToSet(loop.batch) THEN "promoted" ELSE r.state[m]]
          /\ w = r.items \o loop.batch
    BY <1>1
  <2>2. turns' = [turns EXCEPT ![current] = [r EXCEPT !.state = q, !.items = w]]
    BY <2>1 DEF Promote
  <2>3. DOMAIN turns = 1 .. current /\ DOMAIN turns' = DOMAIN turns
    BY <2>2, LenProperties DEF Inv, Typed, current
  <2>4. turns'[current] = [r EXCEPT !.state = q, !.items = w]
        /\ \A t \in 1 .. current : t # current => turns'[t] = turns[t]
    BY <1>1, <2>2, <2>3
  <2>5. current' = current
    BY <2>2, <2>3, LenProperties DEF Inv, Typed, current
  <2>6. /\ turns'[current].state = q /\ turns'[current].items = w
        /\ turns'[current].entries = r.entries /\ turns'[current].status = r.status
    BY <2>4 DEF TurnRecords
  <2>7. \A n \in Messages :
          q[n] = IF n \in ToSet(loop.batch) THEN "promoted" ELSE turns[current].state[n]
    BY <2>1
  <2>8. r.items = turns[current].items /\ r.entries = turns[current].entries
        /\ r.status = turns[current].status
    BY <2>1
  <2>. QED  BY <2>1, <2>4, <2>5, <2>6, <2>7, <2>8
<1>3. UNCHANGED <<job, given>> /\ IsPrefix(loop.batch, Pending(current))
  BY DEF Promote, IsCurrent
<1>. PICK b \in Seq(Messages), p \in Seq(Messages) : b = loop.batch /\ p = Pending(current)
  BY <1>1
<1>4. /\ Len(b) \in Nat /\ Len(p) \in Nat /\ Len(b) <= Len(p)
      /\ SubSeq(p, 1, Len(b)) = b /\ ToSet(b) \subseteq ToSet(p)
  BY <1>3, PrefixMembers, SubSeqFull, LenProperties DEF IsPrefix
<1>5. Waits(current)' = ToSet(p) \ ToSet(b)
  BY <1>1, <1>2 DEF Waits, StateIn
<1>6. Pending(current)' = SubSeq(p, Len(b) + 1, Len(p))
  <2>. PICK W, U : W = Waits(current) /\ U = Waits(current)'
    OBVIOUS
  <2>. PICK s \in Seq(Messages) : s = turns[current].entries
    BY <1>1 DEF TurnRecords
  <2>1. IsInjective(s) /\ p = Among(s, W)
    BY <1>1 DEF Inv, Entered, Pending
  <2>2. IsInjective(p)
    BY <2>1, AmongDistinct
  <2>3. Among(p, U) = SubSeq(p, Len(b) + 1, Len(p))
    BY <1>3, <1>5, <2>2, AmongRest
  <2>4. Among(p, U) = Among(s, W \cap U)
    BY <2>1, AmongTwice
  <2>5. W \cap U = U
    BY <1>1, <1>5
  <2>. QED  BY <1>2, <2>3, <2>4, <2>5 DEF Pending
<1>7. /\ Table' = [Table EXCEPT ![current] = Row(current)'] /\ Row(current)' \in Rows
      /\ Table \in [1 .. current -> Rows] /\ Table[current] = Row(current)
      /\ Queue!current = current /\ Queue!Open
  BY <1>1, <1>2, <1>3, RowChanged
<1>8. Verdicts' = Verdicts
  BY <1>3 DEF Verdicts
<1>9. CASE b = <<>>
  <2>1. turns'[current].items = turns[current].items
    BY <1>1, <1>2, <1>9, ConcatEmptySeq DEF TurnRecords
  <2>2. Len(b) = 0
    BY <1>9, EmptySeq
  <2>3. Pending(current)' = Pending(current)
    BY <1>4, <1>6, <2>2, SubSeqFull
  <2>4. Row(current)' = Row(current)
    BY <1>2, <1>3, <2>1, <2>3 DEF Row
  <2>5. \A t \in 1 .. current : Row(t)' = Row(t)
    <3>. SUFFICES ASSUME NEW t \in 1 .. current PROVE Row(t)' = Row(t)
      OBVIOUS
    <3>1. CASE t = current
      BY <1>2, <2>4, <3>1
    <3>2. CASE t # current
      <4>1. turns'[t] = turns[t] /\ given'[t] = given[t]
        BY <1>2, <1>3, <3>2
      <4>. QED  BY <4>1 DEF Row, Pending, Waits, StateIn
    <3>. QED  BY <3>1, <3>2
  <2>. QED  BY <1>2, <1>8, <2>5, Unseen
<1>10. CASE b # <<>>
  <2>1. Len(b) \in 1 .. Len(Table[current].waiting)
    BY <1>4, <1>7, <1>10, EmptySeq DEF Row
  <2>2. PICK v, w, i : v \in Rows /\ v = Row(current)' /\ w = SubSeq(p, Len(b) + 1, Len(p))
                                /\ i = Row(current).taken \o b
    BY <1>7
  <2>3. /\ v.waiting = w /\ v.seen = Row(current).seen
        /\ v.taken = i /\ v.last = Row(current).last /\ v.shown = Row(current).shown
      /\ v.lost = Row(current).lost /\ v.outcome = Row(current).outcome
    BY <1>2, <1>3, <1>6, <2>2 DEF Row
  <2>4. v = [Table[current] EXCEPT !.taken = i, !.waiting = w]
    <3>. PICK old \in Rows : old = Table[current] /\ old = Row(current)
      BY <1>1, <1>7
    <3>1. v = [old EXCEPT !.taken = i, !.waiting = w]
      BY <2>3, <2>2 DEF Rows
    <3>. QED  BY <3>1
  <2>5. Table' = [Table EXCEPT ![current].taken = i, ![current].waiting = w]
    BY <1>1, <1>7, <2>2, <2>4 DEF Rows
  <2>6. Table[current].waiting = p /\ Table[current].taken = Row(current).taken
    BY <1>7 DEF Row
  <2>7. /\ i = Table[current].taken \o SubSeq(Table[current].waiting, 1, Len(b))
        /\ w = SubSeq(Table[current].waiting, Len(b) + 1, Len(Table[current].waiting))
    BY <1>4, <2>2, <2>6
  <2>8. Table' = [Table EXCEPT
          ![current].taken = @ \o SubSeq(Table[current].waiting, 1, Len(b)),
          ![current].waiting = SubSeq(@, Len(b) + 1, Len(@))]
    BY <1>1, <1>7, <2>5, <2>7 DEF Rows
  <2>9. Queue!Take(Len(b))
    BY <1>7, <1>8, <2>1, <2>8 DEF Queue!Take, Table, Row, Verdicts
  <2>. QED  BY <2>1, <2>9
<1>. QED  BY <1>9, <1>10

\* Rows that differ in the source of case data only.
LEMMA LostRow ==
  ASSUME NEW r \in Rows, NEW v \in Rows, NEW lost \in BOOLEAN, v.lost = lost,
         r.seen = v.seen, r.waiting = v.waiting, r.taken = v.taken, r.last = v.last,
         r.shown = v.shown, r.outcome = v.outcome
  PROVE  v = [r EXCEPT !.lost = lost]
BY DEF Rows

\* A turn starts with an empty queue when none is open.
LEMMA StartRefines ==
  ASSUME Inv, Inv', StartTurn
  PROVE  Queue!Start
<1>1. ~Running /\ current \in Nat /\ UNCHANGED job
  BY TableShape DEF Shape, StartTurn, At, Inv, LoopRuns
<1>2. PICK e, q : e \in Seq(Messages) /\ e = <<>> /\ q = [m \in Messages |-> "none"]
  BY EmptySeq
<1>3. PICK v \in TurnRecords : v = NewTurn /\ v = [status |-> "running", entries |-> e, state |-> q, items |-> e]
  <2>1. [status |-> "running", entries |-> e, state |-> q, items |-> e] \in TurnRecords
    BY <1>2 DEF TurnRecords, Statuses, EntryStates
  <2>. QED  BY <1>2, <2>1 DEF NewTurn
<1>4. PICK lost \in BOOLEAN, g \in Shows :
        /\ turns' = Append(turns, v) /\ given' = Append(given, g)
        /\ g.last = e /\ g.shown = {} /\ g.lost = lost
  <2>1. PICK lost \in BOOLEAN : given' = Append(given, [last |-> <<>>, shown |-> {}, lost |-> lost])
    BY DEF StartTurn
  <2>. PICK g : g = [last |-> e, shown |-> {}, lost |-> lost]
    OBVIOUS
  <2>2. g \in Shows /\ g.last = e /\ g.shown = {} /\ g.lost = lost
    BY <1>2 DEF Shows
  <2>3. turns' = Append(turns, v)
    BY <1>3 DEF StartTurn
  <2>. QED  BY <1>2, <2>1, <2>2, <2>3
<1>. PICK c \in Nat, d \in Nat : c = current /\ d = current + 1
  BY <1>1
<1>5. /\ current' = d /\ turns'[d] = v /\ \A t \in 1 .. c : turns'[t] = turns[t]
  BY <1>4, AppendProperties DEF Inv, Typed, current
<1>6. given'[d] = g /\ \A t \in 1 .. c : given'[t] = given[t]
  BY <1>4, AppendProperties DEF Inv, Typed
<1>7. \A t \in 1 .. c : Row(t)' = Row(t)
  BY <1>5, <1>6 DEF Row, Pending, Waits, StateIn
<1>8. \A t \in 1 .. d : t \in 1 .. c \/ t = d
  BY <1>1
<1>9. /\ ToSet(e) = {} /\ Among(e, Waits(d)') = <<>>
  BY <1>2, Members, AmongNone
<1>10. PICK r : /\ r = [Queue!EmptyQueue EXCEPT !.lost = lost]
                /\ r = [seen |-> {}, waiting |-> e, taken |-> e, last |-> e, shown |-> {},
                        lost |-> lost, outcome |-> "open"]
  <2>. PICK r : r = [seen |-> {}, waiting |-> e, taken |-> e, last |-> e, shown |-> {},
                     lost |-> lost, outcome |-> "open"]
    OBVIOUS
  <2>. PICK none : none = [seen |-> {}, waiting |-> e, taken |-> e, last |-> e, shown |-> {},
                           lost |-> FALSE, outcome |-> "open"]
    OBVIOUS
  <2>. HIDE DEF Inv
  <2>0. e = <<>>
    BY <1>2
  <2>1. Queue!EmptyQueue = none
    BY <2>0 DEF Queue!EmptyQueue
  <2>2. r = [none EXCEPT !.lost = lost]
    <3>1. none \in Rows /\ r \in Rows
      BY <1>2 DEF Rows
    <3>2. /\ none.seen = r.seen /\ none.waiting = r.waiting /\ none.taken = r.taken
          /\ none.last = r.last /\ none.shown = r.shown /\ none.outcome = r.outcome
          /\ r.lost = lost
      OBVIOUS
    <3>. QED  BY <3>1, <3>2, LostRow
  <2>. QED  BY <2>1, <2>2
<1>11. Row(d)' = r
  <2>1. /\ turns'[d].entries = e /\ turns'[d].items = e
        /\ turns'[d].status = "running"
    BY <1>3, <1>5
  <2>2. Pending(d)' = e
    BY <1>2, <1>9, <2>1 DEF Pending
  <2>3. outcomeOf("running") = "open"
    BY DEF outcomeOf
  <2>. QED  BY <1>4, <1>6, <1>9, <1>10, <2>1, <2>2, <2>3 DEF Row
<1>12. Table' = Append(Table, r)
  <2>1. Table \in [1 .. c -> Rows] /\ Table' \in [1 .. d -> Rows]
        /\ Table' = [t \in 1 .. d |-> Row(t)'] /\ Len(Table) = c
    BY <1>5, TableShape, TableShapeNext DEF Shape, Table
  <2>2. r \in Rows
    BY <1>1, <1>5, <1>11, TableShapeNext DEF Shape
  <2>3. PICK T \in Seq(Rows) : T = Table
    BY <1>1, <2>1
  <2>4. /\ Append(T, r) \in Seq(Rows) /\ Len(Append(T, r)) = d
        /\ Append(T, r)[d] = r /\ \A t \in 1 .. c : Append(T, r)[t] = T[t]
    BY <2>1, <2>2, <2>3, AppendProperties
  <2>5. PICK U \in Seq(Rows) : U = Table' /\ Len(U) = d
    BY <1>1, <2>1
  <2>6. \A t \in 1 .. d : U[t] = Append(T, r)[t]
    BY <1>7, <1>8, <1>11, <2>1, <2>3, <2>4, <2>5, TableShape DEF Shape
  <2>. QED  BY <2>3, <2>4, <2>5, <2>6, SeqEqual
<1>13. Verdicts' = Verdicts /\ ~Queue!Open
  BY <1>1, TableShape DEF Verdicts, Shape
<1>. QED  BY <1>10, <1>12, <1>13 DEF Queue!Start, Table, Row, Verdicts

\* A message is settled as admitted after it was taken.
LEMMA SettleRefines ==
  ASSUME Inv, SettleSteer
  PROVE  \E j \in JobSteers : Queue!Admit(j)
<1>1. Running /\ current \in 1 .. current /\ turns[current] \in TurnRecords
      /\ given[current] \in Shows /\ Table[current] = Row(current)
      /\ loop.batch \in Seq(Messages) /\ Queue!current = current
  BY TableShape DEF Shape, Running, SettleSteer, At, Inv, LoopRuns, Typed, Loops
<1>2. PICK U \in Seq(Messages) :
        /\ U = Unsettled /\ U # <<>>
        /\ ToSet(U) = ToSet(loop.batch) \cap {j \in JobSteers : job.steers[j] # "admitted"}
  BY <1>1, AmongMembers DEF Unsettled, SettleSteer
<1>3. PICK h \in JobSteers : h = Head(U) /\ h \in ToSet(loop.batch) /\ job.steers[h] # "admitted"
  <2>1. PICK i \in 1 .. Len(U) : i = 1
    BY <1>2, EmptySeq
  <2>2. Head(U) = U[1] /\ U[1] \in ToSet(U)
    BY <1>2, <2>1, HeadTailProperties, LenProperties DEF ToSet
  <2>. QED  BY <1>2, <2>2
<1>4. job.steers[h] = "queued" /\ job' = [job EXCEPT !.steers[h] = "admitted"]
  BY <1>2, <1>3 DEF SettleSteer, MaySettle
<1>5. Verdicts[h] = "none" /\ Verdicts' = [Verdicts EXCEPT ![h] = "admitted"]
  <2>1. \A j \in JobSteers : job'.steers[j] = IF j = h THEN "admitted" ELSE job.steers[j]
    BY <1>4 DEF Inv, Typed
  <2>2. verdictOf("queued") = "none" /\ verdictOf("admitted") = "admitted"
    BY DEF verdictOf
  <2>3. \A j \in JobSteers : verdictOf(job'.steers[j]) =
          IF j = h THEN "admitted" ELSE verdictOf(job.steers[j])
    BY <2>1, <2>2
  <2>. QED  BY <1>4, <2>2, <2>3 DEF Verdicts
<1>6. h \in ToSet(Table[current].taken)
  <2>. PICK b \in Seq(Messages) : b = loop.batch
    BY <1>1
  <2>1. PICK s \in Seq(Messages) : turns[current].items = s \o b
    BY DEF SettleSteer, At, Inv, ChatFollows
  <2>2. ToSet(s \o b) = ToSet(s) \cup ToSet(b)
    BY Members
  <2>. QED  BY <1>1, <1>3, <2>1, <2>2 DEF Row
<1>7. Table' = Table
  BY DEF SettleSteer, Table, Row, Pending, Waits, StateIn, current
<1>8. \A s : Queue!Members(s) = ToSet(s)
  BY DEF Queue!Members, ToSet
<1>9. \E t \in 1 .. Queue!current : h \in Queue!Members(Table[t].taken)
  BY <1>1, <1>6, <1>8
<1>. QED  BY <1>5, <1>7, <1>9 DEF Queue!Admit, Table, Row, Verdicts

\* Only what was not shown is refused.
LEMMA RefuseRefines ==
  ASSUME Inv, NEW R \in SUBSET JobSteers, UNCHANGED <<turns, given>>,
         \A j \in R : job.steers[j] \in {"waiting", "queued"},
         \A j \in JobSteers : verdictOf(job'.steers[j]) =
            IF j \in R THEN "refused" ELSE verdictOf(job.steers[j])
  PROVE  Queue!Refuse(R)
<1>1. \A j \in R : Verdicts[j] = "none"
  BY DEF Verdicts, verdictOf
<1>2. \A j \in R, t \in 1 .. current : j \notin Table[t].shown
  <2>1. ASSUME NEW t \in 1 .. current
        PROVE  Table[t].shown = given[t].shown
    <3>1. Table[t] = Row(t)
      BY TableShape DEF Shape
    <3>2. Row(t).shown = given[t].shown
      BY DEF Row
    <3>. QED  BY <3>1, <3>2
  <2>2. \A j \in R : j \in JobSteers /\ job.steers[j] # "admitted"
    OBVIOUS
  <2>. QED  BY <2>1, <2>2 DEF Inv, ShownAdmitted
<1>3. Verdicts' = [j \in JobSteers |-> IF j \in R THEN "refused" ELSE Verdicts[j]]
  BY DEF Verdicts
<1>4. Table' = Table
  BY DEF Table, Row, Pending, Waits, StateIn, current
<1>6. \A j \in R : \A t \in 1 .. Queue!current : j \notin Table[t].shown
  BY <1>2, TableShape DEF Shape
<1>. QED  BY <1>1, <1>3, <1>4, <1>6 DEF Queue!Refuse, Table, Row, Verdicts

\* A message of the job that is rejected.
LEMMA RejectRefines ==
  ASSUME Inv, NEW h \in JobSteers, job.steers[h] \in {"waiting", "queued"},
         job' = [job EXCEPT !.steers[h] = "rejected"], UNCHANGED <<turns, given>>
  PROVE  Queue!Refuse({h})
<1>1. \A j \in JobSteers : job'.steers[j] = IF j = h THEN "rejected" ELSE job.steers[j]
  BY DEF Inv, Typed
<1>2. \A j \in JobSteers : verdictOf(job'.steers[j]) =
        IF j \in {h} THEN "refused" ELSE verdictOf(job.steers[j])
  <2>1. verdictOf("rejected") = "refused"
    BY DEF verdictOf
  <2>. QED  BY <1>1, <2>1
<1>3. {h} \in SUBSET JobSteers /\ \A j \in {h} : job.steers[j] \in {"waiting", "queued"}
  OBVIOUS
<1>. QED  BY <1>2, <1>3, RefuseRefines

\* The end of the job.
LEMMA EndJobRefines ==
  ASSUME Inv, EndJob
  PROVE  \E R \in SUBSET JobSteers : Queue!Refuse(R)
<1>. PICK R \in SUBSET JobSteers : R = {j \in JobSteers : job.steers[j] \in {"waiting", "queued"}}
  OBVIOUS
<1>1. UNCHANGED <<turns, given>> /\ \A j \in JobSteers :
        job'.steers[j] = IF j \in R THEN "expired" ELSE job.steers[j]
  BY DEF EndJob
<1>2. \A j \in JobSteers : verdictOf(job'.steers[j]) =
        IF j \in R THEN "refused" ELSE verdictOf(job.steers[j])
  <2>1. verdictOf("expired") = "refused"
    BY DEF verdictOf
  <2>. QED  BY <1>1, <2>1
<1>3. Queue!Refuse(R)
  BY <1>1, <1>2, RefuseRefines
<1>. QED  BY <1>3

\* The steps of the senders.
LEMMA SenderRefines ==
  ASSUME Inv, Inv', NEW m \in Messages,
         ReserveSteer(m) \/ SenderStep(m) \/ DiscardReply(m) \/ ReserveBeforeTurn(m)
  PROVE  [Queue!Next]_Queue!vars
<1>1. CASE ReserveSteer(m) \/ ReserveBeforeTurn(m) \/ RefuseSteer(m) \/ FailSteer(m)
  <2>1. UNCHANGED <<turns, given, job>> /\ Verdicts' = Verdicts
    BY <1>1 DEF ReserveSteer, ReserveBeforeTurn, RefuseSteer, FailSteer, Verdicts
  <2>. QED  BY <2>1, RecordUnseen
<1>2. CASE AdmitDraft(m) \/ AdmitReply(m) \/ AdmitSteer(m)
  <2>1. UNCHANGED <<job, given>> /\ (AddEntry(m) \/ UNCHANGED turns)
    BY <1>2 DEF AdmitDraft, AdmitReply, AdmitSteer
  <2>2. Verdicts' = Verdicts
    BY <2>1 DEF Verdicts
  <2>3. AddEntry(m) => Queue!Put(m)
    BY <2>1, AddRefines
  <2>4. UNCHANGED turns => UNCHANGED Queue!vars
    BY <2>1, <2>2, RecordUnseen
  <2>. QED  BY <2>1, <2>3, <2>4 DEF Queue!Next
<1>3. CASE DiscardReply(m)
  <2>1. m \in Replies /\ Queue!Withdraw(m)
    BY <1>3, DiscardRefines DEF DiscardReply
  <2>. QED  BY <2>1 DEF Queue!Next
<1>4. CASE QueueBeforeTurn(m) \/ QueueSteer(m)
  <2>1. PICK q \in {"waiting", "queued"} : /\ job' = [job EXCEPT !.steers[m] = q]
                                           /\ m \in JobSteers /\ job.steers[m] \in {"none", q}
    BY <1>4 DEF QueueBeforeTurn, QueueSteer, MayQueue, Inv, SendersInTurn
  <2>2. \A j \in JobSteers : verdictOf(job'.steers[j]) = verdictOf(job.steers[j])
    BY <2>1 DEF verdictOf, Inv, Typed
  <2>3. Verdicts' = Verdicts /\ UNCHANGED <<turns, given>>
    BY <1>4, <2>2 DEF Verdicts, QueueBeforeTurn, QueueSteer
  <2>. QED  BY <2>3, RecordUnseen
<1>5. CASE RejectSteer(m)
  <2>1. m \in JobSteers /\ Queue!Refuse({m})
    BY <1>5, RejectRefines DEF RejectSteer, Inv, SendersInTurn
  <2>. QED  BY <2>1 DEF Queue!Next
<1>. QED  BY <1>1, <1>2, <1>3, <1>4, <1>5 DEF SenderStep

\* The message in hand while the job's messages are prepared.
LEMMA HeadInHand ==
  ASSUME Inv, loop.pc \in {"prepare", "bound"}, loop.batch # <<>>
  PROVE  Head(loop.batch) \in JobSteers /\ loop.known[Head(loop.batch)] \in {"waiting", "queued"}
<1>1. loop.batch \in Seq(Messages) /\ IsInjective(loop.batch)
  BY DEF Inv, Typed, Loops, Preparing
<1>2. Head(loop.batch) \in ToSet(loop.batch)
  BY <1>1, RestDistinct
<1>. QED  BY <1>2 DEF Inv, Preparing

\* The steps of the loop.
LEMMA LoopRefines ==
  ASSUME Inv, Inv', LoopStep
  PROVE  [Queue!Next]_Queue!vars
<1>1. CASE \/ LoadSteers \/ Prepared \/ ReadPending \/ ValidateSteers \/ PromoteStale
           \/ EnterLoop \/ Give \/ CallTools \/ AskUser \/ Drain \/ LoopFails
           \/ \E kind \in {"candidate", "fixed", "failure"} : ClaimTerminal(kind)
  <2>1. UNCHANGED <<turns, given, job>> /\ Verdicts' = Verdicts
    BY <1>1 DEF LoadSteers, Prepared, ReadPending, ValidateSteers, PromoteStale, EnterLoop,
       Give, CallTools, AskUser, Drain, LoopFails, ClaimTerminal, Verdicts
  <2>. QED  BY <2>1, RecordUnseen
<1>2. CASE BindSteer
  <2>1. PICK h \in JobSteers : h = Head(loop.batch) /\ job.steers[h] \in {"waiting", "queued"}
    BY <1>2, HeadInHand DEF BindSteer, At
  <2>2. \A j \in JobSteers : verdictOf(job'.steers[j]) = verdictOf(job.steers[j])
    BY <1>2, <2>1 DEF BindSteer, verdictOf, Inv, Typed
  <2>3. Verdicts' = Verdicts /\ UNCHANGED <<turns, given>>
    BY <1>2, <2>2 DEF Verdicts, BindSteer
  <2>. QED  BY <2>3, RecordUnseen
<1>3. CASE RejectPrepared
  <2>1. PICK h \in JobSteers : h = Head(loop.batch) /\ job.steers[h] \in {"waiting", "queued"}
    BY <1>3, HeadInHand DEF RejectPrepared, At
  <2>2. Queue!Refuse({h})
    BY <1>3, <2>1, RejectRefines DEF RejectPrepared
  <2>. QED  BY <2>2 DEF Queue!Next
<1>4. CASE AdmitPrepared
  <2>1. PICK h \in Messages : h = Head(loop.batch)
    BY <1>4, HeadInHand DEF AdmitPrepared, At, Inv, Preparing, Messages
  <2>2. UNCHANGED <<job, given>> /\ (AddEntry(h) \/ UNCHANGED turns)
    BY <1>4, <2>1 DEF AdmitPrepared
  <2>3. Verdicts' = Verdicts
    BY <2>2 DEF Verdicts
  <2>4. AddEntry(h) => Queue!Put(h)
    BY <2>2, AddRefines
  <2>5. UNCHANGED turns => UNCHANGED Queue!vars
    BY <2>2, <2>3, RecordUnseen
  <2>. QED  BY <2>2, <2>4, <2>5 DEF Queue!Next
<1>5. CASE Promote
  <2>1. CASE \E n \in 1 .. Len(Table[current].waiting) : Queue!Take(n)
    <3>1. PICK n \in 1 .. Len(Table[current].waiting) : Queue!Take(n)
      BY <2>1
    <3>2. Queue!current = current
      BY TableShape DEF Shape
    <3>3. Queue!Open /\ \E k \in 1 .. Len(Table[Queue!current].waiting) : Queue!Take(k)
      BY <3>1, <3>2 DEF Queue!Take
    <3>. QED  BY <3>3 DEF Queue!Next, Table, Row
  <2>. QED  BY <1>5, <2>1, PromoteRefines
<1>6. CASE SettleSteer
  BY <1>6, SettleRefines DEF Queue!Next
<1>7. CASE CallProvider
  <2>1. PICK told \in SUBSET ToSet(turns[current].items) : Queue!Give(told)
    BY <1>7, CallRefines
  <2>2. Queue!current = current /\ Table[current].taken = turns[current].items
    <3>1. Shape /\ current \in 1 .. current
      BY <1>7, TableShape DEF CallProvider, At, Inv, LoopRuns, Running, Shape
    <3>2. Queue!current = current /\ Table[current] = Row(current)
      BY <3>1 DEF Shape
    <3>3. Row(current).taken = turns[current].items
      BY DEF Row
    <3>. QED  BY <3>2, <3>3
  <2>3. \A s : Queue!Members(s) = ToSet(s)
    BY DEF Queue!Members, ToSet
  <2>4. Queue!Open /\ \E t \in SUBSET Queue!Members(Table[Queue!current].taken) : Queue!Give(t)
    BY <2>1, <2>2, <2>3 DEF Queue!Give
  <2>. QED  BY <2>4 DEF Queue!Next, Table, Row
<1>8. CASE LoseSource
  BY <1>8, LoseRefines DEF Queue!Next
<1>9. CASE Publish
  <2>1. Running /\ loop.pc = "publish" /\ UNCHANGED <<job, given>>
    BY <1>9 DEF Publish, At, Inv, LoopRuns
  <2>2. PICK st \in Statuses : st = Outcome(loop.claim) /\ st # "running" /\ EndTurn(st)
    BY <1>9, <2>1 DEF Publish, Outcome, Statuses, Inv, ClaimDrained, Typed, Loops, Claims
  <2>3. st = "completed" => loop.claim = "candidate"
    BY <2>1, <2>2 DEF Outcome, Inv, ClaimDrained, Typed, Loops, Claims
  <2>4. st = "completed" =>
          /\ Waits(current) = {}
          /\ Due(turns[current].items, given[current].lost) \subseteq given[current].shown
    BY <2>1, <2>3 DEF Inv, ChatFollows, Answered, PCs, NothingLeft
  <2>5. Verdicts' = Verdicts
    BY <2>1 DEF Verdicts
  <2>6. Queue!Close(outcomeOf(st))
    BY <2>1, <2>2, <2>4, <2>5, EndRefines
  <2>7. outcomeOf(st) \in {"complete", "answered", "cut"}
    BY <2>2 DEF outcomeOf, Statuses
  <2>. QED  BY <2>6, <2>7 DEF Queue!Next
<1>. QED  BY <1>1, <1>2, <1>3, <1>4, <1>5, <1>6, <1>7, <1>9, <1>8 DEF LoopStep

\* Every step is one of the queue, or is not seen.
LEMMA NextRefines ==
  ASSUME Inv, Inv', [Next]_vars
  PROVE  [Queue!Next]_Queue!vars
<1>1. CASE UNCHANGED vars
  <2>1. UNCHANGED <<turns, given, job>> /\ Verdicts' = Verdicts
    BY <1>1 DEF vars, Verdicts
  <2>. QED  BY <2>1, RecordUnseen
<1>2. CASE Interrupt \/ Crash \/ HoldJob \/ ReleaseJob \/ Answer \/ PublishFails
  <2>1. UNCHANGED <<turns, given, job>> /\ Verdicts' = Verdicts
    BY <1>2 DEF Interrupt, Crash, HoldJob, ReleaseJob, Answer, PublishFails, Verdicts
  <2>. QED  BY <2>1, RecordUnseen
<1>3. CASE EndJob
  BY <1>3, EndJobRefines DEF Queue!Next
<1>4. CASE StartTurn
  BY <1>4, StartRefines DEF Queue!Next
<1>5. CASE Restart
  <2>1. UNCHANGED given
    BY <1>5 DEF Restart
  <2>2. Verdicts' = Verdicts
    <3>1. job' = job \/ job' = [job EXCEPT !.over = TRUE]
      BY <1>5 DEF Restart
    <3>2. job'.steers = job.steers
      BY <3>1 DEF Inv, Typed
    <3>. QED  BY <3>2 DEF Verdicts
  <2>3. CASE Trusted /\ Running
    <3>1. PICK st \in Statuses : st = "aborted" /\ EndTurn(st)
      BY <1>5, <2>3 DEF Restart, Statuses
    <3>2. Queue!Close(outcomeOf(st))
      BY <2>1, <2>2, <2>3, <3>1, EndRefines
    <3>3. outcomeOf(st) = "cut"
      BY <3>1 DEF outcomeOf
    <3>. QED  BY <3>2, <3>3 DEF Queue!Next
  <2>4. CASE ~(Trusted /\ Running)
    <3>1. UNCHANGED turns
      BY <1>5, <2>4 DEF Restart
    <3>. QED  BY <2>1, <2>2, <3>1, RecordUnseen
  <2>. QED  BY <2>3, <2>4
<1>6. CASE LoopStep
  BY <1>6, LoopRefines
<1>7. ASSUME NEW m \in Messages,
             ReserveSteer(m) \/ SenderStep(m) \/ DiscardReply(m) \/ ReserveBeforeTurn(m)
      PROVE  [Queue!Next]_Queue!vars
  BY <1>7, SenderRefines
<1>. QED  BY <1>1, <1>2, <1>3, <1>4, <1>5, <1>6, <1>7 DEF Next

\* The steering of a thread is the queue of TurnQueue: nothing is taken twice, out
\* of order or after it was withdrawn; the next call shows every ordinary message
\* that was taken, and the ones on case data unless ordinary work was taken after
\* them or their source was lost; a candidate answers what was taken and leaves
\* nothing behind; the verdict on a job's message is final and true.
THEOREM SteeringImplementsQueue == Spec => ImplementsQueue
<1>1. Init => Queue!Init
  <2>. SUFFICES ASSUME Init PROVE Queue!Init
    OBVIOUS
  <2>1. Inv /\ current = 0
    BY Initially, EmptySeq DEF Init, current
  <2>2. Len(Table) = 0 /\ Table \in [1 .. 0 -> Rows]
    BY <2>1, TableShape DEF Shape
  <2>3. Table = <<>>
    BY <2>2, EmptySeq
  <2>4. Verdicts = [j \in JobSteers |-> "none"]
    BY DEF Init, Verdicts, verdictOf, NoSteers
  <2>. QED  BY <2>3, <2>4 DEF Queue!Init, Table, Row, Verdicts
<1>2. Inv /\ Inv' /\ [Next]_vars => [Queue!Next]_Queue!vars
  BY NextRefines
<1>. QED  BY <1>1, <1>2, Invariance, PTL DEF Spec, ImplementsQueue, Queue!Spec
===============================================================================
