--------------------------- MODULE LiveEventsProofs ---------------------------
(***************************************************************************)
(* Theorems of LiveEvents, for every number of streams, every capacity of  *)
(* a buffer and every length of the log.                                   *)
(*                                                                         *)
(* Two inductive invariants, the second on top of the first:               *)
(*   Base      what the log, the writers, the queues and the collected     *)
(*             units look like; it needs no assumption on the errors of    *)
(*             appends and yields TypeOK, BundleWhole and FinalWithheld.   *)
(*   Delivery  what every stream has, will be offered, or missed; it needs *)
(*             the cached frontier to be current, so it holds of the       *)
(*             errors that let the store repair it (Repairable), and       *)
(*             yields SkipsOnlyUnoffered.                                  *)
(* The actions of Next fall into six classes of steps: a writer appends    *)
(* (Grows), a group is published (Publishes), a stream goes to another     *)
(* phase (Moves), streams end (Closes), a replay is delivered (Deliver),   *)
(* a unit is taken (Consume). One lemma says of each class that it keeps   *)
(* the invariant, and one of each action to which class it belongs.        *)
(***************************************************************************)
EXTENDS LiveEvents, SequenceTheorems, TLAPS

GroupSet == [kind : Kinds, first : Nat, last : Nat]
UnitSet == [group : GroupSet, seq : Nat]
StreamSet == [phase : Phases, open : BOOLEAN, queue : Seq(UnitSet), pending : Seq(UnitSet),
              cursor : Nat, upto : Nat]

Whole(kind) == kind \in {"terminal", "final"}
UnitOf(g, n) == [group |-> g, seq |-> n]

\* The types.
Typed ==
  /\ log \in Seq(GroupSet)
  /\ highest \in Nat \cup {Unknown}
  /\ writing \in GroupSet \cup {None} /\ reserved \in GroupSet \cup {None}
  /\ owed \subseteq GroupSet
  /\ stream \in [Streams -> StreamSet]
  /\ shown \in [Streams -> SUBSET Nat] /\ late \in [Streams -> SUBSET Nat]

\* The groups fill the log without gaps, one after the other.
Laid ==
  /\ \A i \in DOMAIN log : log[i].last = log[i].first + Size(log[i].kind) - 1
  /\ \A i \in DOMAIN log : log[i].first = 1 + (IF i = 1 THEN 0 ELSE log[i - 1].last)
  /\ \A i, j \in DOMAIN log : i < j => log[i].last < log[j].first

\* A writer or a staged final holds the end of the log, and never both do.
Writers ==
  /\ writing # None => /\ reserved = None /\ log # <<>> /\ writing = log[Len(log)]
                       /\ writing.kind # "final"
  /\ reserved # None => log # <<>> /\ reserved = log[Len(log)] /\ reserved.kind = "final"
  /\ owed \subseteq {g \in Groups : g.kind = "terminal"}
  /\ highest # Unknown => highest <= End(log)

\* What a queue may hold: a unit of a group that is in the log and published.
Published == Groups \ {reserved}
IsUnit(u, groups) ==
  /\ u.group \in groups
  /\ u.seq \in Seqs(u.group)
  /\ u.group.kind = "final" => u.seq = u.group.last

Queues ==
  \A s \in Streams :
    /\ Len(stream[s].queue) <= Cap
    /\ \A i \in DOMAIN stream[s].queue : IsUnit(stream[s].queue[i], Published)

\* A stream that is over holds nothing.
Over ==
  \A s \in Streams :
    /\ stream[s].phase # "mixed"
    /\ stream[s].phase \in {"off", "revoked"} =>
         ~stream[s].open /\ stream[s].queue = <<>> /\ stream[s].pending = <<>>

\* The two units of a terminal bundle lie side by side in a queue; the first
\* may have been collected, or the cursor may have passed both.
PairedIn(queue, i, cursor, pending) ==
  LET g == queue[i].group
  IN g.kind = "terminal" =>
       /\ queue[i].seq = g.first => i + 1 \in DOMAIN queue /\ queue[i + 1] = UnitOf(g, g.last)
       /\ queue[i].seq = g.last /\ i # 1 => queue[i - 1] = UnitOf(g, g.first)
       /\ queue[i].seq = g.last /\ i = 1 => g.last <= cursor \/ pending = <<UnitOf(g, g.first)>>

Paired ==
  \A s \in Streams : \A i \in DOMAIN stream[s].queue :
    PairedIn(stream[s].queue, i, stream[s].cursor, stream[s].pending)

\* What is collected is the first unit of a terminal bundle that the cursor has
\* not passed and whose second unit is the next of the queue.
Collected ==
  \A s \in Streams :
    LET pending == stream[s].pending
        queue == stream[s].queue
        g == pending[1].group
    IN pending # <<>> =>
         /\ g \in Groups /\ g.kind = "terminal"
         /\ pending = <<UnitOf(g, g.first)>>
         /\ stream[s].cursor < g.first
         /\ queue # <<>> /\ queue[1] = UnitOf(g, g.last)
         /\ stream[s].phase = "deliver" => g.last <= stream[s].upto

\* n does not split a terminal bundle or a final.
Aligned(n) == \A g \in Groups : Whole(g.kind) => n < g.first \/ g.last <= n

Bounded ==
  \A s \in Streams :
    /\ stream[s].cursor <= End(log) /\ Aligned(stream[s].cursor)
    /\ stream[s].phase \in {"deliver", "probed"} => stream[s].upto <= End(log)
    /\ stream[s].phase = "deliver" =>
         Aligned(stream[s].upto) /\ stream[s].cursor <= stream[s].upto
    /\ shown[s] \cup late[s] \subseteq 1 .. End(log)

WholeShown ==
  \A s \in Streams : \A g \in Groups : Whole(g.kind) =>
    Seqs(g) \subseteq shown[s] \/ Seqs(g) \cap shown[s] = {}

Withheld ==
  \A s \in Streams : reserved # None =>
    stream[s].cursor < reserved.first /\ Seqs(reserved) \cap shown[s] = {}

Base == Typed /\ Laid /\ Writers /\ Queues /\ Over /\ Paired /\ Collected /\ Bounded
          /\ WholeShown /\ Withheld

-----------------------------------------------------------------------------
\* None and Unknown are neither groups nor sequences.
LEMMA NoGroup == None \notin GroupSet /\ Unknown \notin Nat
BY ValueAssumption DEF GroupSet

\* The number of events of a group.
LEMMA Sizes == \A k \in Kinds : Size(k) \in {1, 2} /\ (Whole(k) => Size(k) = 2)
BY DEF Size, Kinds, Whole

\* The frontier of the log is the last event of its last group.
LEMMA EndOfLog ==
  ASSUME log \in Seq(GroupSet)
  PROVE  /\ End(log) \in Nat
         /\ log # <<>> => Len(log) \in DOMAIN log /\ log[Len(log)] \in Groups
                            /\ End(log) = log[Len(log)].last
         /\ log = <<>> => End(log) = 0
         /\ Groups \subseteq GroupSet
<1>1. Groups \subseteq GroupSet
  BY DEF Groups, ToSet
<1>2. CASE log = <<>>
  BY <1>1, <1>2 DEF End
<1>3. CASE log # <<>>
  <2>1. Len(log) \in DOMAIN log
    BY <1>3
  <2>2. log[Len(log)] \in Groups
    BY <2>1 DEF Groups, ToSet
  <2>3. End(log) = log[Len(log)].last
    BY <1>3 DEF End, Last
  <2>. QED  BY <1>1, <1>3, <2>1, <2>2, <2>3 DEF GroupSet
<1>. QED  BY <1>2, <1>3

\* Groups of the log do not overlap, and end with it.
LEMMA Apart ==
  ASSUME Typed, Laid
  PROVE  /\ \A g \in Groups : /\ g.first \in Nat /\ g.last \in Nat /\ 1 <= g.first
                              /\ g.last = g.first + Size(g.kind) - 1
                              /\ g.first <= g.last /\ g.last <= End(log)
         /\ \A g, h \in Groups : g = h \/ g.last < h.first \/ h.last < g.first
<1>1. \A i \in DOMAIN log : /\ log[i] \in GroupSet /\ log[i].first \in Nat /\ log[i].last \in Nat
                            /\ 1 <= log[i].first
                            /\ log[i].first <= log[i].last /\ log[i].last <= End(log)
  <2>. SUFFICES ASSUME NEW i \in DOMAIN log
                PROVE  /\ log[i] \in GroupSet /\ log[i].first \in Nat /\ log[i].last \in Nat
                       /\ 1 <= log[i].first
                       /\ log[i].first <= log[i].last /\ log[i].last <= End(log)
    OBVIOUS
  <2>1. log[i] \in GroupSet /\ i \in 1 .. Len(log) /\ Len(log) \in DOMAIN log /\ log[Len(log)] \in GroupSet
    BY DEF Typed
  <2>2. Size(log[i].kind) \in {1, 2} /\ Size(log[Len(log)].kind) \in {1, 2}
    BY <2>1, Sizes DEF GroupSet
  <2>3. 1 <= log[i].first
    <3>1. CASE i = 1
      BY <3>1 DEF Laid
    <3>2. CASE i # 1
      <4>1. i - 1 \in DOMAIN log /\ log[i - 1] \in GroupSet
        BY <2>1, <3>2 DEF Typed
      <4>. QED  BY <3>2, <4>1 DEF Laid, GroupSet
    <3>. QED  BY <3>1, <3>2
  <2>4. log[i].first <= log[i].last
    BY <2>1, <2>2 DEF Laid, GroupSet
  <2>5. log[Len(log)].first <= log[Len(log)].last
    BY <2>1, <2>2 DEF Laid, GroupSet
  <2>6. End(log) = log[Len(log)].last
    BY <2>1, EndOfLog DEF Typed
  <2>7. i = Len(log) \/ log[i].last < log[Len(log)].first
    BY <2>1 DEF Laid
  <2>. QED  BY <2>1, <2>3, <2>4, <2>5, <2>6, <2>7 DEF GroupSet
<1>2. \A g \in Groups : \E i \in DOMAIN log : g = log[i]
  BY DEF Groups, ToSet
<1>3. \A i, j \in DOMAIN log : i = j \/ i < j \/ j < i
  BY DEF Typed
<1>. QED  BY <1>1, <1>2, <1>3 DEF Laid

\* The units a publication enqueues.
LEMMA UnitsOf ==
  ASSUME NEW g \in GroupSet, g.last = g.first + Size(g.kind) - 1
  PROVE  /\ Units(g) \in Seq(UnitSet)
         /\ g.kind = "final" => Len(Units(g)) = 1 /\ Units(g)[1] = UnitOf(g, g.last)
         /\ g.kind = "event" => Len(Units(g)) = 1 /\ Units(g)[1] = UnitOf(g, g.first)
         /\ g.kind \in {"bundle", "terminal"} =>
              Len(Units(g)) = 2 /\ Units(g)[1] = UnitOf(g, g.first) /\ Units(g)[2] = UnitOf(g, g.last)
         /\ \A i \in DOMAIN Units(g) : Units(g)[i].group = g /\ Units(g)[i].seq \in Seqs(g)
<1>1. g.kind \in Kinds /\ g.first \in Nat /\ g.last \in Nat
  BY DEF GroupSet
<1>2. Size(g.kind) = IF g.kind = "event" THEN 1 ELSE 2
  BY DEF Size
<1>3. CASE g.kind = "final"
  <2>1. Units(g) = <<UnitOf(g, g.last)>>
    BY <1>3 DEF Units, UnitOf
  <2>2. UnitOf(g, g.last) \in UnitSet
    BY <1>1 DEF UnitOf, UnitSet
  <2>. QED  BY <1>1, <1>2, <1>3, <2>1, <2>2 DEF UnitOf, Seqs
<1>4. CASE g.kind # "final"
  <2>1. Units(g) = [i \in 1 .. Size(g.kind) |-> UnitOf(g, g.first + i - 1)]
    BY <1>4 DEF Units, UnitOf
  <2>2. \A i \in 1 .. Size(g.kind) : UnitOf(g, g.first + i - 1) \in UnitSet /\ g.first + i - 1 \in Seqs(g)
    BY <1>1, <1>2 DEF UnitOf, UnitSet, Seqs
  <2>3. Units(g) \in Seq(UnitSet) /\ Len(Units(g)) = Size(g.kind) /\ DOMAIN Units(g) = 1 .. Size(g.kind)
    BY <1>2, <2>1, <2>2
  <2>4. \A i \in 1 .. Size(g.kind) : Units(g)[i] = UnitOf(g, g.first + i - 1)
    BY <2>1
  <2>5. \A i \in DOMAIN Units(g) : Units(g)[i].group = g /\ Units(g)[i].seq \in Seqs(g)
    BY <2>2, <2>3, <2>4 DEF UnitOf
  <2>6. CASE g.kind = "event"
    BY <1>1, <1>2, <2>3, <2>4, <2>5, <2>6
  <2>7. CASE g.kind \in {"bundle", "terminal"}
    BY <1>1, <1>2, <2>3, <2>4, <2>5, <2>7
  <2>. QED  BY <1>1, <1>4, <2>6, <2>7 DEF Kinds
<1>. QED  BY <1>3, <1>4

-----------------------------------------------------------------------------
(* The log grows *)

\* The group that an append writes.
LEMMA NextGroupOk ==
  ASSUME Typed, Laid, NEW k \in Kinds
  PROVE  /\ NextGroup(k) \in GroupSet /\ NextGroup(k).kind = k
         /\ NextGroup(k).first = End(log) + 1
         /\ NextGroup(k).last = End(log) + Size(k)
         /\ NextGroup(k).first <= NextGroup(k).last
         /\ \A g \in Groups : g.last < NextGroup(k).first
         /\ NextGroup(k) \notin Groups
<1>1. End(log) \in Nat /\ Size(k) \in {1, 2}
  BY EndOfLog, Sizes DEF Typed
<1>2. NextGroup(k) = [kind |-> k, first |-> End(log) + 1, last |-> End(log) + Size(k)]
  BY DEF NextGroup
<1>3. \A g \in Groups : g.last <= End(log) /\ g.last \in Nat
  BY Apart
<1>. QED  BY <1>1, <1>2, <1>3 DEF GroupSet

\* The log with one more group.
LEMMA GrownLog ==
  ASSUME Typed, Laid, NEW k \in Kinds, log' = Append(log, NextGroup(k))
  PROVE  /\ log' \in Seq(GroupSet) /\ Laid'
         /\ Groups' = Groups \cup {NextGroup(k)}
         /\ End(log)' = NextGroup(k).last /\ End(log) < End(log)'
         /\ End(log) \in Nat /\ End(log)' \in Nat
         /\ log' # <<>> /\ log'[Len(log')] = NextGroup(k)
<1> DEFINE g == NextGroup(k)
           n == Len(log)
<1>1. /\ g \in GroupSet /\ g.kind = k /\ g.first = End(log) + 1 /\ g.last = End(log) + Size(k)
      /\ g.first <= g.last /\ End(log) \in Nat
  BY NextGroupOk, EndOfLog DEF Typed
<1>2. /\ log' \in Seq(GroupSet) /\ Len(log') = n + 1 /\ DOMAIN log' = 1 .. n + 1 /\ n \in Nat
      /\ \A i \in 1 .. n : log'[i] = log[i]
      /\ log'[n + 1] = g /\ DOMAIN log = 1 .. n
  BY <1>1 DEF Typed
<1>3. Groups' = Groups \cup {g}
  BY <1>2 DEF Groups, ToSet
<1>4. log' # <<>>
  BY <1>2
<1>5. End(log)' = g.last
  BY <1>2, <1>4 DEF End, Last
<1>6. \A i \in 1 .. n : log[i].last < g.first
  BY <1>2, NextGroupOk DEF Groups, ToSet
<1>7. Laid'
  <2>1. \A i \in DOMAIN log' : log'[i].last = log'[i].first + Size(log'[i].kind) - 1
    <3>1. g.last = g.first + Size(g.kind) - 1
      BY <1>1, Sizes
    <3>2. \A i \in 1 .. n : log'[i].last = log'[i].first + Size(log'[i].kind) - 1
      BY <1>2 DEF Laid
    <3>. QED  BY <1>2, <3>1, <3>2
  <2>2. \A i \in DOMAIN log' : log'[i].first = 1 + (IF i = 1 THEN 0 ELSE log'[i - 1].last)
    <3>. SUFFICES ASSUME NEW i \in 1 .. n + 1
                  PROVE  log'[i].first = 1 + (IF i = 1 THEN 0 ELSE log'[i - 1].last)
      BY <1>2
    <3>1. CASE i \in 1 .. n
      <4>1. i # 1 => i - 1 \in 1 .. n
        BY <3>1
      <4>. QED  BY <1>2, <3>1, <4>1 DEF Laid
    <3>2. CASE i = n + 1 /\ n = 0
      <4>1. End(log) = 0
        BY <1>2, <3>2, EndOfLog DEF Typed
      <4>. QED  BY <1>1, <1>2, <3>2, <4>1
    <3>3. CASE i = n + 1 /\ n # 0
      <4>1. End(log) = log[n].last /\ n \in 1 .. n /\ i # 1 /\ i - 1 = n
        BY <1>2, <3>3, EndOfLog DEF Typed
      <4>. QED  BY <1>1, <1>2, <3>3, <4>1
    <3>. QED  BY <1>2, <3>1, <3>2, <3>3
  <2>3. \A i, j \in DOMAIN log' : i < j => log'[i].last < log'[j].first
    <3>. SUFFICES ASSUME NEW i \in 1 .. n + 1, NEW j \in 1 .. n + 1, i < j
                  PROVE  log'[i].last < log'[j].first
      BY <1>2
    <3>1. CASE j = n + 1
      BY <1>2, <1>6, <3>1
    <3>2. CASE j \in 1 .. n
      <4>1. i \in 1 .. n
        BY <3>2, <1>2
      <4>. QED  BY <1>2, <3>2, <4>1 DEF Laid
    <3>. QED  BY <1>2, <3>1, <3>2
  <2>. QED  BY <2>1, <2>2, <2>3 DEF Laid
<1>. QED  BY <1>1, <1>2, <1>3, <1>4, <1>5, <1>7, Sizes

\* What an append asks and does, whatever its answer.
Grows(k) ==
  /\ k \in Kinds
  /\ writing = None /\ reserved = None
  /\ log' = Append(log, NextGroup(k))
  /\ writing' # None => writing' = NextGroup(k) /\ k # "final" /\ reserved' = None
  /\ reserved' # None => reserved' = NextGroup(k) /\ k = "final"
  /\ owed' \subseteq owed \cup {g \in {NextGroup(k)} : g.kind = "terminal"}
  /\ highest' \in {Unknown, End(log), End(log'), highest}
  /\ UNCHANGED clients
  /\ late' \in [Streams -> SUBSET Nat]
  /\ \A s \in Streams : late'[s] = late[s] \/ late'[s] = late[s] \cup Seqs(NextGroup(k))

\* An append keeps the invariant.
LEMMA GrowKeeps ==
  ASSUME Base, NEW k, Grows(k)
  PROVE  Base'
<1>. USE DEF Base
<1>0. k \in Kinds /\ log' = Append(log, NextGroup(k)) /\ stream' = stream /\ shown' = shown
      /\ writing = None /\ reserved = None
  BY DEF Grows, clients
<1>1. /\ log' \in Seq(GroupSet) /\ Laid'
      /\ Groups' = Groups \cup {NextGroup(k)}
      /\ End(log)' = NextGroup(k).last /\ End(log) < End(log)'
      /\ End(log) \in Nat /\ End(log)' \in Nat
      /\ log' # <<>> /\ log'[Len(log')] = NextGroup(k)
  BY <1>0, GrownLog
<1>2. PICK g : g = NextGroup(k)
  OBVIOUS
<1>3. /\ g \in GroupSet /\ g.kind = k /\ g.first = End(log) + 1 /\ g.last = End(log)'
      /\ g.first <= g.last /\ g \notin Groups
  BY <1>0, <1>1, <1>2, NextGroupOk
<1>4. None \notin GroupSet /\ Unknown \notin Nat
  BY NoGroup
<1>5. Groups \subseteq GroupSet
  BY EndOfLog DEF Typed
<1>6. Typed'
  <2>1. writing' \in GroupSet \cup {None} /\ reserved' \in GroupSet \cup {None}
    BY <1>2, <1>3 DEF Grows
  <2>2. highest' \in Nat \cup {Unknown}
    BY <1>1 DEF Grows, Typed
  <2>3. owed' \subseteq GroupSet
    BY <1>2, <1>3 DEF Grows, Typed
  <2>. QED  BY <1>0, <1>1, <2>1, <2>2, <2>3 DEF Grows, Typed
<1>7. Writers'
  <2>1. writing' # None => reserved' = None /\ writing' = g /\ g.kind # "final"
    BY <1>2, <1>3 DEF Grows
  <2>2. reserved' # None => reserved' = g /\ g.kind = "final"
    BY <1>2, <1>3 DEF Grows
  <2>3. owed' \subseteq {h \in Groups' : h.kind = "terminal"}
    BY <1>1, <1>2 DEF Grows, Writers
  <2>4. highest' # Unknown => highest' <= End(log)'
    BY <1>1 DEF Grows, Typed, Writers
  <2>. QED  BY <1>1, <1>2, <2>1, <2>2, <2>3, <2>4 DEF Writers
<1>8. Queues'
  <2>1. Published \subseteq Published'
    BY <1>1, <1>2, <1>3, <1>4, <1>5 DEF Published, Grows
  <2>. QED  BY <1>0, <2>1 DEF Queues, IsUnit
<1>9. Over' /\ Paired'
  BY <1>0 DEF Over, Paired, PairedIn
<1>10. Collected'
  BY <1>0, <1>1 DEF Collected
<1>11. \A s \in Streams : stream[s].cursor \in Nat /\ stream[s].upto \in Nat
  BY DEF Typed, StreamSet
<1>12. \A n \in Nat : n <= End(log) /\ Aligned(n) => Aligned(n)'
  BY <1>1, <1>2, <1>3 DEF Aligned
<1>13. Bounded'
  <2>1. \A s \in Streams : stream'[s].cursor <= End(log)' /\ Aligned(stream[s].cursor)'
    BY <1>0, <1>1, <1>11, <1>12 DEF Bounded
  <2>2. \A s \in Streams : stream[s].phase \in {"deliver", "probed"} => stream[s].upto <= End(log)'
    BY <1>1, <1>11 DEF Bounded
  <2>3. \A s \in Streams : stream[s].phase = "deliver" =>
           Aligned(stream[s].upto)' /\ stream[s].cursor <= stream[s].upto
    BY <1>0, <1>11, <1>12 DEF Bounded
  <2>4. \A s \in Streams : shown'[s] \cup late'[s] \subseteq 1 .. End(log)'
    <3>. SUFFICES ASSUME NEW s \in Streams PROVE shown'[s] \cup late'[s] \subseteq 1 .. End(log)'
      OBVIOUS
    <3>1. shown[s] \cup late[s] \subseteq 1 .. End(log)'
      BY <1>1 DEF Bounded
    <3>2. Seqs(g) \subseteq 1 .. End(log)'
      BY <1>1, <1>3 DEF Seqs
    <3>. QED  BY <1>0, <1>2, <3>1, <3>2 DEF Grows
  <2>. QED  BY <1>0, <2>1, <2>2, <2>3, <2>4 DEF Bounded
<1>14. \A s \in Streams : Seqs(g) \cap shown[s] = {}
  BY <1>1, <1>3 DEF Bounded, Seqs
<1>15. WholeShown'
  BY <1>0, <1>1, <1>2, <1>14 DEF WholeShown
<1>16. Withheld'
  BY <1>0, <1>1, <1>2, <1>3, <1>11, <1>14 DEF Withheld, Grows, Bounded
<1>. QED  BY <1>1, <1>6, <1>7, <1>8, <1>9, <1>10, <1>13, <1>15, <1>16

-----------------------------------------------------------------------------
(* A group is published *)

Publishes(g) ==
  /\ g \in Groups
  /\ Publish(g)
  /\ UNCHANGED <<log, shown>>
  /\ writing \in {None, g} /\ reserved \in {None, g}
  /\ writing' = None /\ reserved' = None
  /\ owed' \subseteq owed
  /\ highest' = End(log)
  /\ late' \in [Streams -> SUBSET Nat]
  /\ \A s \in Streams : late'[s] = late[s] \/ late'[s] = late[s] \cup Seqs(g)
  /\ g.kind = "event" =>
       \A s \in Streams : stream[s].open /\ ~fits(s, g) => late'[s] = late[s] \cup Seqs(g)

\* A subscriber gets the units of the group, or does not; a subscriber that
\* does not get a bundle is disconnected.
Receives(s, g) ==
  /\ stream[s].open
  /\ stream'[s] = [stream[s] EXCEPT !.queue = @ \o Units(g)]
  /\ fits(s, g)
LosesOut(s, g) ==
  /\ stream'[s] = [stream[s] EXCEPT !.open = FALSE] \/ stream'[s] = stream[s]
  /\ stream'[s].open => g.kind = "event" /\ stream[s].open /\ ~fits(s, g)

\* A publication treats every stream in one of the two ways.
LEMMA Offering ==
  ASSUME Typed, NEW g \in GroupSet, Publish(g)
  PROVE  /\ stream' = [s \in Streams |-> stream'[s]]
         /\ \A s \in Streams : Receives(s, g) \/ LosesOut(s, g)
<1>0. /\ stream \in [Streams -> StreamSet]
      /\ \A s \in Streams : stream[s].open \in BOOLEAN /\ DOMAIN stream[s] = {"phase", "open", "queue", "pending", "cursor", "upto"}
  BY DEF Typed, StreamSet
<1>1. CASE g.kind = "event"
  <2>1. stream' = [s \in Streams |-> IF s \in Subscribed /\ fits(s, g)
                       THEN [stream[s] EXCEPT !.queue = @ \o Units(g)] ELSE stream[s]]
    BY <1>1 DEF Publish, BroadcastOne
  <2>. QED  BY <1>0, <1>1, <2>1 DEF Receives, LosesOut, Subscribed
<1>2. CASE g.kind # "event"
  <2>1. stream' = [s \in Streams |->
           CASE s \notin Subscribed -> stream[s]
             [] s \in Subscribed /\ ~fits(s, g) -> [stream[s] EXCEPT !.open = FALSE]
             [] OTHER -> [stream[s] EXCEPT !.queue = @ \o Units(g)]]
    BY <1>2 DEF Publish, BroadcastBundleNoPrefix
  <2>2. \A s \in Streams : s \notin Subscribed => stream'[s] = stream[s] /\ ~stream[s].open
    BY <2>1, <1>0 DEF Subscribed
  <2>3. \A s \in Streams : s \in Subscribed /\ ~fits(s, g) => stream'[s] = [stream[s] EXCEPT !.open = FALSE]
    BY <2>1
  <2>4. \A s \in Streams : s \in Subscribed /\ fits(s, g) => Receives(s, g)
    BY <2>1 DEF Receives, Subscribed
  <2>5. \A s \in Streams : s \in Subscribed /\ ~fits(s, g) => LosesOut(s, g)
    BY <2>3, <1>0 DEF LosesOut
  <2>. QED  BY <2>1, <2>2, <2>4, <2>5, <1>0 DEF LosesOut
<1>. QED  BY <1>1, <1>2

\* A queue with units put behind it.
LEMMA Joined ==
  ASSUME NEW q \in Seq(UnitSet), NEW r \in Seq(UnitSet), NEW w, w = q \o r
  PROVE  /\ w \in Seq(UnitSet) /\ Len(w) = Len(q) + Len(r)
         /\ \A i \in DOMAIN q : i \in DOMAIN w /\ w[i] = q[i]
         /\ \A i \in DOMAIN r : w[Len(q) + i] = r[i]
<1>1. PICK T : T = UnitSet
  OBVIOUS
<1>2. /\ w \in Seq(T) /\ Len(w) = Len(q) + Len(r)
      /\ \A i \in DOMAIN q : i \in DOMAIN w /\ w[i] = q[i]
      /\ \A i \in DOMAIN r : w[Len(q) + i] = r[i]
  BY <1>1
<1>. QED  BY <1>1, <1>2

\* The queue of a subscriber that receives the group.
LEMMA Lengthened ==
  ASSUME Base, NEW g \in Groups, NEW s \in Streams, Receives(s, g)
  PROVE  /\ stream'[s] \in StreamSet
         /\ stream'[s].phase = stream[s].phase /\ stream'[s].open = stream[s].open
         /\ stream'[s].pending = stream[s].pending /\ stream'[s].cursor = stream[s].cursor
         /\ stream'[s].upto = stream[s].upto
         /\ Len(stream'[s].queue) = Len(stream[s].queue) + Len(Units(g))
         /\ Len(stream'[s].queue) <= Cap
         /\ \A i \in DOMAIN stream[s].queue :
              i \in DOMAIN stream'[s].queue /\ stream'[s].queue[i] = stream[s].queue[i]
         /\ \A i \in DOMAIN Units(g) :
              stream'[s].queue[Len(stream[s].queue) + i] = Units(g)[i]
<1>. USE DEF Base
<1>1. g \in GroupSet /\ g.last = g.first + Size(g.kind) - 1
  BY Apart, EndOfLog DEF Typed
<1>2. Units(g) \in Seq(UnitSet)
  BY <1>1, UnitsOf
<1>4. PICK q \in Seq(UnitSet) : q = stream[s].queue
  BY DEF Typed, StreamSet
<1>5. PICK r \in Seq(UnitSet) : r = Units(g)
  BY <1>2
<1>6. PICK w : w = q \o r
  OBVIOUS
<1>11. w \in Seq(UnitSet) /\ Len(w) = Len(q) + Len(r)
  BY <1>6, Joined
<1>12. \A n \in DOMAIN q : n \in DOMAIN w /\ w[n] = q[n]
  BY <1>6, Joined
<1>13. \A n \in DOMAIN r : w[Len(q) + n] = r[n]
  BY <1>6, Joined
<1>7. stream[s] \in StreamSet
  BY DEF Typed
<1>8. stream'[s] = [stream[s] EXCEPT !.queue = w]
  BY <1>4, <1>5, <1>6 DEF Receives
<1>9. /\ stream'[s] \in StreamSet /\ stream'[s].queue = w
      /\ stream'[s].phase = stream[s].phase /\ stream'[s].open = stream[s].open
      /\ stream'[s].pending = stream[s].pending /\ stream'[s].cursor = stream[s].cursor
      /\ stream'[s].upto = stream[s].upto
  BY <1>7, <1>8, <1>11 DEF StreamSet
<1>10. Len(q) + Len(r) <= Cap
  <2>1. Len(r) <= Cap - Len(q) /\ Len(q) \in Nat /\ Len(r) \in Nat /\ Cap \in Nat
    BY <1>4, <1>5, BoundAssumption DEF Receives, fits, Room
  <2>. QED  BY <2>1
<1>. QED  BY <1>4, <1>5, <1>9, <1>10, <1>11, <1>12, <1>13

\* A publication keeps the invariant.
LEMMA PublishKeeps ==
  ASSUME Base, NEW g, Publishes(g)
  PROVE  Base'
<1>. USE DEF Base
<1>0. /\ g \in Groups /\ Publish(g) /\ log' = log /\ shown' = shown /\ reserved' = None /\ writing' = None
      /\ Groups' = Groups /\ End(log)' = End(log)
  BY DEF Publishes, Groups
<1>1. /\ Groups \subseteq GroupSet /\ g \in GroupSet /\ End(log) \in Nat
      /\ g.first \in Nat /\ g.last \in Nat /\ g.first <= g.last /\ g.last <= End(log)
      /\ g.last = g.first + Size(g.kind) - 1 /\ 1 <= g.first
  BY <1>0, EndOfLog, Apart DEF Typed
<1>2. None \notin GroupSet /\ Unknown \notin Nat
  BY NoGroup
<1>3. /\ stream' = [s \in Streams |-> stream'[s]]
      /\ \A s \in Streams : Receives(s, g) \/ LosesOut(s, g)
  BY <1>0, <1>1, Offering
<1>4. \A s \in Streams : stream[s] \in StreamSet
  BY DEF Typed
<1>5. \A s \in Streams : LosesOut(s, g) =>
        /\ stream'[s] \in StreamSet
        /\ stream'[s].phase = stream[s].phase /\ (stream'[s].open => stream[s].open)
        /\ stream'[s].pending = stream[s].pending /\ stream'[s].cursor = stream[s].cursor
        /\ stream'[s].upto = stream[s].upto /\ stream'[s].queue = stream[s].queue
  <2>. SUFFICES ASSUME NEW s \in Streams, LosesOut(s, g), stream'[s] # stream[s]
                PROVE  /\ stream'[s] \in StreamSet
                       /\ stream'[s].phase = stream[s].phase /\ (stream'[s].open => stream[s].open)
                       /\ stream'[s].pending = stream[s].pending
                       /\ stream'[s].cursor = stream[s].cursor
                       /\ stream'[s].upto = stream[s].upto /\ stream'[s].queue = stream[s].queue
    BY <1>4
  <2>1. stream'[s] = [stream[s] EXCEPT !.open = FALSE]
    BY DEF LosesOut
  <2>. QED  BY <1>4, <2>1 DEF StreamSet
<1>6. \A s \in Streams :
        /\ stream'[s] \in StreamSet
        /\ stream'[s].phase = stream[s].phase /\ (stream'[s].open => stream[s].open)
        /\ stream'[s].pending = stream[s].pending /\ stream'[s].cursor = stream[s].cursor
        /\ stream'[s].upto = stream[s].upto
  BY <1>0, <1>3, <1>5, Lengthened
<1>7. Typed'
  <2>1. stream' \in [Streams -> StreamSet]
    BY <1>3, <1>6
  <2>. QED  BY <1>0, <1>1, <2>1 DEF Publishes, Typed
<1>8. Laid' /\ Writers'
  BY <1>0, <1>1, <1>2 DEF Laid, Writers, Publishes
<1>9. Published \subseteq Published' /\ g \in Published'
  BY <1>0, <1>1, <1>2 DEF Published
<1>10. \A i \in DOMAIN Units(g) : IsUnit(Units(g)[i], Published')
  <2>1. \A i \in DOMAIN Units(g) : Units(g)[i].group = g /\ Units(g)[i].seq \in Seqs(g)
    BY <1>1, UnitsOf
  <2>2. g.kind = "final" => \A i \in DOMAIN Units(g) : Units(g)[i].seq = g.last
    <3>. SUFFICES ASSUME g.kind = "final" PROVE \A i \in DOMAIN Units(g) : Units(g)[i].seq = g.last
      OBVIOUS
    <3>1. Units(g) \in Seq(UnitSet) /\ Len(Units(g)) = 1 /\ Units(g)[1] = UnitOf(g, g.last)
      BY <1>1, UnitsOf
    <3>2. DOMAIN Units(g) = 1 .. 1
      BY <3>1
    <3>. QED  BY <3>1, <3>2 DEF UnitOf
  <2>. QED  BY <1>9, <2>1, <2>2 DEF IsUnit
<1>11. \A s \in Streams : Receives(s, g) => \A i \in DOMAIN stream'[s].queue :
         \/ i \in DOMAIN stream[s].queue /\ stream'[s].queue[i] = stream[s].queue[i]
         \/ \E k \in DOMAIN Units(g) : i = Len(stream[s].queue) + k /\ stream'[s].queue[i] = Units(g)[k]
  <2>. SUFFICES ASSUME NEW s \in Streams, Receives(s, g), NEW i \in DOMAIN stream'[s].queue
                PROVE  \/ i \in DOMAIN stream[s].queue /\ stream'[s].queue[i] = stream[s].queue[i]
                       \/ \E k \in DOMAIN Units(g) : i = Len(stream[s].queue) + k /\ stream'[s].queue[i] = Units(g)[k]
    OBVIOUS
  <2>0. /\ stream'[s].queue \in Seq(UnitSet) /\ stream[s].queue \in Seq(UnitSet) /\ Units(g) \in Seq(UnitSet)
        /\ Len(stream'[s].queue) = Len(stream[s].queue) + Len(Units(g))
    BY <1>0, <1>1, <1>4, <1>6, Lengthened, UnitsOf DEF StreamSet
  <2>1. /\ Len(stream'[s].queue) = Len(stream[s].queue) + Len(Units(g))
        /\ Len(stream[s].queue) \in Nat /\ Len(Units(g)) \in Nat
        /\ i \in 1 .. Len(stream'[s].queue)
        /\ DOMAIN Units(g) = 1 .. Len(Units(g)) /\ DOMAIN stream[s].queue = 1 .. Len(stream[s].queue)
    BY <2>0
  <2>2. i \in DOMAIN stream[s].queue \/ i - Len(stream[s].queue) \in DOMAIN Units(g)
    BY SMTT(30), <2>1
  <2>3. CASE i \in DOMAIN stream[s].queue
    BY <1>0, <2>3, Lengthened
  <2>4. CASE i - Len(stream[s].queue) \in DOMAIN Units(g)
    <3>1. PICK k \in DOMAIN Units(g) : k = i - Len(stream[s].queue)
      BY <2>4
    <3>2. i = Len(stream[s].queue) + k
      BY <2>1, <3>1
    <3>. QED  BY <1>0, <3>2, Lengthened
  <2>. QED  BY <2>2, <2>3, <2>4
<1>12. Queues'
  <2>. SUFFICES ASSUME NEW s \in Streams
                PROVE  /\ Len(stream'[s].queue) <= Cap
                       /\ \A i \in DOMAIN stream'[s].queue : IsUnit(stream'[s].queue[i], Published')
    BY DEF Queues
  <2>1. CASE Receives(s, g)
    <3>1. Len(stream'[s].queue) <= Cap
      BY <1>0, <2>1, Lengthened
    <3>2. \A i \in DOMAIN stream[s].queue : IsUnit(stream[s].queue[i], Published')
      BY <1>9 DEF Queues, IsUnit
    <3>. QED  BY <1>10, <1>11, <2>1, <3>1, <3>2
  <2>2. CASE LosesOut(s, g)
    BY <1>5, <1>9, <2>2 DEF Queues, IsUnit
  <2>. QED  BY <1>3, <2>1, <2>2
<1>13. Over'
  <2>. SUFFICES ASSUME NEW s \in Streams
                PROVE  /\ stream'[s].phase # "mixed"
                       /\ stream'[s].phase \in {"off", "revoked"} =>
                            ~stream'[s].open /\ stream'[s].queue = <<>> /\ stream'[s].pending = <<>>
    BY DEF Over
  <2>1. stream'[s].phase \in {"off", "revoked"} => LosesOut(s, g)
    BY <1>3, <1>6 DEF Receives, Over
  <2>. QED  BY <1>5, <1>6, <2>1 DEF Over
<1>14. Paired'
  <2>. SUFFICES ASSUME NEW s \in Streams, NEW i \in DOMAIN stream'[s].queue
                PROVE  PairedIn(stream'[s].queue, i, stream'[s].cursor, stream'[s].pending)
    BY DEF Paired
  <2>1. CASE LosesOut(s, g)
    BY <1>5, <2>1 DEF Paired, PairedIn, UnitOf
  <2>2. CASE Receives(s, g)
    <3>1. PICK q \in Seq(UnitSet) : q = stream[s].queue
      BY <1>4 DEF StreamSet
    <3>2. /\ stream'[s].queue \in Seq(UnitSet)
          /\ Len(stream'[s].queue) = Len(q) + Len(Units(g))
          /\ \A k \in DOMAIN q : k \in DOMAIN stream'[s].queue /\ stream'[s].queue[k] = q[k]
      BY <1>0, <1>6, <2>2, <3>1, Lengthened DEF StreamSet
    <3>3. CASE i \in DOMAIN q
      <4>1. i # 1 => i - 1 \in DOMAIN q
        BY <3>1, <3>3
      <4>2. stream'[s].queue[i] = q[i] /\ (i # 1 => stream'[s].queue[i - 1] = q[i - 1])
        BY <3>2, <3>3, <4>1
      <4>3. i + 1 \in DOMAIN q => i + 1 \in DOMAIN stream'[s].queue /\ stream'[s].queue[i + 1] = q[i + 1]
        BY <3>2
      <4>4. q[i].group.kind = "terminal" =>
              /\ q[i].seq = q[i].group.first => i + 1 \in DOMAIN q /\ q[i + 1] = UnitOf(q[i].group, q[i].group.last)
              /\ q[i].seq = q[i].group.last /\ i # 1 => q[i - 1] = UnitOf(q[i].group, q[i].group.first)
              /\ q[i].seq = q[i].group.last /\ i = 1 =>
                   q[i].group.last <= stream[s].cursor \/ stream[s].pending = <<UnitOf(q[i].group, q[i].group.first)>>
        BY <3>1, <3>3 DEF Paired, PairedIn
      <4>5. stream'[s].cursor = stream[s].cursor /\ stream'[s].pending = stream[s].pending
        BY <1>6
      <4>. QED  BY <4>2, <4>3, <4>4, <4>5 DEF PairedIn
    <3>4. CASE i \notin DOMAIN q
      <4>1. PICK k \in DOMAIN Units(g) : i = Len(q) + k /\ stream'[s].queue[i] = Units(g)[k]
        BY <1>11, <2>2, <3>1, <3>4
      <4>2. stream'[s].queue[i].group = g
        BY <1>1, <4>1, UnitsOf
      <4>. SUFFICES ASSUME g.kind = "terminal"
                    PROVE  LET queue == stream'[s].queue
                           IN /\ queue[i].seq = g.first =>
                                   i + 1 \in DOMAIN queue /\ queue[i + 1] = UnitOf(g, g.last)
                              /\ queue[i].seq = g.last => i # 1 /\ queue[i - 1] = UnitOf(g, g.first)
        BY <4>2 DEF PairedIn
      <4>3. Len(Units(g)) = 2 /\ Units(g)[1] = UnitOf(g, g.first) /\ Units(g)[2] = UnitOf(g, g.last)
        BY <1>1, UnitsOf
      <4>4. DOMAIN Units(g) = 1 .. 2 /\ g.last = g.first + 1
        BY <1>1, <4>3, UnitsOf DEF Size
      <4>5. /\ stream'[s].queue[Len(q) + 1] = UnitOf(g, g.first)
            /\ stream'[s].queue[Len(q) + 2] = UnitOf(g, g.last)
        BY SMTT(30), <1>0, <2>2, <3>1, <4>3, <4>4, Lengthened
      <4>6. CASE k = 1
        <5>1. i = Len(q) + 1 /\ i + 1 = Len(q) + 2 /\ i + 1 \in DOMAIN stream'[s].queue
          BY <3>1, <3>2, <4>1, <4>3, <4>6
        <5>2. stream'[s].queue[i].seq = g.first
          BY <4>5, <5>1 DEF UnitOf
        <5>. QED  BY <1>1, <4>4, <4>5, <5>1, <5>2
      <4>7. CASE k = 2
        <5>1. i = Len(q) + 2 /\ i - 1 = Len(q) + 1 /\ i # 1
          BY <3>1, <4>1, <4>7
        <5>2. stream'[s].queue[i].seq = g.last
          BY <4>5, <5>1 DEF UnitOf
        <5>. QED  BY <1>1, <4>4, <4>5, <5>1, <5>2
      <4>. QED  BY <4>1, <4>4, <4>6, <4>7
    <3>. QED  BY <3>3, <3>4
  <2>. QED  BY <1>3, <2>1, <2>2
<1>15. Collected'
  <2>. SUFFICES ASSUME NEW s \in Streams, stream[s].pending # <<>>
                PROVE  stream'[s].queue # <<>> /\ stream'[s].queue[1] = stream[s].queue[1]
    BY <1>0, <1>6 DEF Collected
  <2>0. stream[s].queue # <<>> /\ stream[s].queue \in Seq(UnitSet)
    BY <1>4 DEF Collected, StreamSet
  <2>1. CASE LosesOut(s, g)
    BY <1>5, <2>0, <2>1
  <2>2. CASE Receives(s, g)
    <3>1. 1 \in DOMAIN stream[s].queue
      BY <2>0
    <3>2. 1 \in DOMAIN stream'[s].queue /\ stream'[s].queue[1] = stream[s].queue[1]
      BY <1>0, <2>2, <3>1, Lengthened
    <3>. QED  BY <3>2
  <2>. QED  BY <1>3, <2>1, <2>2
<1>16. Bounded'
  <2>1. \A n : Aligned(n)' <=> Aligned(n)
    BY <1>0 DEF Aligned
  <2>2. \A s \in Streams : shown'[s] \cup late'[s] \subseteq 1 .. End(log)
    <3>1. Seqs(g) \subseteq 1 .. End(log)
      BY <1>1 DEF Seqs
    <3>. QED  BY <1>0, <3>1 DEF Publishes, Bounded
  <2>. QED  BY <1>0, <1>6, <2>1, <2>2 DEF Bounded
<1>17. WholeShown' /\ Withheld'
  BY <1>0 DEF WholeShown, Withheld
<1>. QED  BY <1>7, <1>8, <1>12, <1>13, <1>14, <1>15, <1>16, <1>17

-----------------------------------------------------------------------------
(* A stream goes on with its replay, ends, is given events *)

\* Stream s goes to another phase, its queue, its collection and its cursor kept.
Moves(s) ==
  /\ s \in Streams
  /\ stream[s].phase \notin {"revoked", "mixed"}
  /\ stream' = [stream EXCEPT ![s] = stream'[s]]
  /\ stream'[s] \in StreamSet
  /\ stream'[s].queue = stream[s].queue
  /\ stream'[s].pending = stream[s].pending
  /\ stream'[s].cursor = stream[s].cursor
  /\ stream'[s].phase \in {"replay", "probed", "load", "deliver", "live"}
  /\ stream'[s].phase \in {"probed", "deliver"} => stream'[s].upto = End(log)
  /\ UNCHANGED <<log, writing, reserved, owed, shown>>
  /\ highest' \in Nat \cup {Unknown} /\ (highest' # Unknown => highest' <= End(log))
  /\ late' \in [Streams -> SUBSET Nat] /\ \A t \in Streams : late'[t] \subseteq late[t]
  /\ \A t \in Streams : late[t] \cap (1 .. stream[t].cursor) \subseteq late'[t]
  /\ \A t \in Streams : t # s => late'[t] = late[t]

\* It keeps the invariant.
LEMMA MoveKeeps ==
  ASSUME Base, NEW s, Moves(s)
  PROVE  Base'
<1>. USE DEF Base
<1>0. /\ log' = log /\ writing' = writing /\ reserved' = reserved /\ owed' = owed /\ shown' = shown
      /\ Groups' = Groups /\ End(log)' = End(log) /\ Published' = Published
  BY DEF Moves, Groups, Published
<1>1. /\ \A t \in Streams : t # s => stream'[t] = stream[t]
      /\ \A t \in Streams : stream'[t] \in StreamSet /\ stream[t] \in StreamSet
      /\ stream' \in [Streams -> StreamSet] /\ s \in Streams
  BY DEF Moves, Typed
<1>2. \A t \in Streams : /\ stream'[t].queue = stream[t].queue /\ stream'[t].pending = stream[t].pending
                         /\ stream'[t].cursor = stream[t].cursor
  BY <1>1 DEF Moves
<1>3. End(log) \in Nat /\ \A g \in Groups : g.first \in Nat /\ g.last \in Nat /\ g.last <= End(log)
  BY EndOfLog, Apart DEF Typed
<1>4. Typed' /\ Laid'
  BY <1>0, <1>1 DEF Typed, Laid, Moves
<1>5. Writers'
  BY <1>0 DEF Writers, Moves
<1>6. Queues' /\ Paired'
  BY <1>0, <1>2 DEF Queues, Paired, PairedIn
<1>7. Over'
  BY <1>1 DEF Over, Moves
<1>8. Collected'
  <2>. SUFFICES ASSUME NEW t \in Streams, stream[t].pending # <<>>, stream'[t].phase = "deliver"
                PROVE  stream[t].pending[1].group.last <= stream'[t].upto
    BY <1>0, <1>2 DEF Collected
  <2>1. stream[t].pending[1].group \in Groups
    BY DEF Collected
  <2>2. CASE t = s
    BY <1>3, <2>1, <2>2 DEF Moves
  <2>3. CASE t # s
    BY <1>1, <2>3 DEF Collected
  <2>. QED  BY <2>2, <2>3
<1>9. Bounded'
  <2>1. \A n : Aligned(n)' <=> Aligned(n)
    BY <1>0 DEF Aligned
  <2>2. Aligned(End(log))
    BY <1>3 DEF Aligned
  <2>3. \A t \in Streams : /\ stream'[t].phase \in {"deliver", "probed"} => stream'[t].upto <= End(log)
                           /\ stream'[t].phase = "deliver" =>
                                Aligned(stream'[t].upto) /\ stream'[t].cursor <= stream'[t].upto
    BY <1>1, <1>2, <1>3, <2>2 DEF Bounded, Moves
  <2>4. \A t \in Streams : shown'[t] \cup late'[t] \subseteq 1 .. End(log)
    BY <1>0 DEF Bounded, Moves
  <2>5. \A t \in Streams : stream'[t].cursor <= End(log) /\ Aligned(stream'[t].cursor)
    BY <1>2 DEF Bounded
  <2>. QED  BY <1>0, <2>1, <2>3, <2>4, <2>5 DEF Bounded, Aligned
<1>10. WholeShown' /\ Withheld'
  BY <1>0, <1>2 DEF WholeShown, Withheld
<1>. QED  BY <1>4, <1>5, <1>6, <1>7, <1>8, <1>9, <1>10

\* Streams end; with the runtime, all of them and whatever the store was about.
Ends(s) ==
  /\ stream'[s].phase \in {"off", "revoked"} /\ stream'[s].open = FALSE
  /\ stream'[s].queue = <<>> /\ stream'[s].pending = <<>>
  /\ stream'[s].cursor = stream[s].cursor
Closes ==
  /\ stream' \in [Streams -> StreamSet]
  /\ \A s \in Streams : stream'[s] = stream[s] \/ Ends(s)
  /\ reserved' \in {reserved, None} /\ writing' \in {writing, None}
  /\ owed' \subseteq owed /\ highest' \in {highest, Unknown}
  /\ UNCHANGED <<log, shown, late>>
  /\ UNCHANGED <<writing, reserved, highest>> \/ (highest' = Unknown /\ \A s \in Streams : Ends(s))

\* Closing keeps the invariant.
LEMMA CloseKeeps ==
  ASSUME Base, Closes
  PROVE  Base'
<1>. USE DEF Base
<1>0. /\ log' = log /\ shown' = shown /\ late' = late /\ Groups' = Groups /\ End(log)' = End(log)
  BY DEF Closes, Groups
<1>1. Groups \subseteq GroupSet /\ None \notin GroupSet
  BY EndOfLog, NoGroup DEF Typed
<1>2. Published \subseteq Published'
  BY <1>0, <1>1 DEF Published, Closes
<1>3. Typed' /\ Laid' /\ Writers'
  BY <1>0 DEF Typed, Laid, Writers, Closes
<1>4. Queues'
  <2>. SUFFICES ASSUME NEW s \in Streams
                PROVE  /\ Len(stream'[s].queue) <= Cap
                       /\ \A i \in DOMAIN stream'[s].queue : IsUnit(stream'[s].queue[i], Published')
    BY DEF Queues
  <2>1. CASE stream'[s] = stream[s]
    BY <1>2, <2>1 DEF Queues, IsUnit
  <2>2. CASE Ends(s)
    BY <2>2, BoundAssumption DEF Ends
  <2>. QED  BY <2>1, <2>2 DEF Closes
<1>5. Over' /\ Paired' /\ Collected'
  <2>1. Over'  BY <1>0 DEF Over, Closes, Ends
  <2>2. Paired'  BY <1>0 DEF Paired, PairedIn, Closes, Ends
  <2>3. Collected'  BY <1>0 DEF Collected, Closes, Ends
  <2>. QED  BY <2>1, <2>2, <2>3
<1>6. Bounded'
  <2>1. \A n : Aligned(n)' <=> Aligned(n)
    BY <1>0 DEF Aligned
  <2>. QED  BY <1>0, <2>1 DEF Bounded, Closes, Ends
<1>7. WholeShown' /\ Withheld'
  BY <1>0 DEF WholeShown, Withheld, Closes, Ends
<1>. QED  BY <1>3, <1>4, <1>5, <1>6, <1>7

\* The replay is delivered.
LEMMA Delivered ==
  ASSUME Base, NEW s \in Streams, Deliver(s)
  PROVE  /\ stream' = [stream EXCEPT ![s] = stream'[s]] /\ stream'[s] \in StreamSet
         /\ stream[s].phase = "deliver" /\ stream'[s].phase = "live"
         /\ stream'[s].queue = stream[s].queue /\ stream'[s].pending = <<>>
         /\ stream'[s].open = stream[s].open
         /\ stream'[s].cursor = stream[s].upto /\ ~Unsealed(s)
         /\ \E from \in {1, stream[s].cursor + 1} :
              shown' = [shown EXCEPT ![s] = @ \cup (from .. stream[s].upto)]
         /\ UNCHANGED <<store, late, counts>>
<1>. USE DEF Base
<1>1. stream[s] \in StreamSet /\ stream \in [Streams -> StreamSet]
  BY DEF Typed
<1>2. /\ stream' = [stream EXCEPT ![s] = afterReplay(s)]
      /\ stream[s].phase = "deliver" /\ ~Unsealed(s)
      /\ UNCHANGED <<store, late, counts>>
  BY DEF Deliver, Set
<1>3. afterReplay(s) = [stream[s] EXCEPT !.phase = "live", !.cursor = stream[s].upto, !.pending = <<>>]
  BY DEF afterReplay
<1>4. <<>> \in Seq(UnitSet)
  OBVIOUS
<1>5. /\ afterReplay(s) \in StreamSet /\ afterReplay(s).phase = "live"
      /\ afterReplay(s).queue = stream[s].queue /\ afterReplay(s).pending = <<>>
      /\ afterReplay(s).open = stream[s].open /\ afterReplay(s).cursor = stream[s].upto
  BY <1>1, <1>3, <1>4 DEF StreamSet, Phases
<1>6. PICK from \in {1, stream[s].cursor + 1} :
        shown' = [shown EXCEPT ![s] = @ \cup (from .. stream[s].upto)]
  BY DEF Deliver
<1>7. stream'[s] = afterReplay(s)
  BY <1>1, <1>2
<1>. QED  BY <1>2, <1>5, <1>6, <1>7

\* Delivering a replay keeps the invariant: it ends on a group, and what is staged is not in it.
LEMMA DeliverKeeps ==
  ASSUME Base, NEW s \in Streams, Deliver(s)
  PROVE  Base'
<1>. USE DEF Base
<1>1. /\ stream' = [stream EXCEPT ![s] = stream'[s]] /\ stream'[s] \in StreamSet
      /\ stream[s].phase = "deliver" /\ stream'[s].phase = "live"
      /\ stream'[s].queue = stream[s].queue /\ stream'[s].pending = <<>>
      /\ stream'[s].cursor = stream[s].upto /\ ~Unsealed(s)
      /\ UNCHANGED <<store, late, counts>>
  BY Delivered
<1>2. PICK from \in {1, stream[s].cursor + 1} :
        shown' = [shown EXCEPT ![s] = @ \cup (from .. stream[s].upto)]
  BY Delivered
<1>3. /\ log' = log /\ highest' = highest /\ writing' = writing /\ reserved' = reserved
      /\ owed' = owed /\ late' = late
      /\ Groups' = Groups /\ End(log)' = End(log) /\ Published' = Published
  BY <1>1 DEF store, Groups, Published
<1>4. /\ \A t \in Streams : t # s => stream'[t] = stream[t] /\ shown'[t] = shown[t]
      /\ shown'[s] = shown[s] \cup (from .. stream[s].upto)
      /\ stream' \in [Streams -> StreamSet]
      /\ stream[s].cursor \in Nat /\ stream[s].upto \in Nat
      /\ stream[s].queue \in Seq(UnitSet)
      /\ \A t \in Streams : stream'[t].queue = stream[t].queue
  BY <1>1, <1>2 DEF Typed, StreamSet
<1>5. /\ End(log) \in Nat
      /\ \A g \in Groups : g.first \in Nat /\ g.last \in Nat /\ g.last <= End(log) /\ 1 <= g.first /\ g.first <= g.last
  BY EndOfLog, Apart DEF Typed
<1>6. /\ stream[s].upto <= End(log) /\ Aligned(stream[s].upto) /\ stream[s].cursor <= stream[s].upto
      /\ Aligned(stream[s].cursor)
  BY <1>1 DEF Bounded
<1>7. from .. stream[s].upto \subseteq 1 .. End(log)
  BY <1>4, <1>5, <1>6
<1>8. Typed'
  <2>1. shown' \in [Streams -> SUBSET Nat]
    BY <1>2, <1>4, <1>7 DEF Typed
  <2>. QED  BY <1>3, <1>4, <2>1 DEF Typed
<1>9. Laid' /\ Writers' /\ Queues'
  BY <1>3, <1>4 DEF Laid, Writers, Queues
<1>10. Over'
  BY <1>1, <1>4 DEF Over
<1>11. Paired'
  <2>. SUFFICES ASSUME NEW i \in DOMAIN stream[s].queue, i = 1,
                       stream[s].queue[i].group.kind = "terminal",
                       stream[s].queue[i].seq = stream[s].queue[i].group.last
                PROVE  stream[s].queue[i].group.last <= stream[s].upto
    <3>1. \A t \in Streams : t # s => stream'[t] = stream[t]
      BY <1>4
    <3>2. \A t \in Streams : stream'[t].queue = stream[t].queue
      BY <1>4
    <3>. QED  BY <1>1, <3>1, <3>2 DEF Paired, PairedIn
  <2>1. PICK g \in Groups : g = stream[s].queue[i].group
    BY DEF Queues, IsUnit, Published
  <2>2. g.last <= stream[s].cursor \/ stream[s].pending = <<UnitOf(g, g.first)>>
    BY <2>1 DEF Paired, PairedIn
  <2>3. CASE g.last <= stream[s].cursor
    BY <1>4, <1>5, <1>6, <2>1, <2>3
  <2>4. CASE stream[s].pending = <<UnitOf(g, g.first)>>
    <3>1. stream[s].pending # <<>> /\ stream[s].pending[1].group = g
      BY <2>4 DEF UnitOf
    <3>. QED  BY <1>1, <2>1, <3>1 DEF Collected
  <2>. QED  BY <2>2, <2>3, <2>4
<1>12. Collected'
  BY <1>1, <1>3, <1>4 DEF Collected
<1>13. Bounded'
  <2>1. \A n : Aligned(n)' <=> Aligned(n)
    BY <1>3 DEF Aligned
  <2>2. \A t \in Streams : shown'[t] \cup late'[t] \subseteq 1 .. End(log)
    BY <1>3, <1>4, <1>7 DEF Bounded
  <2>. QED  BY <1>1, <1>3, <1>4, <1>6, <2>1, <2>2 DEF Bounded
<1>14. WholeShown'
  <2>1. \A g \in Groups : Whole(g.kind) =>
          Seqs(g) \subseteq from .. stream[s].upto \/ Seqs(g) \cap (from .. stream[s].upto) = {}
    <3>. SUFFICES ASSUME NEW g \in Groups, Whole(g.kind)
                  PROVE  \/ Seqs(g) \subseteq from .. stream[s].upto
                         \/ Seqs(g) \cap (from .. stream[s].upto) = {}
      OBVIOUS
    <3>1. PICK a \in Nat, b \in Nat : a = g.first /\ b = g.last
      BY <1>5
    <3>2. /\ Seqs(g) = a .. b /\ 1 <= a /\ a <= b
          /\ stream[s].cursor < a \/ b <= stream[s].cursor
          /\ stream[s].upto < a \/ b <= stream[s].upto
      BY <1>5, <1>6, <3>1 DEF Aligned, Seqs
    <3>3. CASE stream[s].upto < a
      BY <1>4, <3>2, <3>3
    <3>4. CASE b <= stream[s].upto /\ from <= a
      BY <1>4, <3>2, <3>4
    <3>5. CASE b <= stream[s].upto /\ ~(from <= a)
      <4>1. b < from
        BY <1>4, <3>2, <3>5
      <4>. QED  BY <1>4, <3>2, <4>1
    <3>. QED  BY <3>2, <3>3, <3>4, <3>5
  <2>. QED  BY <1>3, <1>4, <2>1 DEF WholeShown
<1>15. Withheld'
  <2>. SUFFICES ASSUME reserved # None
                PROVE  stream[s].upto < reserved.first
                       /\ Seqs(reserved) \cap (from .. stream[s].upto) = {}
    BY <1>1, <1>3, <1>4 DEF Withheld
  <2>1. reserved \in Groups /\ Whole(reserved.kind)
    BY EndOfLog DEF Writers, Typed, Whole
  <2>2. stream[s].cursor < reserved.first
    BY DEF Withheld
  <2>3. reserved.last \notin stream[s].cursor + 1 .. stream[s].upto
    BY <1>1 DEF Unsealed
  <2>4. stream[s].upto < reserved.first
    BY <1>4, <1>5, <1>6, <2>1, <2>2, <2>3 DEF Aligned
  <2>. QED  BY <1>4, <1>5, <2>1, <2>4 DEF Seqs
<1>. QED  BY <1>8, <1>9, <1>10, <1>11, <1>12, <1>13, <1>14, <1>15

\* The head of a queue is skipped, collected or shown.
Given(u) == IF Whole(u.group.kind) THEN Seqs(u.group) ELSE {u.seq}

Skips(s, u) ==
  /\ u.seq <= stream[s].cursor
  /\ stream[s].pending = <<>> /\ stream'[s].pending = <<>>
  /\ stream'[s].cursor = stream[s].cursor /\ shown' = shown
Collects(s, u) ==
  /\ u.group.kind = "terminal" /\ u.seq = u.group.first
  /\ stream[s].cursor < u.group.first
  /\ stream[s].pending = <<>> /\ stream'[s].pending = <<u>>
  /\ stream'[s].cursor = stream[s].cursor /\ shown' = shown
Shows(s, u) ==
  /\ stream[s].cursor < u.seq
  /\ \/ u.group.kind # "terminal" /\ stream[s].pending = <<>>
     \/ /\ u.group.kind = "terminal" /\ u.seq = u.group.last
        /\ stream[s].pending = <<UnitOf(u.group, u.group.first)>>
  /\ stream'[s].pending = <<>> /\ stream'[s].cursor = u.seq
  /\ shown' = [shown EXCEPT ![s] = @ \cup Given(u)]

\* Consume takes one of three courses; a bundle in pieces is not among them.
LEMMA Consumed ==
  ASSUME Base, NEW s \in Streams, Consume(s)
  PROVE  /\ stream' = [stream EXCEPT ![s] = stream'[s]] /\ stream'[s] \in StreamSet
         /\ stream[s].phase = "live" /\ stream'[s].phase = "live"
         /\ stream'[s].open = stream[s].open
         /\ stream[s].queue # <<>> /\ stream'[s].queue = Tail(stream[s].queue)
         /\ UNCHANGED <<store, late, counts>>
         /\ LET u == stream[s].queue[1] IN Skips(s, u) \/ Collects(s, u) \/ Shows(s, u)
<1>. USE DEF Base
<1>1. PICK T : T = UnitSet
  OBVIOUS
<1>2. /\ stream[s] \in StreamSet /\ stream \in [Streams -> StreamSet]
      /\ stream[s].queue \in Seq(T) /\ stream[s].pending \in Seq(T) /\ stream[s].cursor \in Nat
  BY <1>1 DEF Typed, StreamSet
<1>3. stream[s].phase = "live" /\ stream[s].queue # <<>> /\ UNCHANGED <<store, late, counts>>
  BY DEF Consume
<1>4. PICK u \in T : u = stream[s].queue[1]
  BY <1>2, <1>3
<1>5. /\ Head(stream[s].queue) = u /\ Tail(stream[s].queue) \in Seq(T) /\ 1 \in DOMAIN stream[s].queue
  BY <1>2, <1>3, <1>4
<1>6. PICK rest : rest = [stream[s] EXCEPT !.queue = Tail(@)]
  OBVIOUS
<1>7. /\ rest \in StreamSet /\ rest.phase = "live" /\ rest.open = stream[s].open
      /\ rest.queue = Tail(stream[s].queue) /\ rest.pending = stream[s].pending
      /\ rest.cursor = stream[s].cursor
  BY <1>1, <1>2, <1>3, <1>5, <1>6 DEF StreamSet
<1>8. PICK got : got = IF u.group.kind \in {"terminal", "final"} THEN Seqs(u.group) ELSE {u.seq}
  OBVIOUS
<1>9. got = Given(u)
  BY <1>8 DEF Given, Whole
<1>10. PICK g \in Groups : g = u.group
  BY <1>4, <1>5 DEF Queues, IsUnit, Published
<1>11. /\ g.first \in Nat /\ g.last \in Nat /\ g.last = g.first + Size(g.kind) - 1 /\ 1 <= g.first
       /\ u.seq \in Seqs(g) /\ u.seq \in Nat
  <2>1. u.seq \in Seqs(g)
    BY <1>4, <1>5, <1>10 DEF Queues, IsUnit
  <2>. QED  BY <1>1, <1>10, <2>1, Apart DEF UnitSet
<1>12. stream[s].pending # <<>> =>
         g.kind = "terminal" /\ stream[s].pending = <<UnitOf(g, g.first)>> /\ u = UnitOf(g, g.last)
         /\ stream[s].cursor < g.first
  <2>. SUFFICES ASSUME stream[s].pending # <<>>
                PROVE  g.kind = "terminal" /\ stream[s].pending = <<UnitOf(g, g.first)>>
                       /\ u = UnitOf(g, g.last) /\ stream[s].cursor < g.first
    OBVIOUS
  <2>1. PICK h : h = stream[s].pending[1].group
    OBVIOUS
  <2>2. h.kind = "terminal" /\ stream[s].pending = <<UnitOf(h, h.first)>> /\ u = UnitOf(h, h.last)
        /\ stream[s].cursor < h.first
    BY <1>4, <2>1 DEF Collected
  <2>3. h = g
    BY <1>10, <2>2 DEF UnitOf
  <2>. QED  BY <2>2, <2>3
<1>13. PICK w \in T : stream[s].pending = <<>> => <<u>> = <<w>> /\ u = w
  BY <1>4
<1>14. CASE Skip(s, u)
  <2>1. stream' = [stream EXCEPT ![s] = rest] /\ shown' = shown
    BY <1>5, <1>6, <1>14 DEF Consume, Set
  <2>2. u.seq <= stream[s].cursor
    BY <1>14 DEF Skip
  <2>3. stream[s].pending = <<>>
    BY <1>2, <1>11, <1>12, <2>2 DEF UnitOf, Seqs
  <2>. QED  BY <1>2, <1>3, <1>4, <1>7, <2>1, <2>2, <2>3 DEF Skips
<1>15. CASE ~Skip(s, u)
  <2>1. stream[s].cursor < u.seq
    BY <1>2, <1>11, <1>15 DEF Skip
  <2>2. ~Mixes(s, u)
    BY <1>10, <1>12 DEF Mixes, UnitOf
  <2>3. Completes(s) <=> stream[s].pending # <<>>
    <3>1. PICK x : x = UnitOf(g, g.first)
      OBVIOUS
    <3>2. stream[s].pending # <<>> => stream[s].pending = <<x>>
      BY <1>12, <3>1
    <3>3. stream[s].pending = <<>> \/ stream[s].pending = <<x>>
      BY <3>2
    <3>4. Size("terminal") = 2
      BY DEF Size
    <3>5. CASE stream[s].pending = <<>>
      <4>1. Len(stream[s].pending) = 0
        BY <3>5
      <4>. QED  BY <3>4, <3>5, <4>1 DEF Completes
    <3>6. CASE stream[s].pending = <<x>>
      <4>1. Len(stream[s].pending) = 1 /\ stream[s].pending # <<>>
        BY <3>6
      <4>. QED  BY <3>4, <4>1 DEF Completes
    <3>. QED  BY <3>3, <3>5, <3>6
  <2>4. CASE g.kind = "terminal" /\ stream[s].pending = <<>>
    <3>1. Set(s, [rest EXCEPT !.pending = Append(@, u)]) /\ shown' = shown
      BY <1>5, <1>6, <1>10, <1>15, <2>2, <2>3, <2>4 DEF Consume
    <3>0. <<u>> \in Seq(T)
      BY <1>4
    <3>2. PICK p \in Seq(T) : p = <<u>>
      BY <3>0
    <3>3. Append(rest.pending, u) = p
      BY <1>7, <2>4, <3>2
    <3>4. PICK r : r = [rest EXCEPT !.pending = Append(@, u)]
      OBVIOUS
    <3>5. /\ r \in StreamSet /\ r.phase = "live" /\ r.open = rest.open /\ r.queue = rest.queue
          /\ r.pending = p /\ r.cursor = rest.cursor
      BY <1>1, <1>7, <3>3, <3>4 DEF StreamSet
    <3>6. stream' = [stream EXCEPT ![s] = r]
      BY <3>1, <3>4 DEF Set
    <3>7. u.seq # g.last
      <4>. SUFFICES ASSUME u.seq = g.last PROVE FALSE
        OBVIOUS
      <4>1. g.last <= stream[s].cursor \/ stream[s].pending = <<UnitOf(g, g.first)>>
        BY <1>4, <1>5, <1>10, <2>4 DEF Paired, PairedIn
      <4>2. stream[s].pending # <<UnitOf(g, g.first)>>
        BY <2>4
      <4>. QED  BY <1>2, <1>11, <2>1, <4>1, <4>2
    <3>8. u.seq = g.first
      BY <1>11, <2>4, <3>7 DEF Seqs, Size
    <3>. QED  BY <1>2, <1>3, <1>4, <1>7, <1>10, <2>1, <2>4, <3>1, <3>2, <3>5, <3>6, <3>8 DEF Collects
  <2>5. CASE ~(g.kind = "terminal" /\ stream[s].pending = <<>>)
    <3>1. /\ Set(s, [rest EXCEPT !.cursor = u.seq, !.pending = <<>>])
          /\ shown' = [shown EXCEPT ![s] = @ \cup got]
      BY <1>5, <1>6, <1>8, <1>10, <1>15, <2>2, <2>3, <2>5 DEF Consume
    <3>2. PICK p \in Seq(T) : p = <<>>
      BY EmptySeq
    <3>4. PICK r : r = [rest EXCEPT !.cursor = u.seq, !.pending = <<>>]
      OBVIOUS
    <3>5. /\ r \in StreamSet /\ r.phase = "live" /\ r.open = rest.open /\ r.queue = rest.queue
          /\ r.pending = <<>> /\ r.cursor = u.seq
      BY <1>1, <1>7, <1>11, <3>2, <3>4 DEF StreamSet
    <3>6. stream' = [stream EXCEPT ![s] = r]
      BY <3>1, <3>4 DEF Set
    <3>7. \/ g.kind # "terminal" /\ stream[s].pending = <<>>
          \/ g.kind = "terminal" /\ u.seq = g.last /\ stream[s].pending = <<UnitOf(g, g.first)>>
      BY <1>12, <2>5 DEF UnitOf
    <3>. QED  BY <1>2, <1>3, <1>4, <1>7, <1>9, <1>10, <2>1, <3>1, <3>5, <3>6, <3>7 DEF Shows
  <2>. QED  BY <2>4, <2>5
<1>. QED  BY <1>14, <1>15

\* Taking a unit keeps the invariant.
LEMMA ConsumeKeeps ==
  ASSUME Base, NEW s \in Streams, Consume(s)
  PROVE  Base'
<1>. USE DEF Base
<1>0. PICK u : u = stream[s].queue[1]
  OBVIOUS
<1>1. /\ stream' = [stream EXCEPT ![s] = stream'[s]] /\ stream'[s] \in StreamSet
      /\ stream[s].phase = "live" /\ stream'[s].phase = "live"
      /\ stream[s].queue # <<>> /\ stream'[s].queue = Tail(stream[s].queue)
      /\ UNCHANGED <<store, late, counts>>
  BY Consumed
<1>2. Skips(s, u) \/ Collects(s, u) \/ Shows(s, u)
  BY <1>0, Consumed
<1>3. /\ log' = log /\ highest' = highest /\ writing' = writing /\ reserved' = reserved
      /\ owed' = owed /\ late' = late
      /\ Groups' = Groups /\ End(log)' = End(log) /\ Published' = Published
  BY <1>1 DEF store, Groups, Published
<1>4. /\ \A t \in Streams : t # s => stream'[t] = stream[t]
      /\ stream' \in [Streams -> StreamSet]
      /\ stream[s].cursor \in Nat
  BY <1>1 DEF Typed, StreamSet
<1>5. PICK q \in Seq(UnitSet) : q = stream[s].queue
  BY DEF Typed, StreamSet
<1>6. /\ Len(q) \in Nat /\ 1 \in DOMAIN q /\ u = q[1] /\ u \in UnitSet
      /\ Tail(q) \in Seq(UnitSet) /\ Len(Tail(q)) = Len(q) - 1 /\ DOMAIN Tail(q) = 1 .. Len(q) - 1
      /\ \A i \in DOMAIN Tail(q) : i + 1 \in DOMAIN q /\ Tail(q)[i] = q[i + 1]
      /\ \A i \in DOMAIN q : i # 1 => i - 1 \in DOMAIN Tail(q) /\ i \in Nat
  BY <1>0, <1>1, <1>5
<1>7. stream'[s].queue = Tail(q)
  BY <1>1, <1>5
<1>8. PICK g \in Published : g = u.group
  BY <1>0, <1>5, <1>6 DEF Queues, IsUnit
<1>9. /\ g \in Groups /\ g # reserved /\ u.seq \in Seqs(g) /\ u.seq \in Nat
      /\ g.kind = "final" => u.seq = g.last
      /\ u = UnitOf(g, u.seq)
  <2>1. g \in Groups /\ g # reserved /\ u.seq \in Seqs(g) /\ (g.kind = "final" => u.seq = g.last)
    BY <1>0, <1>5, <1>6, <1>8 DEF Queues, IsUnit, Published
  <2>. QED  BY <1>6, <1>8, <2>1 DEF UnitSet, UnitOf
<1>10. /\ End(log) \in Nat /\ Groups \subseteq GroupSet
       /\ \A h \in Groups : /\ h.first \in Nat /\ h.last \in Nat /\ 1 <= h.first
                            /\ h.last = h.first + Size(h.kind) - 1
                            /\ h.first <= h.last /\ h.last <= End(log)
       /\ \A h, k \in Groups : h = k \/ h.last < k.first \/ k.last < h.first
  BY EndOfLog, Apart DEF Typed
<1>11. g.first <= u.seq /\ u.seq <= g.last
  BY <1>9, <1>10 DEF Seqs
<1>12. Given(u) \subseteq Seqs(g) /\ (Whole(g.kind) => Given(u) = Seqs(g)) /\ Seqs(g) \subseteq 1 .. End(log)
  <2>1. Seqs(g) \subseteq 1 .. End(log)
    BY <1>9, <1>10 DEF Seqs
  <2>. QED  BY <1>8, <1>9, <2>1 DEF Given
<1>13. /\ shown' \in [Streams -> SUBSET Nat]
       /\ \A t \in Streams : t # s => shown'[t] = shown[t]
       /\ shown'[s] # shown[s] => Shows(s, u) /\ shown'[s] = shown[s] \cup Given(u)
  <2>1. shown \in [Streams -> SUBSET Nat] /\ Given(u) \subseteq Nat
    BY <1>10, <1>12 DEF Typed
  <2>2. Skips(s, u) \/ Collects(s, u) => shown' = shown
    BY DEF Skips, Collects
  <2>3. Shows(s, u) => shown' = [shown EXCEPT ![s] = @ \cup Given(u)]
    BY DEF Shows
  <2>4. CASE shown' = shown
    BY <2>1, <2>4
  <2>5. CASE Shows(s, u)
    BY <2>1, <2>3, <2>5
  <2>. QED  BY <1>2, <2>2, <2>4, <2>5
<1>14. stream'[s].cursor # stream[s].cursor => Shows(s, u) /\ stream'[s].cursor = u.seq
  <2>1. Skips(s, u) \/ Collects(s, u) => stream'[s].cursor = stream[s].cursor
    BY DEF Skips, Collects
  <2>2. Shows(s, u) => stream'[s].cursor = u.seq
    BY DEF Shows
  <2>. QED  BY <1>2, <2>1, <2>2
<1>15. Typed' /\ Laid' /\ Writers'
  BY <1>3, <1>4, <1>13 DEF Typed, Laid, Writers
<1>16. Queues'
  <2>. SUFFICES /\ Len(stream'[s].queue) <= Cap
                /\ \A i \in DOMAIN stream'[s].queue : IsUnit(stream'[s].queue[i], Published)
    BY <1>3, <1>4 DEF Queues
  <2>1. Len(q) <= Cap /\ Cap \in Nat /\ \A i \in DOMAIN q : IsUnit(q[i], Published)
    BY <1>5, BoundAssumption DEF Queues
  <2>. QED  BY <1>6, <1>7, <2>1
<1>17. Over'
  BY <1>1, <1>4 DEF Over
<1>18. Paired'
  <2>. SUFFICES ASSUME NEW i \in DOMAIN Tail(q)
                PROVE  PairedIn(Tail(q), i, stream'[s].cursor, stream'[s].pending)
    <3>1. \A t \in Streams : t # s => stream'[t] = stream[t]
      BY <1>4
    <3>. QED  BY <1>7, <3>1 DEF Paired
  <2>1. i + 1 \in DOMAIN q /\ Tail(q)[i] = q[i + 1] /\ i \in Nat /\ i + 1 # 1 /\ 1 <= i
    BY <1>6
  <2>2. PICK h \in Groups : h = q[i + 1].group
    BY <1>5, <2>1 DEF Queues, IsUnit, Published
  <2>. SUFFICES ASSUME h.kind = "terminal"
                PROVE  /\ q[i + 1].seq = h.first =>
                            i + 1 \in DOMAIN Tail(q) /\ Tail(q)[i + 1] = UnitOf(h, h.last)
                       /\ q[i + 1].seq = h.last /\ i # 1 => Tail(q)[i - 1] = UnitOf(h, h.first)
                       /\ q[i + 1].seq = h.last /\ i = 1 =>
                            h.last <= stream'[s].cursor \/ stream'[s].pending = <<UnitOf(h, h.first)>>
    BY <2>1, <2>2 DEF PairedIn
  <2>3. PICK j \in DOMAIN q : j = i + 1
    BY <2>1
  <2>4. /\ q[j].seq = h.first => j + 1 \in DOMAIN q /\ q[j + 1] = UnitOf(h, h.last)
        /\ q[j].seq = h.last /\ j # 1 => q[j - 1] = UnitOf(h, h.first)
    BY <1>5, <2>2, <2>3 DEF Paired, PairedIn
  <2>5. q[i + 1].seq = h.first => i + 1 \in DOMAIN Tail(q) /\ Tail(q)[i + 1] = UnitOf(h, h.last)
    <3>. SUFFICES ASSUME q[i + 1].seq = h.first
                  PROVE  i + 1 \in DOMAIN Tail(q) /\ Tail(q)[i + 1] = UnitOf(h, h.last)
      OBVIOUS
    <3>1. j + 1 \in DOMAIN q /\ q[j + 1] = UnitOf(h, h.last)
      BY <2>3, <2>4
    <3>2. j \in DOMAIN Tail(q)
      BY <1>5, <1>6, <2>1, <2>3, <3>1
    <3>. QED  BY <1>6, <2>3, <3>1, <3>2
  <2>6. q[i + 1].seq = h.last => q[i] = UnitOf(h, h.first)
    <3>1. j - 1 = i /\ j # 1
      BY <2>1, <2>3
    <3>. QED  BY <2>3, <2>4, <3>1
  <2>7. q[i + 1].seq = h.last /\ i # 1 => Tail(q)[i - 1] = UnitOf(h, h.first)
    <3>1. i # 1 => i - 1 \in DOMAIN Tail(q) /\ i - 1 + 1 = i
      BY <1>6, <2>1
    <3>2. i # 1 => Tail(q)[i - 1] = q[i]
      BY <1>6, <3>1
    <3>. QED  BY <2>6, <3>2
  <2>8. q[i + 1].seq = h.last /\ i = 1 =>
          h.last <= stream'[s].cursor \/ stream'[s].pending = <<UnitOf(h, h.first)>>
    <3>. SUFFICES ASSUME q[i + 1].seq = h.last, i = 1
                  PROVE  h.last <= stream'[s].cursor \/ stream'[s].pending = <<UnitOf(h, h.first)>>
      OBVIOUS
    <3>1. u = UnitOf(h, h.first)
      BY <1>6, <2>6
    <3>2. h = g /\ u.seq = h.first /\ h.last = h.first + 1
      BY <1>8, <1>10, <2>2, <3>1 DEF UnitOf, Size
    <3>3. CASE Skips(s, u)
      <4>1. Aligned(stream[s].cursor)
        BY DEF Bounded
      <4>. QED  BY <1>4, <1>10, <2>2, <3>2, <3>3, <4>1 DEF Skips, Aligned, Whole
    <3>4. CASE Collects(s, u)
      BY <3>1, <3>4 DEF Collects
    <3>5. CASE Shows(s, u)
      BY <1>8, <1>10, <2>2, <3>2, <3>5 DEF Shows
    <3>. QED  BY <1>2, <3>3, <3>4, <3>5
  <2>. QED  BY <2>5, <2>7, <2>8
<1>19. Collected'
  <2>1. CASE Skips(s, u) \/ Shows(s, u)
    <3>1. stream'[s].pending = <<>>
      BY <2>1 DEF Skips, Shows
    <3>. QED  BY <1>3, <1>4, <3>1 DEF Collected
  <2>2. CASE Collects(s, u)
    <3>1. /\ g.kind = "terminal" /\ u = UnitOf(g, g.first) /\ stream'[s].pending = <<u>>
          /\ stream'[s].cursor < g.first /\ u.seq = g.first
      BY <1>8, <1>9, <2>2 DEF Collects
    <3>2. 1 + 1 \in DOMAIN q /\ q[1 + 1] = UnitOf(g, g.last)
      BY <1>5, <1>6, <1>8, <3>1 DEF Paired, PairedIn
    <3>3. 1 \in DOMAIN Tail(q) /\ Tail(q)[1] = UnitOf(g, g.last)
      <4>1. 1 + 1 <= Len(q)
        BY <1>5, <3>2
      <4>2. 1 \in DOMAIN Tail(q)
        BY <1>6, <4>1
      <4>. QED  BY <1>6, <3>2, <4>2
    <3>4. stream'[s].queue # <<>> /\ stream'[s].queue[1] = UnitOf(g, g.last)
      <4>1. Tail(q) # <<>>
        BY <1>6, <3>3
      <4>. QED  BY <1>7, <3>3, <4>1
    <3>5. stream'[s].pending[1].group = g
      BY <1>8, <3>1
    <3>6. stream'[s].pending = <<UnitOf(g, g.first)>>
      BY <3>1
    <3>7. g \in Groups' /\ stream'[s].cursor < g.first
      BY <1>3, <1>9, <3>1
    <3>8. stream'[s].phase = "deliver" => g.last <= stream'[s].upto
      BY <1>1, <3>1
    <3>9. ASSUME NEW t \in Streams, t # s, stream'[t].pending # <<>>
          PROVE  LET h == stream'[t].pending[1].group
                 IN /\ h \in Groups /\ h.kind = "terminal"
                    /\ stream'[t].pending = <<UnitOf(h, h.first)>>
                    /\ stream'[t].cursor < h.first
                    /\ stream'[t].queue # <<>> /\ stream'[t].queue[1] = UnitOf(h, h.last)
                    /\ stream'[t].phase = "deliver" => h.last <= stream'[t].upto
      BY <1>4, <3>9 DEF Collected
    <3>. QED  BY <1>3, <3>1, <3>4, <3>5, <3>6, <3>7, <3>8, <3>9 DEF Collected
  <2>. QED  BY <1>2, <2>1, <2>2
<1>20. Aligned(u.seq) \/ ~Shows(s, u)
  <2>. SUFFICES ASSUME Shows(s, u), NEW h \in Groups, Whole(h.kind)
                PROVE  u.seq < h.first \/ h.last <= u.seq
    BY DEF Aligned
  <2>1. CASE h = g
    <3>1. u.seq = g.last
      BY <1>8, <1>9, <2>1 DEF Shows, Whole
    <3>. QED  BY <1>10, <2>1, <3>1
  <2>2. CASE h # g
    BY <1>9, <1>10, <1>11, <2>2
  <2>. QED  BY <2>1, <2>2
<1>21. Bounded'
  <2>1. \A n : Aligned(n)' <=> Aligned(n)
    BY <1>3 DEF Aligned
  <2>2. \A t \in Streams : shown'[t] \cup late'[t] \subseteq 1 .. End(log)
    BY <1>3, <1>12, <1>13 DEF Bounded
  <2>3. stream'[s].cursor <= End(log) /\ Aligned(stream'[s].cursor)
    BY <1>9, <1>10, <1>11, <1>14, <1>20 DEF Bounded
  <2>4. \A t \in Streams : stream'[t].cursor <= End(log)' /\ Aligned(stream'[t].cursor)
    BY <1>3, <1>4, <2>3 DEF Bounded
  <2>5. \A t \in Streams :
          /\ stream'[t].phase \in {"deliver", "probed"} => stream'[t].upto <= End(log)'
          /\ stream'[t].phase = "deliver" => Aligned(stream'[t].upto) /\ stream'[t].cursor <= stream'[t].upto
    BY <1>1, <1>3, <1>4 DEF Bounded
  <2>. QED  BY <1>3, <2>1, <2>2, <2>4, <2>5 DEF Bounded, Aligned
<1>22. WholeShown'
  <2>. SUFFICES ASSUME NEW h \in Groups, Whole(h.kind), shown'[s] = shown[s] \cup Given(u)
                PROVE  Seqs(h) \subseteq shown'[s] \/ Seqs(h) \cap shown'[s] = {}
    BY <1>3, <1>13 DEF WholeShown
  <2>1. Seqs(h) \subseteq shown[s] \/ Seqs(h) \cap shown[s] = {}
    BY DEF WholeShown
  <2>2. CASE h = g
    BY <1>12, <2>2
  <2>3. CASE h # g
    <3>1. Seqs(h) \cap Seqs(g) = {}
      BY <1>9, <1>10, <2>3 DEF Seqs
    <3>. QED  BY <1>12, <2>1, <3>1
  <2>. QED  BY <2>2, <2>3
<1>23. Withheld'
  <2>. SUFFICES ASSUME reserved # None, Shows(s, u)
                PROVE  u.seq < reserved.first /\ Seqs(reserved) \cap Given(u) = {}
    BY <1>3, <1>4, <1>13, <1>14 DEF Withheld
  <2>1. reserved \in Groups /\ End(log) = reserved.last
    BY EndOfLog DEF Writers, Typed
  <2>2. g.last < reserved.first
    BY <1>9, <1>10, <2>1
  <2>3. Seqs(reserved) \cap Seqs(g) = {}
    BY <1>9, <1>10, <2>1, <2>2 DEF Seqs
  <2>. QED  BY <1>9, <1>10, <1>11, <1>12, <2>1, <2>2, <2>3
<1>. QED  BY <1>15, <1>16, <1>17, <1>18, <1>19, <1>21, <1>22, <1>23

-----------------------------------------------------------------------------
(* The steps *)

\* Every action of Next is one of the steps above.
LEMMA RecordGrows ==
  ASSUME Base, NEW kind \in Kinds, Record(kind)
  PROVE  Grows(kind)
<1>1. late \in [Streams -> SUBSET Nat] /\ End(log) \in Nat
  BY EndOfLog DEF Base, Typed
<1>2. NextGroup(kind) \in GroupSet /\ None \notin GroupSet
  BY NoGroup, NextGroupOk DEF Base
<1>. QED  BY <1>1, <1>2 DEF Record, MayAppend, Free, Grows, Cached

\* Its error may leave the frontier anywhere.
LEMMA CommittedErrorGrows ==
  ASSUME Base, NEW fault \in Faults, CommittedError(fault)
  PROVE  \E k \in {"event", "bundle"} :
           k = (IF fault = "single" THEN "event" ELSE "bundle") /\ Grows(k)
<1>1. PICK k : k = IF fault = "single" THEN "event" ELSE "bundle"
  OBVIOUS
<1>2. k \in Kinds /\ k \in {"event", "bundle"}
  BY <1>1 DEF Kinds
<1>3. NextGroup(k) \in GroupSet /\ None \notin GroupSet /\ Seqs(NextGroup(k)) \subseteq Nat
  BY <1>2, NoGroup, NextGroupOk DEF Base, Seqs, GroupSet
<1>4. MayAppend(k) /\ log' = Append(log, NextGroup(k)) /\ Missed(Subscribed, NextGroup(k))
      /\ UNCHANGED <<writing, reserved, owed, clients>>
  BY <1>1 DEF CommittedError
<1>5. highest' \in {Unknown, End(log), End(log'), highest}
  <2>1. fault \in {"committed", "unread", "single"}
    BY FaultAssumption DEF CommittedError
  <2>2. highest' = frontierAfter(fault)
    BY DEF CommittedError
  <2>3. CASE fault = "committed"
    BY <2>2, <2>3 DEF frontierAfter
  <2>4. CASE fault = "unread"
    BY <2>2, <2>4 DEF frontierAfter
  <2>5. CASE fault = "single"
    BY <2>2, <2>5 DEF frontierAfter, Cached
  <2>. QED  BY <2>1, <2>3, <2>4, <2>5
<1>6. late \in [Streams -> SUBSET Nat]
  BY DEF Base, Typed
<1>7. late' \in [Streams -> SUBSET Nat]
      /\ \A s \in Streams : late'[s] = late[s] \/ late'[s] = late[s] \cup Seqs(NextGroup(k))
  BY <1>3, <1>4, <1>6 DEF Missed
<1>8. Grows(k)
  BY <1>2, <1>4, <1>5, <1>7 DEF Grows, MayAppend, Free
<1>. QED  BY <1>1, <1>2, <1>8

\* The other two appends.
LEMMA UnsettledTerminalGrows ==
  ASSUME Base, UnsettledTerminal
  PROVE  Grows("terminal")
<1>1. "terminal" \in Kinds
  BY DEF Kinds
<1>2. NextGroup("terminal").kind = "terminal" /\ Seqs(NextGroup("terminal")) \subseteq Nat
  BY <1>1, NextGroupOk DEF Base, Seqs, GroupSet
<1>3. late' \in [Streams -> SUBSET Nat]
      /\ \A s \in Streams : late'[s] = late[s] \/ late'[s] = late[s] \cup Seqs(NextGroup("terminal"))
  BY <1>2 DEF UnsettledTerminal, Missed, Base, Typed
<1>. QED  BY <1>1, <1>2, <1>3 DEF UnsettledTerminal, Grows, MayAppend, Free

LEMMA StageFinalGrows ==
  ASSUME Base, StageFinal
  PROVE  Grows("final")
<1>1. "final" \in Kinds
  BY DEF Kinds
<1>2. late \in [Streams -> SUBSET Nat]
  BY DEF Base, Typed
<1>. QED  BY <1>1, <1>2 DEF StageFinal, Grows, MayAppend, Free

\* The three publications.
LEMMA PublishRecordedPublishes ==
  ASSUME Base, PublishRecorded
  PROVE  Publishes(writing)
<1>1. writing # None /\ writing' = None /\ highest' = writing.last /\ Publish(writing)
      /\ UNCHANGED <<log, reserved, owed, shown, counts>>
  BY DEF PublishRecorded, Free
<1>2. reserved = None /\ writing \in Groups /\ End(log) = writing.last /\ Seqs(writing) \subseteq Nat
  BY <1>1, EndOfLog DEF Base, Writers, Typed, Seqs, GroupSet
<1>3. late \in [Streams -> SUBSET Nat] /\ \A s \in Streams : stream[s].open => s \in Subscribed
  BY DEF Base, Typed, Subscribed
<1>4. Missed(IF writing.kind = "event" THEN {s \in Subscribed : ~fits(s, writing)} ELSE {}, writing)
  BY DEF PublishRecorded
<1>5. /\ late' \in [Streams -> SUBSET Nat]
      /\ \A s \in Streams : late'[s] = late[s] \/ late'[s] = late[s] \cup Seqs(writing)
      /\ writing.kind = "event" =>
           \A s \in Streams : stream[s].open /\ ~fits(s, writing) => late'[s] = late[s] \cup Seqs(writing)
  BY <1>2, <1>3, <1>4 DEF Missed
<1>. QED  BY <1>1, <1>2, <1>5 DEF Publishes

LEMMA RetryTerminalPublishes ==
  ASSUME Base, NEW g \in owed, RetryTerminal(g)
  PROVE  Publishes(g)
<1>1. g \in Groups /\ g.kind = "terminal" /\ late \in [Streams -> SUBSET Nat]
  BY DEF Base, Writers, Typed
<1>. QED  BY <1>1 DEF RetryTerminal, Publishes, Free

LEMMA ActivateAndPublishPublishes ==
  ASSUME Base, ActivateAndPublish
  PROVE  Publishes(reserved)
<1>1. reserved \in Groups /\ reserved.kind = "final" /\ late \in [Streams -> SUBSET Nat]
      /\ End(log) = reserved.last
  BY EndOfLog DEF Base, Writers, Typed, ActivateAndPublish
<1>. QED  BY <1>1 DEF ActivateAndPublish, Publishes, Free

\* A connection, and the steps of a replay up to its delivery, move a stream.
LEMMA ConnectMoves ==
  ASSUME Base, NEW s \in Streams, Connect(s)
  PROVE  Moves(s)
<1>1. stream \in [Streams -> StreamSet] /\ late \in [Streams -> SUBSET Nat] /\ stream[s] \in StreamSet
      /\ highest \in Nat \cup {Unknown} /\ (highest # Unknown => highest <= End(log))
  BY DEF Base, Typed, Writers
<1>2. stream' = [stream EXCEPT ![s] = [stream[s] EXCEPT !.phase = "replay", !.open = TRUE]]
      /\ late' = [late EXCEPT ![s] = @ \cap (1 .. stream[s].cursor)]
  BY DEF Connect, Set
<1>3. /\ stream'[s] \in StreamSet /\ stream'[s].queue = stream[s].queue
      /\ stream'[s].pending = stream[s].pending /\ stream'[s].cursor = stream[s].cursor
      /\ stream'[s].phase = "replay" /\ stream' = [stream EXCEPT ![s] = stream'[s]]
  BY <1>1, <1>2 DEF StreamSet, Phases
<1>4. late' \in [Streams -> SUBSET Nat] /\ (\A t \in Streams : late'[t] \subseteq late[t])
      /\ (\A t \in Streams : late[t] \cap (1 .. stream[t].cursor) \subseteq late'[t])
      /\ (\A t \in Streams : t # s => late'[t] = late[t])
  BY <1>1, <1>2
<1>. QED  BY <1>1, <1>3, <1>4 DEF Connect, Moves, store

\* A replay compares, reads or loads.
LEMMA ReplayMoves ==
  ASSUME Base, NEW s \in Streams,
         HighestSeq(s) \/ HighestSeqRead(s) \/ HighestSeqStore(s) \/ Load(s) \/ Heartbeat(s)
  PROVE  Moves(s)
<1>1. stream \in [Streams -> StreamSet] /\ late \in [Streams -> SUBSET Nat] /\ stream[s] \in StreamSet
      /\ highest \in Nat \cup {Unknown} /\ (highest # Unknown => highest <= End(log))
      /\ End(log) \in Nat
  BY EndOfLog DEF Base, Typed, Writers
<1>2. ASSUME NEW phase \in {"replay", "probed", "load", "deliver", "live"}, NEW upto \in Nat,
             stream' = [stream EXCEPT ![s] = [stream[s] EXCEPT !.phase = phase, !.upto = upto]]
      PROVE  /\ stream'[s] \in StreamSet /\ stream'[s].queue = stream[s].queue
             /\ stream'[s].pending = stream[s].pending /\ stream'[s].cursor = stream[s].cursor
             /\ stream'[s].phase = phase /\ stream'[s].upto = upto
             /\ stream' = [stream EXCEPT ![s] = stream'[s]]
  <2>1. stream'[s] = [stream[s] EXCEPT !.phase = phase, !.upto = upto]
    BY <1>1, <1>2
  <2>2. stream' = [stream EXCEPT ![s] = stream'[s]]
    BY <1>2, <2>1
  <2>. QED  BY <1>1, <2>1, <2>2 DEF StreamSet, Phases
<1>3. ASSUME NEW phase \in {"replay", "live", "load"},
             stream' = [stream EXCEPT ![s] = [stream[s] EXCEPT !.phase = phase]]
      PROVE  /\ stream'[s] \in StreamSet /\ stream'[s].queue = stream[s].queue
             /\ stream'[s].pending = stream[s].pending /\ stream'[s].cursor = stream[s].cursor
             /\ stream'[s].phase = phase
             /\ stream' = [stream EXCEPT ![s] = stream'[s]]
  <2>1. stream'[s] = [stream[s] EXCEPT !.phase = phase]
    BY <1>1, <1>3
  <2>2. stream' = [stream EXCEPT ![s] = stream'[s]]
    BY <1>3, <2>1
  <2>. QED  BY <1>1, <2>1, <2>2 DEF StreamSet, Phases
<1>4. \A n : \E phase \in {"live", "load"} : Compared(s, n) = [stream[s] EXCEPT !.phase = phase]
  BY DEF Compared
<1>5. CASE HighestSeq(s)
  BY <1>1, <1>3, <1>4, <1>5 DEF HighestSeq, Set, Moves, store
<1>6. CASE HighestSeqRead(s)
  BY <1>1, <1>2, <1>6 DEF HighestSeqRead, Set, Moves, store
<1>7. CASE HighestSeqStore(s)
  <2>1. PICK n : /\ n = (IF highest # Unknown /\ highest > stream[s].upto THEN highest ELSE stream[s].upto)
                 /\ highest' = n /\ Set(s, Compared(s, n))
    BY <1>7 DEF HighestSeqStore
  <2>2. stream[s].upto \in Nat /\ stream[s].upto <= End(log)
    BY <1>1, <1>7 DEF StreamSet, HighestSeqStore, Base, Bounded
  <2>3. n \in Nat /\ n <= End(log)
    BY <1>1, <2>1, <2>2
  <2>4. highest' \in Nat \cup {Unknown} /\ (highest' # Unknown => highest' <= End(log))
    BY <2>1, <2>3
  <2>. QED  BY <1>1, <1>3, <1>4, <1>7, <2>1, <2>4 DEF HighestSeqStore, Set, Moves
<1>8. CASE Load(s)
  BY <1>1, <1>2, <1>8 DEF Load, Set, Moves, store
<1>9. CASE Heartbeat(s)
  BY <1>1, <1>3, <1>9 DEF Heartbeat, Set, Moves, store
<1>. QED  BY <1>5, <1>6, <1>7, <1>8, <1>9

\* A stream that ends keeps the cursor of its client.
LEMMA ClosedStream ==
  ASSUME Base, NEW s \in Streams, NEW reason \in {"off", "revoked"}
  PROVE  /\ Closed(s, reason) \in StreamSet
         /\ Closed(s, reason).phase = reason /\ Closed(s, reason).open = FALSE
         /\ Closed(s, reason).queue = <<>> /\ Closed(s, reason).pending = <<>>
         /\ Closed(s, reason).cursor = stream[s].cursor
<1>1. stream[s] \in StreamSet
  BY DEF Base, Typed
<1>2. Off \in StreamSet
  <2>1. PICK e \in Seq(UnitSet) : e = <<>>
    BY EmptySeq
  <2>2. Off = [phase |-> "off", open |-> FALSE, queue |-> e, pending |-> e, cursor |-> 0, upto |-> 0]
    BY <2>1 DEF Off
  <2>. QED  BY <2>2 DEF StreamSet, Phases
<1>3. Closed(s, reason) = [Off EXCEPT !.cursor = stream[s].cursor, !.phase = reason]
  BY DEF Closed
<1>4. Off.open = FALSE /\ Off.queue = <<>> /\ Off.pending = <<>>
  BY DEF Off
<1>. QED  BY <1>1, <1>2, <1>3, <1>4 DEF StreamSet, Phases

\* Whoever ends a stream closes it; a bundle in pieces never does.
LEMMA EndingCloses ==
  ASSUME Base, NEW s \in Streams, Revoke(s) \/ Disconnected(s) \/ Leave(s)
  PROVE  Closes
<1>1. stream \in [Streams -> StreamSet]
  BY DEF Base, Typed
<1>2. \A reason \in {"off", "revoked"} : stream' = [stream EXCEPT ![s] = Closed(s, reason)] =>
        /\ stream' \in [Streams -> StreamSet]
        /\ \A t \in Streams : stream'[t] = stream[t] \/ Ends(t)
  <2>. SUFFICES ASSUME NEW reason \in {"off", "revoked"}, stream' = [stream EXCEPT ![s] = Closed(s, reason)]
                PROVE  /\ stream' \in [Streams -> StreamSet]
                       /\ \A t \in Streams : stream'[t] = stream[t] \/ Ends(t)
    OBVIOUS
  <2>1. stream'[s] = Closed(s, reason) /\ \A t \in Streams : t # s => stream'[t] = stream[t]
    BY <1>1
  <2>2. Closed(s, reason) \in StreamSet
    BY ClosedStream
  <2>3. Ends(s)
    BY <2>1, ClosedStream DEF Ends
  <2>. QED  BY <1>1, <2>1, <2>2, <2>3
<1>3. CASE Revoke(s)
  BY <1>2, <1>3 DEF Revoke, Set, Closes, store
<1>4. CASE Leave(s)
  BY <1>2, <1>4 DEF Leave, Set, Closes, store
<1>5. CASE Disconnected(s)
  <2>1. stream[s].pending = <<>>
    BY <1>5 DEF Disconnected, Base, Collected
  <2>. QED  BY <1>2, <1>5, <2>1 DEF Disconnected, Set, Closes, store
<1>. QED  BY <1>3, <1>4, <1>5

\* A restart closes every stream.
LEMMA RestartCloses ==
  ASSUME Base, Restart
  PROVE  Closes
<1>1. stream' = [s \in Streams |-> Closed(s, "off")]
  BY DEF Restart
<1>2. \A s \in Streams : stream'[s] \in StreamSet /\ Ends(s)
  BY <1>1, ClosedStream DEF Ends
<1>. QED  BY <1>1, <1>2 DEF Restart, Closes

\* Initially every stream is off and the log is empty.
LEMMA BaseInit == Init => Base
<1>. SUFFICES ASSUME Init PROVE Base
  OBVIOUS
<1>1. log = <<>> /\ End(log) = 0 /\ Groups = {}
  BY DEF Init, End, Groups, ToSet
<1>2. Off \in StreamSet
  <2>1. PICK e \in Seq(UnitSet) : e = <<>>
    BY EmptySeq
  <2>2. Off = [phase |-> "off", open |-> FALSE, queue |-> e, pending |-> e, cursor |-> 0, upto |-> 0]
    BY <2>1 DEF Off
  <2>. QED  BY <2>2 DEF StreamSet, Phases
<1>3. Off.phase = "off" /\ Off.open = FALSE /\ Off.queue = <<>> /\ Off.pending = <<>> /\ Off.cursor = 0
  BY DEF Off
<1>4. Typed
  <2>1. log \in Seq(GroupSet)
    BY <1>1, EmptySeq
  <2>. QED  BY <1>2, <2>1 DEF Init, Typed
<1>5. Laid /\ Writers
  BY <1>1 DEF Init, Laid, Writers
<1>6. Queues /\ Over /\ Paired /\ Collected
  BY <1>3, BoundAssumption DEF Init, Queues, Over, Paired, Collected
<1>7. Bounded
  BY <1>1, <1>3 DEF Init, Bounded, Aligned
<1>8. WholeShown /\ Withheld
  BY <1>1 DEF Init, WholeShown, Withheld
<1>. QED  BY <1>4, <1>5, <1>6, <1>7, <1>8 DEF Base

\* Every step keeps Base.
LEMMA BaseNext == Base /\ [Next]_vars => Base'
<1>. SUFFICES ASSUME Base, [Next]_vars PROVE Base'
  OBVIOUS
<1>1. CASE \E kind \in Kinds : Record(kind)
  BY <1>1, RecordGrows, GrowKeeps
<1>2. CASE PublishRecorded
  BY <1>2, PublishRecordedPublishes, PublishKeeps
<1>3. CASE \E fault \in Faults : CommittedError(fault)
  BY <1>3, CommittedErrorGrows, GrowKeeps
<1>4. CASE UnsettledTerminal
  BY <1>4, UnsettledTerminalGrows, GrowKeeps
<1>5. CASE \E g \in owed : RetryTerminal(g)
  BY <1>5, RetryTerminalPublishes, PublishKeeps
<1>6. CASE StageFinal
  BY <1>6, StageFinalGrows, GrowKeeps
<1>7. CASE ActivateAndPublish
  BY <1>7, ActivateAndPublishPublishes, PublishKeeps
<1>8. ASSUME NEW s \in Streams,
             Connect(s) \/ Replay(s) \/ Consume(s) \/ Disconnected(s) \/ Heartbeat(s) \/ Leave(s)
      PROVE  Base'
  <2>1. CASE Connect(s)
    BY <2>1, ConnectMoves, MoveKeeps
  <2>2. CASE HighestSeq(s) \/ HighestSeqRead(s) \/ HighestSeqStore(s) \/ Load(s) \/ Heartbeat(s)
    BY <2>2, ReplayMoves, MoveKeeps
  <2>3. CASE Deliver(s)
    BY <2>3, DeliverKeeps
  <2>4. CASE Revoke(s) \/ Disconnected(s) \/ Leave(s)
    BY <2>4, EndingCloses, CloseKeeps
  <2>5. CASE Consume(s)
    BY <2>5, ConsumeKeeps
  <2>. QED  BY <1>8, <2>1, <2>2, <2>3, <2>4, <2>5 DEF Replay
<1>9. CASE Restart
  BY <1>9, RestartCloses, CloseKeeps
<1>10. CASE UNCHANGED vars
  BY <1>10 DEF vars, store, clients, counts, Base, Typed, Laid, Writers, Queues, Over, Paired, Collected,
       Bounded, Aligned, WholeShown, Withheld, Groups, Published
<1>. QED  BY <1>1, <1>2, <1>3, <1>4, <1>5, <1>6, <1>7, <1>8, <1>9, <1>10 DEF Next, Writer

\* Base holds throughout.
LEMMA BaseAlways == Spec => []Base
BY BaseInit, BaseNext, PTL DEF Spec

\* The types, for every buffer and log: the model's own, and a queue that never
\* outgrows its buffer.
THEOREM TypeCorrect == Spec => []TypeOK
<1>1. Base => TypeOK
  <2>. SUFFICES ASSUME Base PROVE TypeOK
    OBVIOUS
  <2>1. ASSUME NEW i \in DOMAIN log
        PROVE  log[i].kind \in Kinds /\ End(SubSeq(log, 1, i - 1)) + 1 = log[i].first
    <3>1. log \in Seq(GroupSet) /\ i \in 1 .. Len(log) /\ log[i] \in GroupSet
      BY <2>1 DEF Base, Typed
    <3>2. log[i].first = 1 + (IF i = 1 THEN 0 ELSE log[i - 1].last)
      BY <2>1 DEF Base, Laid
    <3>0. PICK G : G = GroupSet
      OBVIOUS
    <3>3. PICK r \in Seq(G) : r = SubSeq(log, 1, i - 1) /\ Len(r) = i - 1
                              /\ \A k \in 1 .. i - 1 : r[k] = log[k]
      <4>1. PICK l \in Seq(G) : l = log
        BY <3>0, <3>1
      <4>2. SubSeq(l, 1, i - 1) \in Seq(G) /\ Len(SubSeq(l, 1, i - 1)) = i - 1
            /\ \A k \in 1 .. i - 1 : SubSeq(l, 1, i - 1)[k] = l[k]
        BY <3>1, <4>1
      <4>. QED  BY <4>1, <4>2
    <3>4. CASE i = 1
      <4>1. r = <<>>
        BY <3>1, <3>3, <3>4
      <4>. QED  BY <3>1, <3>2, <3>3, <3>4, <4>1 DEF End, GroupSet
    <3>5. CASE i # 1
      <4>1. i - 1 \in 1 .. Len(log) /\ log[i - 1] \in GroupSet
        BY <3>1, <3>5
      <4>2. Len(r) = i - 1 /\ r # <<>> /\ r[i - 1] = log[i - 1]
        BY <3>1, <3>3, <4>1
      <4>3. End(r) = log[i - 1].last
        BY <4>2 DEF End, Last
      <4>. QED  BY <3>1, <3>2, <3>3, <3>5, <4>1, <4>3 DEF GroupSet
    <3>. QED  BY <3>4, <3>5
  <2>2. highest \in 0 .. End(log) \cup {Unknown}
    BY EndOfLog DEF Base, Typed, Writers
  <2>3. writing \in Groups \cup {None} /\ reserved \in Groups \cup {None} /\ owed \subseteq Groups
    BY EndOfLog DEF Base, Typed, Writers
  <2>4. ASSUME NEW s \in Streams
        PROVE  /\ stream[s].phase \in Phases /\ stream[s].cursor \in 0 .. End(log)
               /\ Len(stream[s].queue) <= Cap /\ shown[s] \cup late[s] \subseteq 1 .. End(log)
    BY EndOfLog DEF Base, Typed, StreamSet, Queues, Bounded
  <2>. QED  BY <2>1, <2>2, <2>3, <2>4 DEF TypeOK
<1>. QED  BY <1>1, BaseAlways, PTL

\* Terminal bundles and accepted finals reach a client whole or not at all, and
\* no healthy bundle is taken for a broken one.
THEOREM BundlesWhole == Spec => []BundleWhole
<1>1. Base => BundleWhole
  BY DEF Base, Over, WholeShown, BundleWhole, Whole
<1>. QED  BY <1>1, BaseAlways, PTL

\* Nobody sees an accepted final before it is published.
THEOREM FinalsWithheld == Spec => []FinalWithheld
<1>1. Base => FinalWithheld
  BY DEF Base, Withheld, FinalWithheld
<1>. QED  BY <1>1, BaseAlways, PTL

-----------------------------------------------------------------------------
(* What a stream passes over *)

\* The events a unit gives when it is the last of its kind in a queue, and the
\* events that are appended and still to be offered.
Cov(u) == IF u.group.kind = "final" THEN Seqs(u.group) ELSE {u.seq}
InTransit == (IF writing # None THEN Seqs(writing) ELSE {})
               \cup (IF reserved # None THEN Seqs(reserved) ELSE {})

\* How far the stream is once what it has loaded is delivered. A replay that
\* has not loaded will reach the end of the log.
Reach(s) ==
  IF stream[s].phase = "live" THEN stream[s].cursor
  ELSE IF stream[s].phase = "deliver" THEN stream[s].upto ELSE End(log)

Behind(s, m) ==
  m \in shown[s] \cup late[s] \/ (stream[s].pending # <<>> /\ m = stream[s].pending[1].seq)
InQueue(s, m, n) == \E j \in 1 .. n : m \in Cov(stream[s].queue[j])

\* Nothing is missing before a unit of a queue.
Gapless ==
  \A s \in Streams : \A i \in DOMAIN stream[s].queue :
    \A m \in Reach(s) + 1 .. stream[s].queue[i].seq : Behind(s, m) \/ InQueue(s, m, i)

\* A subscriber has, will be offered, or missed every event beyond its reach.
Offered ==
  \A s \in Streams : stream[s].open =>
    \A m \in Reach(s) + 1 .. End(log) :
      Behind(s, m) \/ InQueue(s, m, Len(stream[s].queue)) \/ m \in InTransit

\* A frontier that was read is current as long as none is cached.
ProbeFresh ==
  \A s \in Streams : stream[s].phase = "probed" /\ highest = Unknown /\ Free =>
    stream[s].upto = End(log)

Delivery == FrontierCurrent /\ ProbeFresh /\ Gapless /\ Offered /\ SkipsOnlyUnoffered

\* The numbers of a stream, and those in its queue.
LEMMA Numbers ==
  ASSUME Base, NEW s \in Streams
  PROVE  /\ End(log) \in Nat /\ stream[s].cursor \in Nat /\ stream[s].upto \in Nat /\ Reach(s) \in Nat
         /\ Len(stream[s].queue) \in Nat /\ DOMAIN stream[s].queue = 1 .. Len(stream[s].queue)
         /\ \A i \in DOMAIN stream[s].queue :
              stream[s].queue[i].seq \in Nat /\ stream[s].queue[i].seq <= End(log)
<1>1. End(log) \in Nat /\ stream[s].cursor \in Nat /\ stream[s].upto \in Nat
      /\ stream[s].queue \in Seq(UnitSet)
  BY EndOfLog DEF Base, Typed, StreamSet
<1>2. \A g \in Groups : g.first \in Nat /\ g.last \in Nat /\ g.last <= End(log)
  BY Apart DEF Base
<1>3. \A i \in DOMAIN stream[s].queue :
        stream[s].queue[i].seq \in Nat /\ stream[s].queue[i].seq <= End(log)
  <2>. SUFFICES ASSUME NEW i \in DOMAIN stream[s].queue
                PROVE  stream[s].queue[i].seq \in Nat /\ stream[s].queue[i].seq <= End(log)
    OBVIOUS
  <2>1. PICK u : u = stream[s].queue[i]
    OBVIOUS
  <2>2. u.group \in Groups /\ u.seq \in Seqs(u.group)
    BY <2>1 DEF Base, Queues, IsUnit, Published
  <2>3. u.group.first \in Nat /\ u.group.last \in Nat /\ u.group.last <= End(log)
    BY <1>2, <2>2
  <2>. QED  BY <1>1, <2>1, <2>2, <2>3 DEF Seqs
<1>4. Reach(s) \in Nat
  BY <1>1 DEF Reach
<1>. QED  BY <1>1, <1>3, <1>4

\* What becomes of the events that an append writes, and of the frontier.
Accounted(k) ==
  /\ \/ writing' = NextGroup(k)
     \/ reserved' = NextGroup(k)
     \/ \A s \in Streams : stream[s].open => Seqs(NextGroup(k)) \subseteq late'[s]
  /\ writing' = None => highest' = End(log)'

\* An append keeps Delivery.
LEMMA GrowDelivers ==
  ASSUME Base, Delivery, NEW k, Grows(k), Accounted(k)
  PROVE  Delivery'
<1>0. /\ k \in Kinds /\ log' = Append(log, NextGroup(k)) /\ stream' = stream /\ shown' = shown
      /\ writing = None /\ reserved = None
      /\ \A s \in Streams : late[s] \subseteq late'[s]
  BY DEF Grows, clients
<1>1. /\ End(log)' = NextGroup(k).last /\ End(log) < End(log)'
      /\ End(log) \in Nat /\ End(log)' \in Nat
  BY <1>0, GrownLog DEF Base
<1>2. PICK g : g = NextGroup(k)
  OBVIOUS
<1>3. g \in GroupSet /\ g.first = End(log) + 1 /\ g.last = End(log)' /\ g # None
  BY <1>0, <1>1, <1>2, NextGroupOk, NoGroup DEF Base
<1>4. Unknown \notin Nat
  BY NoGroup
<1>5. \A s \in Streams : Reach(s)' \in Nat /\ Reach(s) \in Nat /\ Reach(s) <= Reach(s)'
  BY <1>0, <1>1, Numbers DEF Reach
<1>6. \A s \in Streams : \A m : Behind(s, m) => Behind(s, m)'
  BY <1>0 DEF Behind
<1>7. \A s \in Streams : \A m, n : InQueue(s, m, n) => InQueue(s, m, n)'
  BY <1>0 DEF InQueue
<1>8. FrontierCurrent'
  BY DEF FrontierCurrent, Accounted, Free
<1>9. ProbeFresh'
  BY <1>1, <1>4 DEF ProbeFresh, Accounted, Free
<1>10. Gapless'
  <2>. SUFFICES ASSUME NEW s \in Streams, NEW i \in DOMAIN stream[s].queue,
                       NEW m \in Reach(s)' + 1 .. stream[s].queue[i].seq
                PROVE  Behind(s, m)' \/ InQueue(s, m, i)'
    BY <1>0 DEF Gapless
  <2>1. m \in Reach(s) + 1 .. stream[s].queue[i].seq
    BY <1>5, Numbers
  <2>. QED  BY <1>6, <1>7, <2>1 DEF Delivery, Gapless
<1>11. Offered'
  <2>. SUFFICES ASSUME NEW s \in Streams, stream[s].open, NEW m \in Reach(s)' + 1 .. End(log)'
                PROVE  \/ Behind(s, m)'
                       \/ InQueue(s, m, Len(stream[s].queue))'
                       \/ m \in InTransit'
    BY <1>0 DEF Offered
  <2>1. CASE m <= End(log)
    <3>1. m \in Reach(s) + 1 .. End(log)
      BY <1>1, <1>5, <2>1
    <3>2. InTransit = {}
      BY <1>0 DEF InTransit
    <3>3. Behind(s, m) \/ InQueue(s, m, Len(stream[s].queue))
      BY <3>1, <3>2 DEF Delivery, Offered
    <3>. QED  BY <1>0, <1>6, <1>7, <3>3
  <2>2. CASE ~(m <= End(log))
    <3>1. m \in Seqs(g)
      BY <1>1, <1>3, <1>5, <2>2 DEF Seqs
    <3>2. CASE writing' = g \/ reserved' = g
      BY <1>3, <3>1, <3>2 DEF InTransit
    <3>3. CASE Seqs(g) \subseteq late'[s]
      BY <3>1, <3>3 DEF Behind
    <3>. QED  BY <1>2, <3>2, <3>3 DEF Accounted
  <2>. QED  BY <2>1, <2>2
<1>12. SkipsOnlyUnoffered'
  BY <1>0 DEF Delivery, SkipsOnlyUnoffered
<1>. QED  BY <1>8, <1>9, <1>10, <1>11, <1>12 DEF Delivery

\* The units of a group cover its events in their order, and end with the last.
LEMMA UnitsCover ==
  ASSUME NEW g \in GroupSet, g.last = g.first + Size(g.kind) - 1
  PROVE  /\ \A k \in DOMAIN Units(g), m \in Seqs(g) : m <= Units(g)[k].seq =>
              \E j \in 1 .. k : j \in DOMAIN Units(g) /\ m \in Cov(Units(g)[j])
         /\ \E k \in DOMAIN Units(g) : Units(g)[k].seq = g.last
<1>1. g.kind \in Kinds /\ g.first \in Nat /\ g.last \in Nat /\ Units(g) \in Seq(UnitSet)
  BY UnitsOf DEF GroupSet
<1>2. CASE g.kind = "final"
  <2>1. DOMAIN Units(g) = 1 .. 1 /\ Units(g)[1] = UnitOf(g, g.last)
    BY <1>1, <1>2, UnitsOf
  <2>2. Cov(Units(g)[1]) = Seqs(g) /\ Units(g)[1].seq = g.last
    BY <1>2, <2>1 DEF Cov, UnitOf
  <2>. QED  BY <2>1, <2>2
<1>3. CASE g.kind = "event"
  <2>1. DOMAIN Units(g) = 1 .. 1 /\ Units(g)[1] = UnitOf(g, g.first) /\ g.last = g.first
    BY <1>1, <1>3, UnitsOf DEF Size
  <2>2. Cov(Units(g)[1]) = {g.first} /\ Units(g)[1].seq = g.last /\ Seqs(g) = {g.first}
    BY <1>1, <1>3, <2>1 DEF Cov, UnitOf, Seqs
  <2>. QED  BY <2>1, <2>2
<1>4. CASE g.kind \in {"bundle", "terminal"}
  <2>1. /\ DOMAIN Units(g) = 1 .. 2 /\ g.last = g.first + 1
        /\ Units(g)[1] = UnitOf(g, g.first) /\ Units(g)[2] = UnitOf(g, g.last)
    BY <1>1, <1>4, UnitsOf DEF Size
  <2>2. /\ Cov(Units(g)[1]) = {g.first} /\ Cov(Units(g)[2]) = {g.last}
        /\ Units(g)[1].seq = g.first /\ Units(g)[2].seq = g.last
        /\ Seqs(g) = {g.first, g.last}
    BY <1>1, <1>4, <2>1 DEF Cov, UnitOf, Seqs
  <2>3. \A k \in DOMAIN Units(g) : k = 1 \/ k = 2
    BY <2>1
  <2>. QED  BY <1>1, <2>1, <2>2, <2>3
<1>. QED  BY <1>1, <1>2, <1>3, <1>4 DEF Kinds

\* A publication keeps Delivery: what was in transit is in the queue, or missed.
LEMMA PublishDelivers ==
  ASSUME Base, Base', Delivery, NEW g, Publishes(g)
  PROVE  Delivery'
<1>0. /\ g \in Groups /\ Publish(g) /\ log' = log /\ shown' = shown /\ reserved' = None /\ writing' = None
      /\ Groups' = Groups /\ End(log)' = End(log) /\ highest' = End(log)
      /\ \A s \in Streams : late[s] \subseteq late'[s]
  BY DEF Publishes, Groups
<1>1. /\ g \in GroupSet /\ End(log) \in Nat
      /\ g.first \in Nat /\ g.last \in Nat /\ g.first <= g.last /\ g.last <= End(log)
      /\ g.last = g.first + Size(g.kind) - 1
  BY <1>0, EndOfLog, Apart DEF Base, Typed
<1>2. Unknown \notin Nat
  BY NoGroup
<1>3. \A s \in Streams : Receives(s, g) \/ LosesOut(s, g)
  BY <1>0, <1>1, Offering DEF Base
<1>4. \A s \in Streams : LosesOut(s, g) =>
        /\ stream'[s].phase = stream[s].phase
        /\ stream'[s].pending = stream[s].pending /\ stream'[s].cursor = stream[s].cursor
        /\ stream'[s].upto = stream[s].upto /\ stream'[s].queue = stream[s].queue
  <2>. SUFFICES ASSUME NEW s \in Streams, LosesOut(s, g), stream'[s] # stream[s]
                PROVE  /\ stream'[s].phase = stream[s].phase
                       /\ stream'[s].pending = stream[s].pending
                       /\ stream'[s].cursor = stream[s].cursor
                       /\ stream'[s].upto = stream[s].upto /\ stream'[s].queue = stream[s].queue
    OBVIOUS
  <2>1. stream[s] \in StreamSet /\ stream'[s] = [stream[s] EXCEPT !.open = FALSE]
    BY DEF LosesOut, Base, Typed
  <2>. QED  BY <2>1 DEF StreamSet
<1>5. \A s \in Streams :
        /\ stream'[s].phase = stream[s].phase
        /\ stream'[s].pending = stream[s].pending /\ stream'[s].cursor = stream[s].cursor
        /\ stream'[s].upto = stream[s].upto
  BY <1>0, <1>3, <1>4, Lengthened
<1>6. \A s \in Streams : Reach(s)' = Reach(s) /\ Reach(s) \in Nat
  BY <1>0, <1>5, Numbers DEF Reach
<1>7. \A s \in Streams : \A m : Behind(s, m) => Behind(s, m)'
  BY <1>0, <1>5 DEF Behind
<1>8. \A s \in Streams : \A m : m \in InTransit => m \in Seqs(g)
  BY DEF InTransit, Publishes
<1>9. FrontierCurrent' /\ ProbeFresh'
  BY <1>0, <1>1, <1>2 DEF FrontierCurrent, ProbeFresh
<1>10. SkipsOnlyUnoffered'
  BY <1>0, <1>5 DEF Delivery, SkipsOnlyUnoffered
<1>11. \A s \in Streams : \A n \in 0 .. Len(stream[s].queue) : \A m : InQueue(s, m, n) => InQueue(s, m, n)'
  <2>. SUFFICES ASSUME NEW s \in Streams, NEW n \in 0 .. Len(stream[s].queue), NEW m,
                       NEW j \in 1 .. n, m \in Cov(stream[s].queue[j])
                PROVE  m \in Cov(stream'[s].queue[j])
    BY DEF InQueue
  <2>1. j \in DOMAIN stream[s].queue
    BY Numbers
  <2>. QED  BY <1>0, <1>3, <1>4, <2>1, Lengthened
<1>12. \A s \in Streams : Receives(s, g) => stream[s].open
  BY DEF Receives
<1>13. Gapless'
  <2>. SUFFICES ASSUME NEW s \in Streams, NEW i \in DOMAIN stream'[s].queue,
                       NEW m \in Reach(s) + 1 .. stream'[s].queue[i].seq
                PROVE  Behind(s, m)' \/ InQueue(s, m, i)'
    BY <1>6 DEF Gapless
  <2>0. PICK n \in Nat : n = Len(stream[s].queue) /\ DOMAIN stream[s].queue = 1 .. n
    BY Numbers
  <2>1. CASE i \in DOMAIN stream[s].queue
    <3>1. stream'[s].queue[i] = stream[s].queue[i]
      BY <1>0, <1>3, <1>4, <2>1, Lengthened
    <3>2. Behind(s, m) \/ InQueue(s, m, i)
      BY <2>1, <3>1 DEF Delivery, Gapless
    <3>3. i \in 0 .. Len(stream[s].queue)
      BY <2>0, <2>1
    <3>. QED  BY <1>7, <1>11, <3>2, <3>3
  <2>2. CASE i \notin DOMAIN stream[s].queue
    <3>1. Receives(s, g) /\ stream[s].open
      BY <1>3, <1>4, <1>12, <2>2
    <3>2. /\ Len(stream'[s].queue) = n + Len(Units(g)) /\ Units(g) \in Seq(UnitSet)
          /\ DOMAIN stream'[s].queue = 1 .. Len(stream'[s].queue) /\ Len(stream'[s].queue) \in Nat
          /\ \A k \in DOMAIN Units(g) : stream'[s].queue[n + k] = Units(g)[k]
      <4>1. stream'[s].queue \in Seq(UnitSet)
        BY DEF Base, Typed, StreamSet
      <4>. QED  BY <1>0, <1>1, <2>0, <3>1, <4>1, Lengthened, UnitsOf
    <3>3. PICK k \in DOMAIN Units(g) : i = n + k
      <4>1. i \in 1 .. n + Len(Units(g)) /\ ~(i \in 1 .. n) /\ Len(Units(g)) \in Nat
            /\ DOMAIN Units(g) = 1 .. Len(Units(g))
        BY <2>0, <2>2, <3>2
      <4>2. i - n \in DOMAIN Units(g) /\ i = n + (i - n)
        BY <4>1
      <4>. QED  BY <4>2
    <3>4. stream'[s].queue[i] = Units(g)[k] /\ Units(g)[k].group = g /\ Units(g)[k].seq \in Seqs(g)
      BY <1>1, <3>2, <3>3, UnitsOf
    <3>5. m \in Reach(s) + 1 .. End(log) /\ m <= Units(g)[k].seq /\ m \in Nat
      BY <1>1, <1>6, <3>4 DEF Seqs
    <3>6. \/ Behind(s, m) \/ InQueue(s, m, n) \/ m \in Seqs(g)
      BY <1>8, <2>0, <3>1, <3>5 DEF Delivery, Offered
    <3>7. CASE Behind(s, m)
      BY <1>7, <3>7
    <3>8. CASE InQueue(s, m, n)
      <4>1. InQueue(s, m, n)'
        BY <1>11, <2>0, <3>8
      <4>2. 1 .. n \subseteq 1 .. i
        BY <2>0, <3>2, <3>3
      <4>. QED  BY <4>1, <4>2 DEF InQueue
    <3>9. CASE m \in Seqs(g)
      <4>1. PICK j \in 1 .. k : j \in DOMAIN Units(g) /\ m \in Cov(Units(g)[j])
        BY <1>1, <3>5, <3>9, UnitsCover
      <4>2. n + j \in 1 .. i
        <5>1. DOMAIN Units(g) = 1 .. Len(Units(g)) /\ Len(Units(g)) \in Nat
          BY <3>2
        <5>. QED  BY <2>0, <3>3, <4>1, <5>1, SMTT(30)
      <4>3. stream'[s].queue[n + j] = Units(g)[j]
        BY <3>2, <4>1
      <4>. QED  BY <4>1, <4>2, <4>3 DEF InQueue
    <3>. QED  BY <3>6, <3>7, <3>8, <3>9
  <2>. QED  BY <2>1, <2>2
<1>14. Offered'
  <2>. SUFFICES ASSUME NEW s \in Streams, stream'[s].open, NEW m \in Reach(s) + 1 .. End(log)
                PROVE  Behind(s, m)' \/ InQueue(s, m, Len(stream[s].queue))'
    BY <1>0, <1>6 DEF Offered
  <2>0. PICK n \in Nat : n = Len(stream[s].queue) /\ DOMAIN stream[s].queue = 1 .. n
    BY Numbers
  <2>1. stream[s].open
    BY <1>3, <1>12 DEF LosesOut
  <2>2. Behind(s, m) \/ InQueue(s, m, n) \/ m \in Seqs(g)
    BY <1>8, <2>0, <2>1 DEF Delivery, Offered
  <2>3. CASE Behind(s, m)
    BY <1>7, <2>3
  <2>4. /\ Receives(s, g) => Len(stream'[s].queue) = n + Len(Units(g))
        /\ LosesOut(s, g) => Len(stream'[s].queue) = n
        /\ Units(g) \in Seq(UnitSet)
    BY <1>0, <1>1, <1>4, <2>0, Lengthened, UnitsOf
  <2>5. CASE InQueue(s, m, n)
    <3>1. InQueue(s, m, n)'
      BY <1>11, <2>0, <2>5
    <3>2. Len(stream'[s].queue) \in Nat /\ n <= Len(stream'[s].queue)
      BY <1>3, <2>4
    <3>. QED  BY <3>1, <3>2 DEF InQueue
  <2>6. CASE m \in Seqs(g) /\ Receives(s, g)
    <3>1. PICK k \in DOMAIN Units(g) : Units(g)[k].seq = g.last
      BY <1>1, UnitsCover
    <3>2. m \in Nat /\ m <= Units(g)[k].seq
      BY <1>1, <2>6, <3>1 DEF Seqs
    <3>3. PICK j \in 1 .. k : j \in DOMAIN Units(g) /\ m \in Cov(Units(g)[j])
      BY <1>1, <2>6, <3>2, UnitsCover
    <3>4. n + j \in 1 .. Len(stream'[s].queue) /\ stream'[s].queue[n + j] = Units(g)[j]
      <4>1. n + j \in 1 .. n + Len(Units(g))
        BY <2>4, <3>3
      <4>2. Len(stream'[s].queue) = n + Len(Units(g))
        BY <2>4, <2>6
      <4>3. stream'[s].queue[n + j] = Units(g)[j]
        BY <1>0, <1>1, <2>0, <2>6, <3>3, Lengthened
      <4>. QED  BY <4>1, <4>2, <4>3
    <3>. QED  BY <3>3, <3>4 DEF InQueue
  <2>7. CASE m \in Seqs(g) /\ LosesOut(s, g)
    <3>1. g.kind = "event" /\ ~fits(s, g)
      BY <2>7 DEF LosesOut
    <3>2. late'[s] = late[s] \cup Seqs(g)
      BY <2>1, <3>1 DEF Publishes
    <3>. QED  BY <2>7, <3>2 DEF Behind
  <2>. QED  BY <1>3, <2>2, <2>3, <2>5, <2>6, <2>7
<1>. QED  BY <1>9, <1>10, <1>13, <1>14 DEF Delivery

\* A stream goes live without a replay only at the end of the log.
Settled(s) ==
  /\ stream'[s].phase = "live" => stream[s].cursor >= End(log)
  /\ highest' \in {highest, End(log)}

\* A stream that moves has nothing beyond its reach; the others stay.
LEMMA MoveDelivers ==
  ASSUME Base, Delivery, NEW s, Moves(s), Settled(s)
  PROVE  Delivery'
<1>0. /\ s \in Streams /\ log' = log /\ shown' = shown /\ writing' = writing /\ reserved' = reserved
      /\ End(log)' = End(log) /\ highest' \in {highest, End(log)} /\ InTransit' = InTransit
      /\ stream'[s].phase \in {"replay", "probed", "load", "deliver", "live"}
      /\ stream'[s].phase \in {"probed", "deliver"} => stream'[s].upto = End(log)
      /\ stream'[s].phase = "live" => stream[s].cursor >= End(log)
      /\ \A t \in Streams : late[t] \cap (1 .. stream[t].cursor) \subseteq late'[t]
      /\ \A t \in Streams : t # s => late'[t] = late[t]
  BY DEF Moves, Settled, InTransit
<1>1. /\ \A t \in Streams : t # s => stream'[t] = stream[t]
      /\ \A t \in Streams : stream'[t].queue = stream[t].queue /\ stream'[t].pending = stream[t].pending
                            /\ stream'[t].cursor = stream[t].cursor
  BY DEF Moves, Base, Typed
<1>2. End(log) \in Nat /\ Unknown \notin Nat /\ stream[s].cursor \in Nat
  BY <1>0, Numbers, NoGroup
<1>3. \A t \in Streams : t # s => Reach(t)' = Reach(t)
  BY <1>0, <1>1 DEF Reach
<1>4. Reach(s)' \in Nat /\ Reach(s)' >= End(log)
  BY <1>0, <1>1, <1>2 DEF Reach
<1>5. \A t \in Streams : t # s => \A m, n : (Behind(t, m)' <=> Behind(t, m)) /\ (InQueue(t, m, n)' <=> InQueue(t, m, n))
  BY <1>0, <1>1 DEF Behind, InQueue
<1>6. FrontierCurrent' /\ ProbeFresh'
  BY <1>0, <1>1, <1>2 DEF Delivery, FrontierCurrent, ProbeFresh, Free
<1>7. Gapless'
  <2>. SUFFICES ASSUME NEW t \in Streams, NEW i \in DOMAIN stream[t].queue,
                       NEW m \in Reach(t)' + 1 .. stream[t].queue[i].seq
                PROVE  Behind(t, m)' \/ InQueue(t, m, i)'
    BY <1>1 DEF Gapless
  <2>1. CASE t = s
    BY <1>0, <1>2, <1>4, <2>1, Numbers
  <2>2. CASE t # s
    BY <1>3, <1>5, <2>2 DEF Delivery, Gapless
  <2>. QED  BY <2>1, <2>2
<1>8. Offered'
  <2>. SUFFICES ASSUME NEW t \in Streams, stream'[t].open, NEW m \in Reach(t)' + 1 .. End(log)
                PROVE  Behind(t, m)' \/ InQueue(t, m, Len(stream[t].queue))' \/ m \in InTransit
    BY <1>0, <1>1 DEF Offered
  <2>1. CASE t = s
    BY <1>2, <1>4, <2>1
  <2>2. CASE t # s
    <3>1. stream[t].open /\ m \in Reach(t) + 1 .. End(log)
      BY <1>1, <1>3, <2>2
    <3>2. Behind(t, m) \/ InQueue(t, m, Len(stream[t].queue)) \/ m \in InTransit
      BY <3>1 DEF Delivery, Offered
    <3>. QED  BY <1>1, <1>5, <2>2, <3>2
  <2>. QED  BY <2>1, <2>2
<1>9. SkipsOnlyUnoffered'
  BY <1>0, <1>1 DEF Delivery, SkipsOnlyUnoffered
<1>. QED  BY <1>6, <1>7, <1>8, <1>9 DEF Delivery

\* What a step that concerns one stream has to show of it.
LEMMA OneStream ==
  ASSUME Delivery, NEW s \in Streams, UNCHANGED <<store, late>>,
         \A t \in Streams : t # s => stream'[t] = stream[t] /\ shown'[t] = shown[t],
         stream'[s].phase # "probed",
         \A i \in DOMAIN stream'[s].queue : \A m \in Reach(s)' + 1 .. stream'[s].queue[i].seq :
           Behind(s, m)' \/ InQueue(s, m, i)',
         stream'[s].open => \A m \in Reach(s)' + 1 .. End(log) :
           Behind(s, m)' \/ InQueue(s, m, Len(stream[s].queue))' \/ m \in InTransit,
         1 .. stream'[s].cursor \subseteq shown'[s] \cup late[s]
  PROVE  Delivery'
<1>0. /\ log' = log /\ writing' = writing /\ reserved' = reserved /\ highest' = highest
      /\ late' = late /\ End(log)' = End(log) /\ InTransit' = InTransit
  BY DEF store, InTransit
<1>1. \A t \in Streams : t # s => Reach(t)' = Reach(t)
  BY <1>0 DEF Reach
<1>2. \A t \in Streams : t # s => \A m, n : (Behind(t, m)' <=> Behind(t, m)) /\ (InQueue(t, m, n)' <=> InQueue(t, m, n))
  BY <1>0 DEF Behind, InQueue
<1>3. FrontierCurrent' /\ ProbeFresh'
  BY <1>0 DEF Delivery, FrontierCurrent, ProbeFresh, Free
<1>4. Gapless'
  <2>. SUFFICES ASSUME NEW t \in Streams, t # s, NEW i \in DOMAIN stream'[t].queue,
                       NEW m \in Reach(t)' + 1 .. stream'[t].queue[i].seq
                PROVE  Behind(t, m)' \/ InQueue(t, m, i)'
    BY DEF Gapless
  <2>1. Behind(t, m) \/ InQueue(t, m, i)
    BY <1>1 DEF Delivery, Gapless
  <2>. QED  BY <1>2, <2>1
<1>5. Offered'
  <2>. SUFFICES ASSUME NEW t \in Streams, t # s, stream'[t].open, NEW m \in Reach(t)' + 1 .. End(log)
                PROVE  Behind(t, m)' \/ InQueue(t, m, Len(stream[t].queue))' \/ m \in InTransit
    BY <1>0 DEF Offered
  <2>1. Behind(t, m) \/ InQueue(t, m, Len(stream[t].queue)) \/ m \in InTransit
    BY <1>1 DEF Delivery, Offered
  <2>2. stream'[t] = stream[t]
    OBVIOUS
  <2>. QED  BY <1>2, <2>1, <2>2
<1>6. SkipsOnlyUnoffered'
  BY <1>0 DEF Delivery, SkipsOnlyUnoffered
<1>. QED  BY <1>3, <1>4, <1>5, <1>6 DEF Delivery

\* The replay gives what the stream was to reach, the collected unit included.
LEMMA DeliverDelivers ==
  ASSUME Base, Delivery, NEW s \in Streams, Deliver(s)
  PROVE  Delivery'
<1>1. /\ stream' = [stream EXCEPT ![s] = stream'[s]] /\ stream'[s] \in StreamSet
      /\ stream[s].phase = "deliver" /\ stream'[s].phase = "live"
      /\ stream'[s].queue = stream[s].queue /\ stream'[s].open = stream[s].open
      /\ stream'[s].cursor = stream[s].upto /\ UNCHANGED <<store, late>>
  BY Delivered
<1>2. PICK from \in {1, stream[s].cursor + 1} :
        shown' = [shown EXCEPT ![s] = @ \cup (from .. stream[s].upto)]
  BY Delivered
<1>3. stream \in [Streams -> StreamSet] /\ shown \in [Streams -> SUBSET Nat] /\ late' = late
      /\ End(log) \in Nat /\ stream[s].cursor \in Nat /\ stream[s].upto \in Nat /\ End(log)' = End(log)
  BY <1>1, Numbers DEF Base, Typed, store
<1>4. /\ \A t \in Streams : t # s => stream'[t] = stream[t] /\ shown'[t] = shown[t]
      /\ shown'[s] = shown[s] \cup (from .. stream[s].upto)
  BY <1>1, <1>2, <1>3
<1>5. Reach(s) = stream[s].upto /\ Reach(s)' = stream[s].upto
  BY <1>1 DEF Reach
<1>6. stream[s].pending # <<>> => stream[s].pending[1].seq \in Nat /\ stream[s].pending[1].seq <= stream[s].upto
  <2>. SUFFICES ASSUME stream[s].pending # <<>>
                PROVE  stream[s].pending[1].seq \in Nat /\ stream[s].pending[1].seq <= stream[s].upto
    OBVIOUS
  <2>1. PICK g : g = stream[s].pending[1].group
    OBVIOUS
  <2>2. g \in Groups /\ stream[s].pending = <<UnitOf(g, g.first)>> /\ g.last <= stream[s].upto
    BY <1>1, <2>1 DEF Base, Collected
  <2>3. g.first \in Nat /\ g.last \in Nat /\ g.first <= g.last
    BY <2>2, Apart DEF Base
  <2>4. stream[s].pending[1].seq = g.first
    BY <2>2 DEF UnitOf
  <2>. QED  BY <1>3, <2>2, <2>3, <2>4
<1>7. \A m : m \in Nat /\ m > stream[s].upto /\ Behind(s, m) => Behind(s, m)'
  BY <1>3, <1>4, <1>6 DEF Behind
<1>8. \A m, n : InQueue(s, m, n) => InQueue(s, m, n)'
  BY <1>1 DEF InQueue
<1>9. \A i \in DOMAIN stream'[s].queue : \A m \in Reach(s)' + 1 .. stream'[s].queue[i].seq :
        Behind(s, m)' \/ InQueue(s, m, i)'
  <2>. SUFFICES ASSUME NEW i \in DOMAIN stream[s].queue, NEW m \in stream[s].upto + 1 .. stream[s].queue[i].seq
                PROVE  Behind(s, m)' \/ InQueue(s, m, i)'
    BY <1>1, <1>5
  <2>1. m \in Nat /\ m > stream[s].upto
    BY <1>3, Numbers
  <2>2. Behind(s, m) \/ InQueue(s, m, i)
    BY <1>5 DEF Delivery, Gapless
  <2>. QED  BY <1>7, <1>8, <2>1, <2>2
<1>10. stream'[s].open => \A m \in Reach(s)' + 1 .. End(log) :
         Behind(s, m)' \/ InQueue(s, m, Len(stream[s].queue))' \/ m \in InTransit
  <2>. SUFFICES ASSUME stream[s].open, NEW m \in stream[s].upto + 1 .. End(log)
                PROVE  Behind(s, m)' \/ InQueue(s, m, Len(stream[s].queue))' \/ m \in InTransit
    BY <1>1, <1>5
  <2>1. m \in Nat /\ m > stream[s].upto
    BY <1>3
  <2>2. Behind(s, m) \/ InQueue(s, m, Len(stream[s].queue)) \/ m \in InTransit
    BY <1>5 DEF Delivery, Offered
  <2>. QED  BY <1>1, <1>7, <1>8, <2>1, <2>2
<1>11. 1 .. stream'[s].cursor \subseteq shown'[s] \cup late[s]
  <2>. SUFFICES ASSUME NEW m \in 1 .. stream[s].upto PROVE m \in shown'[s] \cup late[s]
    BY <1>1
  <2>1. CASE m <= stream[s].cursor
    BY <1>3, <1>4, <2>1 DEF Delivery, SkipsOnlyUnoffered
  <2>2. CASE ~(m <= stream[s].cursor)
    BY <1>2, <1>3, <1>4, <2>2
  <2>. QED  BY <2>1, <2>2
<1>. QED  BY <1>1, <1>4, <1>9, <1>10, <1>11, OneStream

\* The stream takes a unit: it has been given all that lies before.
LEMMA ConsumeDelivers ==
  ASSUME Base, Delivery, NEW s \in Streams, Consume(s)
  PROVE  Delivery'
<1>1. /\ stream' = [stream EXCEPT ![s] = stream'[s]] /\ stream'[s] \in StreamSet
      /\ stream[s].phase = "live" /\ stream'[s].phase = "live" /\ stream'[s].open = stream[s].open
      /\ stream[s].queue # <<>> /\ stream'[s].queue = Tail(stream[s].queue)
      /\ UNCHANGED <<store, late>>
  BY Consumed
<1>2. PICK q \in Seq(UnitSet) : q = stream[s].queue
  BY DEF Base, Typed, StreamSet
<1>3. PICK u : u = q[1]
  OBVIOUS
<1>4. Skips(s, u) \/ Collects(s, u) \/ Shows(s, u)
  BY <1>2, <1>3, Consumed
<1>5. /\ Len(q) \in Nat /\ 1 \in DOMAIN q /\ DOMAIN q = 1 .. Len(q)
      /\ Tail(q) \in Seq(UnitSet) /\ Len(Tail(q)) = Len(q) - 1 /\ DOMAIN Tail(q) = 1 .. Len(q) - 1
      /\ \A i \in DOMAIN Tail(q) : i \in Nat /\ i + 1 \in DOMAIN q /\ Tail(q)[i] = q[i + 1]
      /\ \A j \in DOMAIN q : j \in Nat /\ (j # 1 => j - 1 \in DOMAIN Tail(q) /\ Tail(q)[j - 1] = q[j])
  BY <1>1, <1>2
<1>6. /\ u.group \in Groups /\ u.seq \in Seqs(u.group) /\ (u.group.kind = "final" => u.seq = u.group.last)
      /\ u.group.first \in Nat /\ u.group.last \in Nat /\ u.seq \in Nat
  <2>1. u.group \in Groups /\ u.seq \in Seqs(u.group) /\ (u.group.kind = "final" => u.seq = u.group.last)
    BY <1>2, <1>3, <1>5 DEF Base, Queues, IsUnit, Published
  <2>. QED  BY <2>1, Apart DEF Base, Seqs
<1>7. /\ Cov(u) \subseteq Given(u) /\ \A m \in Cov(u) : m \in Nat /\ m <= u.seq
      /\ u.group.kind = "terminal" => Cov(u) = {u.seq} /\ u.group.first \in Given(u)
  BY <1>6 DEF Cov, Given, Whole, Seqs
<1>8. /\ stream \in [Streams -> StreamSet] /\ shown \in [Streams -> SUBSET Nat] /\ late' = late
      /\ End(log) \in Nat /\ stream[s].cursor \in Nat
  BY <1>1, Numbers DEF Base, Typed
<1>9. \A t \in Streams : t # s => stream'[t] = stream[t] /\ shown'[t] = shown[t]
  BY <1>1, <1>4, <1>8 DEF Skips, Collects, Shows
<1>10. /\ Reach(s) = stream[s].cursor /\ Reach(s)' = stream'[s].cursor
       /\ stream'[s].cursor \in Nat /\ stream[s].cursor <= stream'[s].cursor
  BY <1>1, <1>4, <1>6, <1>8 DEF Reach, Skips, Collects, Shows
<1>11. shown[s] \subseteq shown'[s]
  BY <1>4, <1>8 DEF Skips, Collects, Shows
<1>12. \A m \in Nat : m > stream'[s].cursor /\ Behind(s, m) => Behind(s, m)'
  <2>1. CASE Skips(s, u) \/ Collects(s, u)
    BY <1>8, <1>11, <2>1 DEF Behind, Skips, Collects
  <2>2. CASE Shows(s, u)
    <3>1. stream[s].pending # <<>> => stream[s].pending[1].seq <= u.seq
      BY <1>6, <2>2 DEF Shows, UnitOf, Seqs
    <3>. QED  BY <1>6, <1>8, <1>11, <2>2, <3>1 DEF Behind, Shows
  <2>. QED  BY <1>4, <2>1, <2>2
<1>13. \A m \in Nat : m > stream'[s].cursor /\ m \in Cov(u) => Behind(s, m)'
  <2>1. CASE Skips(s, u)
    BY <1>7, <1>8, <1>6, <2>1 DEF Skips
  <2>2. CASE Shows(s, u)
    BY <1>7, <1>6, <2>2 DEF Shows
  <2>3. CASE Collects(s, u)
    <3>1. stream'[s].pending # <<>> /\ stream'[s].pending[1] = u
      BY <2>3 DEF Collects
    <3>2. Cov(u) = {u.seq}
      BY <1>7, <2>3 DEF Collects
    <3>. QED  BY <3>1, <3>2 DEF Behind
  <2>. QED  BY <1>4, <2>1, <2>2, <2>3
<1>14. \A m \in Nat : \A n \in 1 .. Len(q) : m > stream'[s].cursor /\ InQueue(s, m, n) =>
         Behind(s, m)' \/ InQueue(s, m, n - 1)'
  <2>. SUFFICES ASSUME NEW m \in Nat, NEW n \in 1 .. Len(q), m > stream'[s].cursor,
                       NEW j \in 1 .. n, m \in Cov(q[j])
                PROVE  Behind(s, m)' \/ InQueue(s, m, n - 1)'
    BY <1>2 DEF InQueue
  <2>1. CASE j = 1
    BY <1>3, <1>13, <2>1
  <2>2. CASE j # 1
    <3>1. j \in DOMAIN q
      BY <1>5
    <3>2. j - 1 \in 1 .. n - 1 /\ Tail(q)[j - 1] = q[j]
      BY <1>5, <2>2, <3>1
    <3>3. m \in Cov(stream'[s].queue[j - 1])
      BY <1>1, <1>2, <3>2
    <3>. QED  BY <3>2, <3>3 DEF InQueue
  <2>. QED  BY <2>1, <2>2
<1>15. \A i \in DOMAIN stream'[s].queue : \A m \in Reach(s)' + 1 .. stream'[s].queue[i].seq :
         Behind(s, m)' \/ InQueue(s, m, i)'
  <2>. SUFFICES ASSUME NEW i \in DOMAIN Tail(q), NEW m \in stream'[s].cursor + 1 .. q[i + 1].seq
                PROVE  Behind(s, m)' \/ InQueue(s, m, i)'
    BY <1>1, <1>2, <1>5, <1>10
  <2>1. i \in Nat /\ i + 1 \in DOMAIN q /\ q[i + 1].seq \in Nat
    BY <1>2, <1>5, Numbers
  <2>2. m \in Nat /\ m > stream'[s].cursor /\ m \in stream[s].cursor + 1 .. q[i + 1].seq
    BY <1>8, <1>10, <2>1
  <2>3. Behind(s, m) \/ InQueue(s, m, i + 1)
    BY <1>2, <1>10, <2>1, <2>2 DEF Delivery, Gapless
  <2>4. i + 1 \in 1 .. Len(q) /\ (i + 1) - 1 = i
    BY <1>5, <2>1
  <2>5. InQueue(s, m, i + 1) => Behind(s, m)' \/ InQueue(s, m, (i + 1) - 1)'
    BY <1>14, <2>2, <2>4
  <2>. QED  BY <1>12, <2>2, <2>3, <2>4, <2>5
<1>16. stream'[s].open => \A m \in Reach(s)' + 1 .. End(log) :
         Behind(s, m)' \/ InQueue(s, m, Len(stream[s].queue))' \/ m \in InTransit
  <2>. SUFFICES ASSUME stream[s].open, NEW m \in stream'[s].cursor + 1 .. End(log)
                PROVE  Behind(s, m)' \/ InQueue(s, m, Len(stream[s].queue))' \/ m \in InTransit
    BY <1>1, <1>10
  <2>1. m \in Nat /\ m > stream'[s].cursor /\ m \in stream[s].cursor + 1 .. End(log)
    BY <1>8, <1>10
  <2>2. Behind(s, m) \/ InQueue(s, m, Len(q)) \/ m \in InTransit
    BY <1>2, <1>10, <2>1 DEF Delivery, Offered
  <2>3. Len(q) \in 1 .. Len(q) /\ Len(stream'[s].queue) = Len(q) - 1
    BY <1>1, <1>2, <1>5
  <2>4. InQueue(s, m, Len(q)) => Behind(s, m)' \/ InQueue(s, m, Len(q) - 1)'
    BY <1>14, <2>1, <2>3
  <2>. QED  BY <1>12, <2>1, <2>2, <2>3, <2>4
<1>17. 1 .. stream'[s].cursor \subseteq shown'[s] \cup late[s]
  <2>1. 1 .. stream[s].cursor \subseteq shown[s] \cup late[s]
    BY DEF Delivery, SkipsOnlyUnoffered
  <2>2. CASE Skips(s, u) \/ Collects(s, u)
    BY <2>1, <2>2 DEF Skips, Collects
  <2>3. CASE Shows(s, u)
    <3>. SUFFICES ASSUME NEW m \in 1 .. u.seq, m > stream[s].cursor
                  PROVE  m \in shown'[s] \cup late[s]
      BY <1>6, <1>8, <1>11, <2>1, <2>3 DEF Shows
    <3>1. shown'[s] = shown[s] \cup Given(u)
      BY <1>8, <2>3 DEF Shows
    <3>2. Behind(s, m) \/ InQueue(s, m, 1)
      <4>1. m \in Reach(s) + 1 .. stream[s].queue[1].seq
        BY <1>2, <1>3, <1>6, <1>8, <1>10
      <4>. QED  BY <1>2, <1>5, <4>1 DEF Delivery, Gapless
    <3>3. CASE InQueue(s, m, 1)
      BY <1>2, <1>3, <1>7, <3>1, <3>3 DEF InQueue
    <3>4. CASE Behind(s, m)
      <4>1. stream[s].pending # <<>> => stream[s].pending[1].seq \in Given(u)
        BY <1>7, <2>3 DEF Shows, UnitOf
      <4>. QED  BY <3>1, <3>4, <4>1 DEF Behind
    <3>. QED  BY <3>2, <3>3, <3>4
  <2>. QED  BY <1>4, <2>2, <2>3
<1>. QED  BY <1>1, <1>9, <1>15, <1>16, <1>17, OneStream

\* A stream that is over passes over nothing more.
LEMMA CloseDelivers ==
  ASSUME Base, Delivery, Closes
  PROVE  Delivery'
<1>0. /\ log' = log /\ shown' = shown /\ late' = late /\ End(log)' = End(log)
      /\ \A s \in Streams : stream'[s] = stream[s] \/ Ends(s)
  BY DEF Closes
<1>1. SkipsOnlyUnoffered'
  BY <1>0 DEF Delivery, SkipsOnlyUnoffered, Ends
<1>2. CASE UNCHANGED <<writing, reserved, highest>>
  <2>1. FrontierCurrent' /\ ProbeFresh' /\ InTransit' = InTransit
    BY <1>0, <1>2 DEF Delivery, FrontierCurrent, ProbeFresh, Free, Ends, InTransit
  <2>2. \A s \in Streams : stream'[s] = stream[s] =>
          /\ Reach(s)' = Reach(s)
          /\ \A m, n : (Behind(s, m)' <=> Behind(s, m)) /\ (InQueue(s, m, n)' <=> InQueue(s, m, n))
    BY <1>0 DEF Reach, Behind, InQueue
  <2>3. Gapless'
    <3>. SUFFICES ASSUME NEW s \in Streams, NEW i \in DOMAIN stream'[s].queue,
                         NEW m \in Reach(s)' + 1 .. stream'[s].queue[i].seq
                  PROVE  Behind(s, m)' \/ InQueue(s, m, i)'
      BY DEF Gapless
    <3>1. stream'[s] = stream[s]
      BY <1>0 DEF Ends
    <3>2. Behind(s, m) \/ InQueue(s, m, i)
      BY <2>2, <3>1 DEF Delivery, Gapless
    <3>. QED  BY <2>2, <3>1, <3>2
  <2>4. Offered'
    <3>. SUFFICES ASSUME NEW s \in Streams, stream'[s].open, NEW m \in Reach(s)' + 1 .. End(log)
                  PROVE  Behind(s, m)' \/ InQueue(s, m, Len(stream[s].queue))' \/ m \in InTransit
      BY <1>0, <2>1 DEF Offered
    <3>1. stream'[s] = stream[s]
      BY <1>0 DEF Ends
    <3>2. Behind(s, m) \/ InQueue(s, m, Len(stream[s].queue)) \/ m \in InTransit
      BY <2>2, <3>1 DEF Delivery, Offered
    <3>. QED  BY <2>2, <3>1, <3>2
  <2>. QED  BY <1>1, <2>1, <2>3, <2>4 DEF Delivery
<1>3. CASE highest' = Unknown /\ \A s \in Streams : Ends(s)
  <2>1. FrontierCurrent' /\ ProbeFresh'
    BY <1>3 DEF FrontierCurrent, ProbeFresh, Ends
  <2>2. Gapless' /\ Offered'
    BY <1>3 DEF Gapless, Offered, Ends
  <2>. QED  BY <1>1, <2>1, <2>2 DEF Delivery
<1>. QED  BY <1>2, <1>3 DEF Closes

\* After the error of a single event the cached frontier is behind the log, and
\* replays end early; after a log that cannot be read, a stream may store what it
\* read before. SkipsOnlyUnoffered fails then. What follows is about the errors
\* after which the store repairs its frontier.
Repairable == Faults \subseteq {"committed", "settle"}

\* What every append of Next does with the events it writes.
LEMMA RecordAccounts ==
  ASSUME Base, NEW kind \in Kinds, Record(kind)
  PROVE  Accounted(kind)
<1>1. NextGroup(kind) \in GroupSet /\ None \notin GroupSet
  BY NoGroup, NextGroupOk DEF Base
<1>. QED  BY <1>1 DEF Record, Accounted

\* What an append with an error writes is missed by every subscriber.
LEMMA MissedByAll ==
  ASSUME Base, NEW g, Missed(Subscribed, g)
  PROVE  \A s \in Streams : stream[s].open => Seqs(g) \subseteq late'[s]
BY DEF Missed, Subscribed

\* With its error, the frontier is repaired from the log.
LEMMA CommittedErrorAccounts ==
  ASSUME Base, Repairable, NEW fault \in Faults, CommittedError(fault)
  PROVE  Grows("bundle") /\ Accounted("bundle")
<1>1. fault = "committed"
  BY DEF Repairable, CommittedError
<1>2. Grows("bundle")
  BY <1>1, CommittedErrorGrows
<1>3. Missed(Subscribed, NextGroup("bundle")) /\ highest' = End(log')
  BY <1>1 DEF CommittedError, frontierAfter
<1>. QED  BY <1>2, <1>3, MissedByAll DEF Accounted

\* The terminal bundle that cannot be settled moves the frontier first.
LEMMA UnsettledTerminalAccounts ==
  ASSUME Base, UnsettledTerminal
  PROVE  Accounted("terminal")
<1>1. Missed(Subscribed, NextGroup("terminal")) /\ highest' = End(log')
  BY DEF UnsettledTerminal
<1>. QED  BY <1>1, MissedByAll DEF Accounted

\* A staged final is in transit.
LEMMA StageFinalAccounts ==
  ASSUME StageFinal
  PROVE  Accounted("final")
BY DEF StageFinal, Accounted

\* A replay that finds nothing to replay is at the end of the log.
LEMMA ReplaySettles ==
  ASSUME Base, Delivery, NEW s \in Streams,
         \/ Connect(s) \/ HighestSeq(s) \/ HighestSeqRead(s) \/ HighestSeqStore(s)
         \/ Load(s) \/ Heartbeat(s)
  PROVE  Settled(s)
<1>1. stream \in [Streams -> StreamSet] /\ stream[s] \in StreamSet
      /\ highest \in Nat \cup {Unknown} /\ Unknown \notin Nat
      /\ End(log) \in Nat /\ stream[s].cursor \in Nat /\ stream[s].upto \in Nat
  BY Numbers, NoGroup DEF Base, Typed
<1>2. DOMAIN stream[s] = {"phase", "open", "queue", "pending", "cursor", "upto"}
  BY <1>1 DEF StreamSet
<1>3. Compared(s, End(log)).phase = "live" => stream[s].cursor >= End(log)
  BY <1>2 DEF Compared
<1>4. CASE Connect(s)
  <2>1. stream'[s].phase = "replay"
    BY <1>1, <1>2, <1>4 DEF Connect, Set
  <2>. QED  BY <1>4, <2>1 DEF Connect, store, Settled
<1>5. CASE HighestSeq(s)
  <2>1. highest = End(log)
    BY <1>5 DEF HighestSeq, Delivery, FrontierCurrent
  <2>2. stream'[s] = Compared(s, End(log)) /\ highest' = highest
    BY <1>1, <1>5, <2>1 DEF HighestSeq, Set, store
  <2>. QED  BY <1>3, <2>2 DEF Settled
<1>6. CASE HighestSeqRead(s)
  <2>1. stream'[s].phase = "probed"
    BY <1>1, <1>2, <1>6 DEF HighestSeqRead, Set
  <2>. QED  BY <1>6, <2>1 DEF HighestSeqRead, store, Settled
<1>7. CASE HighestSeqStore(s)
  <2>1. stream[s].upto <= End(log)
    BY <1>7 DEF HighestSeqStore, Base, Bounded
  <2>2. highest = Unknown => stream[s].upto = End(log)
    BY <1>7 DEF HighestSeqStore, Delivery, ProbeFresh
  <2>3. highest # Unknown => highest = End(log)
    BY <1>7 DEF HighestSeqStore, Delivery, FrontierCurrent
  <2>4. (IF highest # Unknown /\ highest > stream[s].upto THEN highest ELSE stream[s].upto) = End(log)
    BY <1>1, <2>1, <2>2, <2>3
  <2>5. highest' = End(log) /\ Set(s, Compared(s, End(log)))
    BY <1>7, <2>4 DEF HighestSeqStore
  <2>6. stream'[s] = Compared(s, End(log))
    BY <1>1, <2>5 DEF Set
  <2>. QED  BY <1>3, <2>5, <2>6 DEF Settled
<1>8. CASE Load(s)
  <2>1. stream'[s].phase = "deliver"
    BY <1>1, <1>2, <1>8 DEF Load, Set
  <2>. QED  BY <1>8, <2>1 DEF Load, store, Settled
<1>9. CASE Heartbeat(s)
  <2>1. stream'[s].phase = "replay"
    BY <1>1, <1>2, <1>9 DEF Heartbeat, Set
  <2>. QED  BY <1>9, <2>1 DEF Heartbeat, store, Settled
<1>. QED  BY <1>4, <1>5, <1>6, <1>7, <1>8, <1>9

\* Initially nothing is in the log.
LEMMA DeliveryInit == Init => Delivery
<1>. SUFFICES ASSUME Init PROVE Delivery
  OBVIOUS
<1>1. /\ log = <<>> /\ End(log) = 0 /\ highest = Unknown
      /\ \A s \in Streams : stream[s].phase = "off" /\ stream[s].open = FALSE
                            /\ stream[s].queue = <<>> /\ stream[s].cursor = 0
  BY DEF Init, End, Off
<1>2. FrontierCurrent /\ ProbeFresh
  BY <1>1 DEF FrontierCurrent, ProbeFresh
<1>3. Gapless /\ Offered
  BY <1>1 DEF Gapless, Offered
<1>4. SkipsOnlyUnoffered
  BY <1>1 DEF SkipsOnlyUnoffered
<1>. QED  BY <1>2, <1>3, <1>4 DEF Delivery

\* Every step keeps Delivery, given Base before and after it.
LEMMA DeliveryNext == Repairable /\ Base /\ Base' /\ Delivery /\ [Next]_vars => Delivery'
<1>. SUFFICES ASSUME Repairable, Base, Base', Delivery, [Next]_vars PROVE Delivery'
  OBVIOUS
<1>1. CASE \E kind \in Kinds : Record(kind)
  BY <1>1, RecordGrows, RecordAccounts, GrowDelivers
<1>2. CASE PublishRecorded
  BY <1>2, PublishRecordedPublishes, PublishDelivers
<1>3. CASE \E fault \in Faults : CommittedError(fault)
  BY <1>3, CommittedErrorAccounts, GrowDelivers
<1>4. CASE UnsettledTerminal
  BY <1>4, UnsettledTerminalGrows, UnsettledTerminalAccounts, GrowDelivers
<1>5. CASE \E g \in owed : RetryTerminal(g)
  BY <1>5, RetryTerminalPublishes, PublishDelivers
<1>6. CASE StageFinal
  BY <1>6, StageFinalGrows, StageFinalAccounts, GrowDelivers
<1>7. CASE ActivateAndPublish
  BY <1>7, ActivateAndPublishPublishes, PublishDelivers
<1>8. ASSUME NEW s \in Streams,
             Connect(s) \/ Replay(s) \/ Consume(s) \/ Disconnected(s) \/ Heartbeat(s) \/ Leave(s)
      PROVE  Delivery'
  <2>1. CASE Connect(s)
    BY <2>1, ConnectMoves, ReplaySettles, MoveDelivers
  <2>2. CASE HighestSeq(s) \/ HighestSeqRead(s) \/ HighestSeqStore(s) \/ Load(s) \/ Heartbeat(s)
    BY <2>2, ReplayMoves, ReplaySettles, MoveDelivers
  <2>3. CASE Deliver(s)
    BY <2>3, DeliverDelivers
  <2>4. CASE Revoke(s) \/ Disconnected(s) \/ Leave(s)
    BY <2>4, EndingCloses, CloseDelivers
  <2>5. CASE Consume(s)
    BY <2>5, ConsumeDelivers
  <2>. QED  BY <1>8, <2>1, <2>2, <2>3, <2>4, <2>5 DEF Replay
<1>9. CASE Restart
  BY <1>9, RestartCloses, CloseDelivers
<1>10. CASE UNCHANGED vars
  BY <1>10 DEF vars, store, clients, counts, Delivery, FrontierCurrent, ProbeFresh, Free, Gapless, Offered,
       SkipsOnlyUnoffered, Reach, Behind, InQueue, InTransit
<1>. QED  BY <1>1, <1>2, <1>3, <1>4, <1>5, <1>6, <1>7, <1>8, <1>9, <1>10 DEF Next, Writer

\* Delivery holds throughout.
LEMMA DeliveryAlways == ASSUME Repairable PROVE Spec => []Delivery
<1>1. Init => Delivery
  BY DeliveryInit
<1>2. Base /\ Base' /\ Delivery /\ [Next]_vars => Delivery'
  BY DeliveryNext
<1>. QED  BY <1>1, <1>2, BaseAlways, PTL DEF Spec

\* SkipsOnlyUnoffered, for every number of streams, capacity of a buffer and
\* length of the log: unless an append of one event reports an error, or the log
\* cannot be read after one, a stream passes over no event that it was offered
\* (serveLive in sse/events.go, with publishEventNoLock and
\* BroadcastBundleNoPrefix on the other end of its queue).
THEOREM SkipsExplained == ASSUME Repairable PROVE Spec => []SkipsOnlyUnoffered
<1>1. Delivery => SkipsOnlyUnoffered
  BY DEF Delivery
<1>. QED  BY <1>1, DeliveryAlways, PTL

\* FrontierCurrent, under the same condition: the frontier that the store caches
\* is the end of the log whenever its mutex is free (nextSeqNoLock, HighestSeq
\* and persistRecordedEventsNoLock in durable_event_log.go).
THEOREM FrontierKept == ASSUME Repairable PROVE Spec => []FrontierCurrent
<1>1. Delivery => FrontierCurrent
  BY DEF Delivery
<1>. QED  BY <1>1, DeliveryAlways, PTL
=============================================================================
