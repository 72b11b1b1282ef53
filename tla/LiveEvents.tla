------------------------------ MODULE LiveEvents ------------------------------
(***************************************************************************)
(* The events of one thread on their way to the clients.                   *)
(*                                                                         *)
(* Writers hold the mutex of the store (server/durable_event_log.go): they *)
(* take the next sequence from a cached frontier, append to the event log, *)
(* and publish to the buffered queue of every subscriber. An accepted      *)
(* final is appended under a reservation and published later. A stream     *)
(* (adapters/inbound/sse/events.go) subscribes, replays the log from its   *)
(* cursor, and then takes events from its queue; on a heartbeat it replays *)
(* again. Streams read the log without the mutex.                          *)
(*                                                                         *)
(* The log itself is the one EventLog models: an append is one step, and   *)
(* refuses events that do not extend its own frontier.                     *)
(***************************************************************************)
EXTENDS Naturals, Sequences, FiniteSets, SequencesExt, FiniteSetsExt

CONSTANTS
  Streams,      \* the event streams of the thread
  Cap,          \* the buffer of a subscription (1024)
  SnapLimit,    \* replayed units beyond which a snapshot is asked for (1024)
  Faults,       \* the errors that appends may report
  MaxLog,       \* bound: events in the log
  MaxFaults,    \* bound: appends that report an error
  MaxConnects,  \* bound: connections each client makes
  MaxRestarts,  \* bound: restarts of the runtime
  Unknown,      \* the frontier is not cached
  None          \* no group

ASSUME FaultAssumption == Faults \subseteq {"committed", "unread", "single", "settle"}
ASSUME BoundAssumption ==
  {Cap, SnapLimit, MaxLog, MaxFaults, MaxConnects, MaxRestarts} \subseteq Nat

VARIABLES
  log,       \* the groups of events appended, each [kind, first, last]
  highest,   \* highestSeqByThread: the cached frontier
  writing,   \* the group whose writer holds the mutex, appended but not published
  reserved,  \* the accepted final that is staged and not yet published
  owed,      \* terminal bundles in the log whose publication failed
  stream,    \* stream[s]: phase, subscription, replay and cursor of stream s
  shown,     \* history: the events client s was given
  late,      \* history: the events stream s was not offered when they were appended
  faults, connects, restarts  \* counted up to their bounds

counts == <<faults, connects, restarts>>
store == <<log, highest, writing, reserved, owed>>
clients == <<stream, shown>>
vars == <<store, clients, late, counts>>

-----------------------------------------------------------------------------
(* Groups of events *)

Kinds == {"event", "bundle", "terminal", "final"}
Size(kind) == IF kind = "event" THEN 1 ELSE 2

\* Neither is a sequence number or a group.
ASSUME ValueAssumption ==
  Unknown \notin Nat /\ None \notin [kind : Kinds, first : Nat, last : Nat]

Seqs(g) == g.first .. g.last
End(groups) == IF groups = <<>> THEN 0 ELSE Last(groups).last
NextGroup(kind) == [kind |-> kind, first |-> End(log) + 1, last |-> End(log) + Size(kind)]
Groups == ToSet(log)

\* What a publication enqueues: the events of a group one by one, and an
\* accepted final as one batch.
Units(g) ==
  IF g.kind = "final" THEN <<[group |-> g, seq |-> g.last]>>
                      ELSE [i \in 1 .. Size(g.kind) |-> [group |-> g, seq |-> g.first + i - 1]]

\* The delivery units of the events in (from, upto].
UnitsBetween(from, upto) ==
  {u \in UNION {ToSet(Units(g)) : g \in Groups} : u.seq > from /\ u.seq <= upto}

Off == [phase |-> "off", open |-> FALSE, queue |-> <<>>, pending |-> <<>>, cursor |-> 0, upto |-> 0]

Init ==
  /\ log = <<>>
  /\ highest = Unknown
  /\ writing = None
  /\ reserved = None
  /\ owed = {}
  /\ stream = [s \in Streams |-> Off]
  /\ shown = [s \in Streams |-> {}]
  /\ late = [s \in Streams |-> {}]
  /\ faults = 0 /\ connects = [s \in Streams |-> 0] /\ restarts = 0

-----------------------------------------------------------------------------
(* Publication *)

Free == writing = None
Subscribed == {s \in Streams : stream[s].open}

Room(s) == Cap - Len(stream[s].queue)

\* One event: a subscriber whose buffer is full does not get it.
\* Several, or a batch: such a subscriber is disconnected instead.
\* Mutant: room for the first unit is taken for room for all of them.
fitsFirst(s, g) == Room(s) >= 1
fits(s, g) == Room(s) >= Len(Units(g))

BroadcastOne(g) == stream' =
  [s \in Streams |-> IF s \in Subscribed /\ fits(s, g)
                       THEN [stream[s] EXCEPT !.queue = @ \o Units(g)] ELSE stream[s]]

BroadcastBundleNoPrefix(g) == stream' =
  [s \in Streams |->
     CASE s \notin Subscribed -> stream[s]
       [] s \in Subscribed /\ ~fits(s, g) -> [stream[s] EXCEPT !.open = FALSE]
       [] OTHER -> [stream[s] EXCEPT !.queue = @ \o Units(g)]]

Publish(g) == IF g.kind = "event" THEN BroadcastOne(g) ELSE BroadcastBundleNoPrefix(g)

\* The events of g were not offered to the streams in S when they became durable.
Missed(S, g) == late' = [s \in Streams |-> IF s \in S THEN late[s] \cup Seqs(g) ELSE late[s]]

-----------------------------------------------------------------------------
(* Writers *)

\* The sequence a writer allocates from; a terminal bundle reads the log instead.
Cached == IF highest = Unknown THEN End(log) ELSE highest
Frontier(kind) == IF kind = "terminal" THEN End(log) ELSE Cached

\* Mutant: a record does not look at the reservation.
MayAppendUnreserved(kind) == Free /\ End(log) + Size(kind) <= MaxLog /\ Frontier(kind) = End(log)
MayAppend(kind) ==
  /\ Free
  /\ reserved = None
  /\ Frontier(kind) = End(log)
  /\ End(log) + Size(kind) <= MaxLog

Fails(kind) == kind \in Faults /\ faults < MaxFaults /\ faults' = faults + 1 /\ UNCHANGED <<connects, restarts>>

\* An append that succeeds; its writer keeps the mutex until it has published.
Record(kind) ==
  /\ kind # "final"
  /\ MayAppend(kind)
  /\ log' = Append(log, NextGroup(kind))
  /\ writing' = NextGroup(kind)
  /\ highest' = IF kind = "terminal" THEN highest ELSE Cached
  /\ UNCHANGED <<reserved, owed, clients, late, counts>>

\* The frontier is cached, the events are published, the mutex is released.
PublishRecorded ==
  /\ ~Free
  /\ highest' = writing.last
  /\ writing' = None
  /\ Publish(writing)
  /\ Missed(IF writing.kind = "event" THEN {s \in Subscribed : ~fits(s, writing)} ELSE {}, writing)
  /\ UNCHANGED <<log, reserved, owed, shown, counts>>

\* The error of an append that took place: nothing is published. An atomic
\* append repairs the cached frontier from the log, or forgets it if the log
\* cannot be read; the append of one event leaves it as it was.
frontierAfter(fault) ==
  CASE fault = "committed" -> End(log')
    [] fault = "unread" -> Unknown
    [] fault = "single" -> Cached

CommittedError(fault) ==
  /\ Fails(fault)
  /\ fault # "settle"
  /\ LET kind == IF fault = "single" THEN "event" ELSE "bundle"
     IN /\ MayAppend(kind)
        /\ log' = Append(log, NextGroup(kind))
        /\ Missed(Subscribed, NextGroup(kind))
  /\ highest' = frontierAfter(fault)
  /\ UNCHANGED <<writing, reserved, owed, clients>>

\* A terminal bundle is appended, but its derived state cannot be settled.
UnsettledTerminal ==
  /\ Fails("settle")
  /\ MayAppend("terminal")
  /\ log' = Append(log, NextGroup("terminal"))
  /\ highest' = End(log')
  /\ owed' = owed \cup {NextGroup("terminal")}
  /\ Missed(Subscribed, NextGroup("terminal"))
  /\ UNCHANGED <<writing, reserved, clients>>

\* The bundle is recorded again: it is found in the log and published.
RetryTerminal(g) ==
  /\ Free
  /\ reserved = None
  /\ g \in owed
  /\ owed' = owed \ {g}
  /\ highest' = End(log)
  /\ Publish(g)
  /\ UNCHANGED <<log, writing, reserved, shown, late, counts>>

\* An accepted final is appended under its reservation.
StageFinal ==
  /\ MayAppend("final")
  /\ log' = Append(log, NextGroup("final"))
  /\ highest' = End(log')
  /\ reserved' = NextGroup("final")
  /\ UNCHANGED <<writing, owed, clients, late, counts>>

\* Its projection is activated and its batch published.
ActivateAndPublish ==
  /\ Free
  /\ reserved # None
  /\ Last(log) = reserved
  /\ highest' = reserved.last
  /\ reserved' = None
  /\ Publish(reserved)
  /\ UNCHANGED <<log, writing, owed, shown, late, counts>>

-----------------------------------------------------------------------------
(* Streams *)

Set(s, r) == stream' = [stream EXCEPT ![s] = r]

\* The client connects with the last sequence it has; the subscription comes
\* first, then the replay. (The cursor is the client's, and outlives streams.)
Connect(s) ==
  /\ Free
  /\ stream[s].phase = "off"
  /\ connects[s] < MaxConnects
  /\ connects' = [connects EXCEPT ![s] = @ + 1]
  /\ Set(s, [stream[s] EXCEPT !.phase = "replay", !.open = TRUE])
  /\ late' = [late EXCEPT ![s] = @ \cap (1 .. stream[s].cursor)]
  /\ UNCHANGED <<store, shown, faults, restarts>>

\* With n the highest sequence there is nothing to replay, or the log is loaded.
Compared(s, n) == [stream[s] EXCEPT !.phase = IF stream[s].cursor >= n THEN "live" ELSE "load"]

HighestSeq(s) ==
  /\ stream[s].phase = "replay"
  /\ Free
  /\ highest # Unknown
  /\ Set(s, Compared(s, highest))
  /\ UNCHANGED <<store, shown, late, counts>>

\* The frontier is not cached: it is read from the log without the mutex,
\* and cached afterwards.
HighestSeqRead(s) ==
  /\ stream[s].phase = "replay"
  /\ Free
  /\ highest = Unknown
  /\ Set(s, [stream[s] EXCEPT !.phase = "probed", !.upto = End(log)])
  /\ UNCHANGED <<store, shown, late, counts>>

HighestSeqStore(s) ==
  /\ stream[s].phase = "probed"
  /\ Free
  /\ LET n == IF highest # Unknown /\ highest > stream[s].upto THEN highest ELSE stream[s].upto
     IN /\ highest' = n
        /\ Set(s, Compared(s, n))
  /\ UNCHANGED <<log, writing, reserved, owed, shown, late, counts>>

\* The log is read without the mutex.
Load(s) ==
  /\ stream[s].phase = "load"
  /\ Set(s, [stream[s] EXCEPT !.phase = "deliver", !.upto = End(log)])
  /\ UNCHANGED <<store, shown, late, counts>>

Closed(s, reason) == [Off EXCEPT !.cursor = stream[s].cursor, !.phase = reason]

\* The replayed events are delivered, or a snapshot is asked for if there are
\* too many; what was collected of a live terminal bundle is forgotten.
\* Mutant: it is kept.
afterReplayKeeping(s) == [stream[s] EXCEPT !.phase = "live", !.cursor = stream[s].upto]
afterReplay(s) == [stream[s] EXCEPT !.phase = "live", !.cursor = stream[s].upto, !.pending = <<>>]

\* A staged final among them has no seal yet. Mutant: it is not asked for one.
unsealedNever(s) == FALSE
Unsealed(s) == reserved # None /\ reserved.last \in stream[s].cursor + 1 .. stream[s].upto

Deliver(s) ==
  /\ stream[s].phase = "deliver"
  /\ ~Unsealed(s)
  /\ Set(s, afterReplay(s))
  /\ LET from == IF Cardinality(UnitsBetween(stream[s].cursor, stream[s].upto)) > SnapLimit
                   THEN 1 ELSE stream[s].cursor + 1
     IN shown' = [shown EXCEPT ![s] = @ \cup (from .. stream[s].upto)]
  /\ UNCHANGED <<store, late, counts>>

\* A staged final has no seal yet: the stream is told that the projection is
\* revoked, and ends.
Revoke(s) ==
  /\ Free
  /\ stream[s].phase = "deliver"
  /\ Unsealed(s)
  /\ Set(s, Closed(s, "revoked"))
  /\ UNCHANGED <<store, shown, late, counts>>

\* The next unit of the queue. What the cursor has passed is skipped; the
\* events of a terminal bundle are collected and delivered together.
Skip(s, u) == u.seq <= stream[s].cursor
Completes(s) == Len(stream[s].pending) + 1 = Size("terminal")
Mixes(s, u) ==
  /\ stream[s].pending # <<>>
  /\ u.group # stream[s].pending[1].group

Consume(s) ==
  /\ stream[s].phase = "live"
  /\ stream[s].queue # <<>>
  /\ LET u == Head(stream[s].queue)
         rest == [stream[s] EXCEPT !.queue = Tail(@)]
         got == IF u.group.kind \in {"terminal", "final"} THEN Seqs(u.group) ELSE {u.seq}
     IN CASE Skip(s, u) ->
               Set(s, rest) /\ UNCHANGED shown
          [] ~Skip(s, u) /\ Mixes(s, u) ->
               Free /\ Set(s, Closed(s, "mixed")) /\ UNCHANGED shown
          [] ~Skip(s, u) /\ ~Mixes(s, u) /\ u.group.kind = "terminal" /\ ~Completes(s) ->
               Set(s, [rest EXCEPT !.pending = Append(@, u)]) /\ UNCHANGED shown
          [] OTHER ->
               /\ Set(s, [rest EXCEPT !.cursor = u.seq, !.pending = <<>>])
               /\ shown' = [shown EXCEPT ![s] = @ \cup got]
  /\ UNCHANGED <<store, late, counts>>

\* The subscription was closed and its queue is drained: the stream ends.
Disconnected(s) ==
  /\ stream[s].phase = "live"
  /\ ~stream[s].open
  /\ stream[s].queue = <<>>
  /\ Set(s, Closed(s, IF stream[s].pending = <<>> THEN "off" ELSE "mixed"))
  /\ UNCHANGED <<store, shown, late, counts>>

\* Mutant: the heartbeat is only written to the client.
HeartbeatOnly(s) ==
  /\ stream[s].phase = "live"
  /\ UNCHANGED vars
\* The heartbeat replays from the cursor.
Heartbeat(s) ==
  /\ stream[s].phase = "live"
  /\ Set(s, [stream[s] EXCEPT !.phase = "replay"])
  /\ UNCHANGED <<store, shown, late, counts>>

\* The client goes away, or the replay reports an error.
Leave(s) ==
  /\ Free
  /\ stream[s].phase # "off"
  /\ Set(s, Closed(s, "off"))
  /\ UNCHANGED <<store, shown, late, counts>>

\* The runtime restarts: streams, cache and reservations are gone; a staged
\* final is seeded as published from its durable authority before streams open.
Restart ==
  /\ restarts < MaxRestarts
  /\ restarts' = restarts + 1
  /\ highest' = Unknown
  /\ writing' = None
  /\ reserved' = None
  /\ owed' = {}
  /\ stream' = [s \in Streams |-> Closed(s, "off")]
  /\ UNCHANGED <<log, shown, late, faults, connects>>

-----------------------------------------------------------------------------
Writer ==
  \/ \E kind \in Kinds : Record(kind)
  \/ PublishRecorded
  \/ \E fault \in Faults : CommittedError(fault)
  \/ UnsettledTerminal
  \/ \E g \in owed : RetryTerminal(g)
  \/ StageFinal \/ ActivateAndPublish

Replay(s) == HighestSeq(s) \/ HighestSeqRead(s) \/ HighestSeqStore(s) \/ Load(s) \/ Deliver(s) \/ Revoke(s)

Next ==
  \/ Writer
  \/ \E s \in Streams : Connect(s) \/ Replay(s) \/ Consume(s) \/ Disconnected(s) \/ Heartbeat(s) \/ Leave(s)
  \/ Restart

Spec == Init /\ [][Next]_vars

\* A writer that holds the mutex publishes and lets go, a replay that runs goes
\* on, and the heartbeat ticks.
Fairness ==
  /\ WF_vars(PublishRecorded)
  /\ \A s \in Streams : WF_vars(Replay(s)) /\ WF_vars(Heartbeat(s))

FairSpec == Spec /\ Fairness

-----------------------------------------------------------------------------
(* Properties *)

Phases == {"off", "replay", "probed", "load", "deliver", "live", "revoked", "mixed"}

\* The types. A queue never outgrows its buffer: the publisher would wait for
\* the client with the mutex of the store in its hands.
TypeOK ==
  /\ \A i \in DOMAIN log : log[i].kind \in Kinds /\ End(SubSeq(log, 1, i - 1)) + 1 = log[i].first
  /\ highest \in 0 .. End(log) \cup {Unknown}
  /\ writing \in Groups \cup {None} /\ reserved \in Groups \cup {None}
  /\ owed \subseteq Groups
  /\ \A s \in Streams :
       /\ stream[s].phase \in Phases
       /\ stream[s].cursor \in 0 .. End(log)
       /\ Len(stream[s].queue) <= Cap
       /\ shown[s] \cup late[s] \subseteq 1 .. End(log)

\* A stream passes over no event that it was offered: what lies below the
\* cursor of a client and was not given to it was dropped by a full buffer, or
\* belongs to an append that reported an error.
SkipsOnlyUnoffered ==
  \A s \in Streams : 1 .. stream[s].cursor \subseteq shown[s] \cup late[s]

\* A terminal bundle and an accepted final reach a client whole or not at all,
\* and no stream is revoked over a bundle it met in pieces, although the queue
\* holds its events one by one and heartbeats replay between them.
BundleWhole ==
  \A s \in Streams :
    /\ stream[s].phase # "mixed"
    /\ \A g \in Groups : g.kind \in {"terminal", "final"} =>
         Seqs(g) \subseteq shown[s] \/ Seqs(g) \cap shown[s] = {}

\* Nobody sees an accepted final before it is published.
FinalWithheld ==
  \A s \in Streams : reserved = None \/ Seqs(reserved) \cap shown[s] = {}

\* When no writer holds the mutex, the cached frontier is the end of the log:
\* otherwise every later record of the thread is refused, and replays end early.
FrontierCurrent == Free => highest \in {Unknown, End(log)}

\* A stream that stays reaches the end of the log, even when the last event was
\* dropped by its full buffer.
CatchesUp ==
  \A s \in Streams :
    []<>(stream[s].phase \in {"off", "revoked"} \/ stream[s].cursor = End(log))
=============================================================================
