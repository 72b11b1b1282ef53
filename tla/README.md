# Analytix Go runtime: TLA+ verification

Analytix is a desktop agent platform. Its production core is the Go runtime in
`src/packages/runtime-go/internal`: it runs the turns of agent threads, asks users for approvals
and input, guards every effect of a turn by a frozen security context, and publishes terminal
states durably. This directory models the concurrent core of that runtime in TLA+, checks the
models with TLC on small instances and proves the central invariants with TLAPS.

## 1. Inventory

The runtime is hexagonal: `domain/*` holds values and validation, `ports/*` interfaces, `app/*` the
use cases, `adapters/*` files, processes and HTTP clients, `server` wires everything and exposes
HTTP. Almost all of its lines are validation, canonical encoding and protocol code that is
sequential per call. What is hard is the small part that many goroutines share:

| part | state | operations | who calls it |
| --- | --- | --- | --- |
| effect gate (`app/effectgate/gate.go`) | reader and writer counts and reservations per workspace and thread key; a lease with a reference count in each context | acquire an effect, nested effect, metadata read; transition of a context or scope, delegated child transition, workspace rebind, each with or without a barrier | every effect of a turn; every security transition |
| turn controller (`app/control/service.go`, `auxiliary.go`, `turn_execution_owner.go`) | owners, cancel and interrupt reservations, terminal claims, steering counts, transitions, auxiliary operations, preparations, operation count, shutdown and maintenance flags; one lock, one broadcast channel | begin/finish operation, register/release owner, acquire/release terminal, reserve steering, interrupt, transition, auxiliary operation, shutdown, maintenance | turn start, steering, interrupt, resumption, loop, host code, shutdown |
| gate registry (`app/control/gates.go`) | reserved and pending approvals and inputs, continuation claims, terminal claims, a monotonic token | reserve, activate, claim, commit, promote, drain, restore, resolve | loop (opens gates), HTTP responses, terminal and shutdown code |
| security transition (`app/subagent/security_transition.go`) | the transition that is open | begin with barrier, commit, abort | turn start, compaction, workspace change |
| terminal publication (`app/turnterminal`, `app/evidence/case_boundary_completion.go`) | private finals, terminal intents, provider closures, public turns, dispositions; each store durable on its own | prepare a final, commit it through the five records, classify and resume at startup | loop, interrupt, failing start, startup |
| continuations, pending work (`app/gatecontinuation`, `app/pendingwork`) | durable journals and records | claim, resume, settle, recover at startup | gate responses, loop, startup |
| steering queue (`app/steering`, `domain/steering`, `server/durable_steering.go`, `app/subagent/steer.go`) | durable entries of a turn and their status; the messages in a job's record | admit a draft, a late reply or a job's message, withdraw, promote a prefix, settle, cancel with the turn | HTTP, parent agent, loop, startup |
| subagent jobs (`jobs`, `app/subagent`) | child run records, start claims, pending steers | start, steer, complete, receipts | tools, startup |
| event log (`adapters/outbound/eventlog`) | per thread one file of lines, a candidate and two kinds of journal beside it | append one event in place, append a bundle by replacement, recover, read | event recording |
| events (`app/eventrecording`, `server/durable_event_log.go`, `adapters/outbound/liveevents`, `adapters/inbound/sse`) | cached frontier per thread, staged finals, subscriber buffers, one cursor per stream | record, stage, publish, subscribe, replay, heartbeat | everything that has something to tell; clients |

Interaction, for one turn: **turn start** begins an operation in the controller, prepares the
foreground (cancels and waits for the thread's auxiliary operation), registers the execution, then
reserves a thread transition and takes the effect gate's writer with a barrier that cancels and
waits for the thread's other executions, and for no other call. The **loop** takes an effect lease around
each effect. At its end it claims the terminal state, promotes the steering admitted before the claim and either
publishes or, with new steering, gives the claim back; a tool that asks the user ends the execution without
a terminal, and the answer starts another one. **Steering** takes an effect lease on the request's context
and then an admission; **interrupts** reserve the terminal state, drain steering, cancel, wait; **host code**
publishes fixed terminals for drained gates. The lock order of the repository is effect gate before
controller (`service.go:321-325`).

What is hard: the two ends of every arbitration are goroutines with no common stack; every wait can
be abandoned; the gate's fairness towards writers makes lock cycles; the controller's waiters share
one channel; a context is read at one time and used at another. PROJECT.json lists the hazards by
line. Per component, what makes it correct:

* gate: live effects and transitions of one scope exclude each other, nested effects included;
  counters are exact after any cancellation; nobody waits in a circle;
* controller: one publisher of a thread's terminal state, after all admitted steering; a transition,
  shutdown or maintenance window finds what it claims to find; no lost wake-up, no stale reservation;
* registry: one live claim per gate, no stale token ever commits, a drained gate is restored or
  committed, never both;
* terminal publication: one final per turn, its records in order, and every prepared one finished by the
  next start whatever the crash cut;
* event log: a batch whole or not at all across crashes and power losses, true answers, and a log that
  always opens again;
* live events: a stream passes over nothing that it was offered, shows bundles whole and finals only once
  they are published, and reaches the end of the log;
* continuation and pending work: at-most-once effects across a crash at any point;
* steering queue: an admitted message is promoted once and in order, withdrawn, or cancelled with the
  turn; the next provider call shows every ordinary message that was promoted, and a protected one (on case
  data) unless ordinary work was promoted after it or its source was lost; the verdict in a job's record is
  true and final;
* jobs: one start per child, one completion receipt.

## 2. Modules

| module | models | size of state |
| --- | --- | --- |
| `EffectGate` | `effectgate/gate.go`, whole file, and the barrier the server passes to it | per call: phase, keys wanted, held and reserved, lease |
| `ScopeLockTable` | the abstract promise of the gate: per key, a set of readers or one writer | |
| `MCEffectGate` | instances for TLC | |
| `EffectGateProofs` | inductive invariant, refinement and theorems | |
| `TurnController` | `control/service.go`, `auxiliary.go`, `turn_execution_owner.go`, and the callers' protocol | one program counter per goroutine |
| `MCTurnController` | instances for TLC | |
| `TurnControllerProofs` | inductive invariant and theorems | |
| `GateRegistry` | `control/gates.go`: requests, claims, drains of approvals and user inputs | per gate id: record, request, binding, claim |
| `GateLifecycle` | the abstract promise of the registry: the life of one gate | one stage per gate |
| `MCGateRegistry` | instances for TLC | |
| `GateRegistryProofs` | inductive invariant, refinement and theorems | |
| `EventLog` | `eventlog/store.go` and its two journals, over a disk that can lose power | files, directory, the directories the medium may hold; one program counter |
| `AppendLog` | the abstract promise of the log: batches, answers, what is firm | |
| `MCEventLog` | instance for TLC | |
| `EventLogProofs` | inductive invariant, refinement and theorems | |
| `LiveEvents` | `durable_event_log.go`, terminal outbox, staged finals, broadcast, the SSE stream | the log, the cached frontier, per stream a cursor and a buffer |
| `MCLiveEvents` | instances for TLC | |
| `LiveEventsProofs` | two inductive invariants and theorems | |
| `TerminalCommit` | `turnterminal/coordinator.go` and `recovery.go`, the private admission, the start | five stores, one program counter per final |
| `TurnDecision` | the abstract promise of the terminal transaction: per turn an owner and a stage | |
| `MCTerminalCommit` | instance for TLC | |
| `TerminalCommitProofs` | inductive invariant, refinement and theorems | |
| `SteeringQueue` | `app/steering`, `domain/steering/turn.go`, `durable_steering.go`, `app/subagent/steer.go`, the record's part in `jobs/lineage.go`, the loop's boundaries, the check of the start | per turn its entries and items, a job's record, a program counter per sender and one for the loop |
| `TurnQueue` | the abstract promise of steering: per turn a queue, per job message a verdict | |
| `MCSteeringQueue` | instance for TLC | |
| `SteeringQueueProofs` | inductive invariant, refinement and theorems | |
| `Subsequences` | `Among`: the entries of a sequence that belong to a set | |
| `SubsequencesProofs` | the laws of `Among` | |

### EffectGate

A *call* (`ReadReq`, `WriteReq`) is one goroutine that calls one of the gate's operations once: its kind
(`op`), the keys it wants, has still to lock, holds and has reserved (`scope`, `todo`, `held`, `resv`), its
context and the call whose lease it borrows (`parent`). Each action is one critical section of `scopeLock`
or one lease operation: `acquireRead`, `reserveWrite`, `acquireReservedWrite`, `releaseLock`, `retain`,
`releaseReference`. A waiter that is refused stays where it is and may `GiveUp` at any time, as the code's
`ctx.Done()` branch. A barrier is modelled by what it does to the gate
(`quiesceRuntimeThread`): it cancels the calls of the registered executions of the thread (`Executions`,
`BarrierCancel`) and returns when their effects are gone (`BarrierReturn`), or fails. `Executions` says which
read calls those are; all the others are neither cancelled nor waited for: metadata reads, the effect of a
steering request, which is leased on the HTTP request's context (`turn_routes.go:109`) before the request is admitted
(`:139`), and effects of auxiliary operations. The lock table is four counters
per key, as in the code; the holders are recovered from the calls, and `CountersExact` says both agree.
`ScopeLockTable` knows only holders, and `ImplementsTable` is the refinement.

`Discipline` switches the host's preconditions on: no effect of an execution starts on a thread whose barrier
has cancelled its turns, nesting follows the tree of child threads, a delegated child transition is for a
thread that runs no effect yet. The progress runs need them; the safety runs do without, which is
stronger. `MetadataContexts` says which contexts read metadata scopes.

### TurnController

A process is one goroutine in one role: `Starts` (SendTurn), `Resumptions` (RunRegisteredTurn),
`Steers`, `Interrupts`, `Transitions`, `Auxiliaries`, `Closers` (host code with a fixed terminal). The
variables of the first group are the fields of `Controller`, with sets for the maps that have no
value and functions for the others; `turnCancels` and `turnOwners` change together and are one
variable. The second group is what the goroutines remember: `turn`, `thread`, `target` (cancel functions
captured under the lock and called after it), `prepared`, `cancelled`. One action is one critical
section. The outcome of the loop (`queued` steering or not) and of the store is nondeterministic.

`turnStateChanged` is modelled exactly as a channel that is closed and replaced: a waiter that finds
its condition false has read the current channel and is in `asleep`; `notify` empties `asleep`. A
change that forgets to notify, or a waiter that reads the channel too late, is then a lost wake-up
that `WaitersSettle` sees. The cancelling pass of a transition reads the channel before it calls the
cancel functions, so `m` is asleep while it still cancels.

A shutdown is three steps: it reserves every owner, cancels those it may and waits for the operations. It is tried again when it missed its deadline or one of the later stages of the host's shutdown
failed; meanwhile goroutines of the first attempt go on.

The context digest of a claim is left out: every turn has one frozen context, so that two claims of a
turn never differ in it. A goroutine makes one call, so a stale token is never presented.

### GateRegistry

The variables are the registry's maps: `records`, `reserved` and `pending` by kind and gate id (a pair
of maps each in the code), `producers`, `continuation`, `terminal` and `nextClaimToken`. Every method
holds the mutex from beginning to end, so one method is one action, and all that can be stale is what
callers keep between calls: an observed admission (`observed`), a claim, a drained batch. A claim is
presented by its token and disposition, a batch by tokens and intents; any token given out so far may be
presented at any time, by a holder whose claim is long gone too, which is every state a delayed
continuation, a repeated interrupt and a shutdown can be in. A presented claim that was never given out
is refused at its token and changes nothing. A drain gives its new claims tokens in the order the maps
are walked: the model takes every order.

`born` counts the reservations of an id, `committed` and `discarded` collect the tokens that ended; they
are history and no guard but the bound `MaxBorn` reads them. `Records` stand for the fields of a
`GateRecord` (thread, turn, item, wording), and `Scopes` are the sets of records that a turn, a thread or
everything drains, so that a thread id is never compared character by character.

`GateLifecycle` knows one stage per gate: absent, reserved, executable, claimed, terminal, settled.
`stageOf` maps the maps to it, and `ImplementsLifecycle` says that a gate is executable only after it was
reserved, claimed only when executable, and after a claim or a drain never again without being deleted
and asked anew.

### EventLog

One thread's directory. A file is an inode with what was written (`cache`) and what was synced (`disk`);
the directory binds names to inodes (`dir`), and `medium` is the set of directories the medium may hold: the
one last synced and every one an update has made since. `Crash` stops the process and keeps everything
written; `PowerLoss` leaves one directory of `medium` and, of each file, the synced bytes, the written ones
or the synced ones with a torn piece of the next line. `Inodes` bounds the files that exist at a time; when
all are in use a creation waits. That updates of one directory reach the disk in order is the assumption of the
model (journaling file systems keep it). Without it a finished bundle journal can come back beside the
next transaction's files, since its removal is not synced, and recovery refuses the pair as mixed.

A line is a *frame* (call, part, whole or torn), a journal body is the frontier before and after. One
action is one system call of `appendSingleEventAtomic`, `appendEventsAtomic` or of the recovery that runs
first in every append and read, in the order of the code; `CallFails`, `ShortWrite` and `ReplaceFails` are
their error returns. The candidate is created and filled in one step; the thread's directory itself is
durable; the sequence guard holds by construction, since calls are numbered; the rename of Windows is
not modelled. `AppendLog` is the promise: a batch is visible whole or not at all, an answer of success is firm,
a failure never shows up later, `committed` means that the batch is there. What the promise leaves open is
what the code leaves open: a reader can be shown a batch that power loss still takes back (recovery
removes a bundle's journal before it syncs the directory), and two failing calls in a row can let a
replaced bundle be reported as failed: the bound `MaxFaults = 1` keeps that out, and section 5 proves that it
is the only departure from the promise.

### LiveEvents

One thread's log is a sequence of *groups*: an event, a terminal bundle of two, an accepted final of two
(`EventLog` shows that an append is atomic, here it is one step). `highest` is the cached frontier or
unknown, `writing` the writer between its append and its publication, `reserved` the staged final. A stream
has a subscription with a buffer of `Cap`, a cursor, what it has collected of a bundle and what it replays;
its replay reads in two steps (`HighestSeqRead`, `HighestSeqStore`) because the frontier is compared
without the store's mutex. Faults are errors after a commit: of a single event, a bundle, a bundle that
cannot be read back, and a settlement that fails. `shown` and `late` are history. Not modelled: raw line
appends, message feedback, forks, compaction events, the public projection of an event; `pendingEvents`
is never filled in production.

### TerminalCommit

An *attempt* is a final and a program counter. Before the transaction the final is built and admitted
(`AdmitPrivateFinal`: one per turn); the transaction itself is one action per store, under the
coordinator's mutex. A store write is `ok`, `lost` or `late` (it took effect and reports an error). The public
compare-and-set is the one write whose error does not count by itself: the turn is read back. `Recover` is
the classification of the start, as one action because it writes nothing: what no cut transaction
leaves (`Orphan`, `Detached`, `DetachedBoundary`, `Historical`) refuses the start, a boundary final that is
not complete is resumed through the same transaction, a final that states facts is only audited. Then a
turn that is still active is ended by a final of the start (`AbortStale`). A turn's context is
identified with the turn, and it advances when the next turn starts; signatures, witnesses and manifests
are valid. `TurnDecision` is the promise: a turn has one owner, and its stage goes up by one record at a time.

### SteeringQueue

One thread, whose first turn is the turn of a job. `turns` is the thread's store and `job` the record of the
job: two files that are written one after the other. A *message* is what one client id stands for, and a call
that sends it goes through `sender`. A draft is admitted once per turn (`AdmitDraft`); a late reply is looked
for in every turn, since its question takes one attempt at a time (`Free`), and may be withdrawn while it is
pending (`DiscardReply`). A job's message is queued in the record under the authority of the record as the
call saw it (`MayQueue`, `seen`), then admitted to the turn; before the first turn it is only queued, while
the call holds the boundary that the start waits for (`ReserveBeforeTurn`, `StartTurn`), and the prepared
turn binds and admits it (`LoadSteers` to `Prepared`). When the admission reports an error, which it may do
after it wrote, the message is rejected in the record (`RejectSteer`).

The loop (`loop`: a program counter `pc`, the claim, the batch in hand, the conversation `chat`) reads the
pending entries, validates the job's messages against the record, promotes the prefix it
read if it is still the front of what is pending (`IsCurrent`), settles the record and puts the batch into the
conversation (`Give`): five steps with anything in between. It does so before a provider call and again under the
claim of a candidate, or of a tool that ends the turn; that claim it gives back when there was something. A batch
that is stale twice in a row is an error.

The conversation does not only grow. `chat.talk` is what the next provider call shows of the steering, `chat.lane`
the part that is ordinary work (`ordinaryLaneMessages`). An ordinary batch goes on from the lane and leaves
behind what was said on case data since (`Isolated`, `runtime_runner.go:483-493`); a protected one is added
(`Added`). A protected message that was promoted under a claim is therefore never shown when an ordinary one
is read before the next call. When the source of case data is lost, before a call or at a tool (`LoseSource`), the
step goes on from the lane with the ordinary part of its batch, if it has one; the model takes any part. `given`
records what a call shows (`CallProvider`), which a step on case data without its source never does.

A turn can run without an execution at work (`Idle`). A tool asks for an approval or an input: the execution
returns `Paused` (`AskUser`), the turn stays running and steerable, and only the user's answer goes on
(`Answer`), with the conversation that was kept and a lane that is rebuilt from it. The parent of a job holds its
turn (`HoldJob`, `ReleaseJob`). The terminal write fails, and so does the record of the failure (`PublishFails`,
`turn_start.go:922-926`): nothing in this process but an interrupt ends such a turn. The boundary answer before the
first provider call (`runtime_runner.go:379-384`) and the fixed answer of the loop (`:649`) claim and promote
nothing (`ClaimTerminal("fixed")`); without one `EnterLoop` begins the loop.

`LoopFails` stands for every failing write, authority or provider after which the loop stops, its claim given
back; a write that took effect and reported an error is the write followed by `LoopFails`. The partial outcomes of
the terminal write are those of `TerminalCommit`: here it takes place or it does not. The two reads of pending
entries of one pass (`agent_loop.go:430` and `service.go:140`) are one. The stamps that a hold writes to the job's
record are left out of what the authority of a job's message compares, so a hold never makes `MayQueue` refuse in
the model; that only adds behaviours. A turn starts when none runs: a start first ends the turn that works or
waits (`thread_transition_authority.go:163-192`), which is `Interrupt` to the end and then `StartTurn`, and is
refused while the thread still runs (`turnstart/baseline.go:99`). `Trusted` is what the start demands of
all stored entries; `Restart` ends the turn, a waiting one too, and the job, and leaves the record's queued messages
as they are. `TurnQueue` is the promise: what is owed (`Owed`) is every ordinary message that was taken, and the
protected ones after the last ordinary one as long as their source is there; a call shows all that is owed, in the
order of the transcript, and a candidate is published when nothing is owed and nothing waits. It leaves open that a promoted
message is not shown when the turn is cut short, and that a fixed answer cancels what waits.

## 3. Runs

| run | instance | question |
| --- | --- | --- |
| `gate_safety` | two reads, one of an execution, one write, two threads of one workspace, a second workspace | exclusion, exact accounting, leases, refinement |
| `gate_progress` | a call of an execution, a call no barrier covers, metadata reads, one write, `Discipline`, fair | every call settles, unless an uncovered call is in the circle of finding 1 |
| `gate_metadata_deadlock` | two calls of executions, metadata reads, one write, `Discipline` | finding: a circle of two |
| `turn_terminal` | two executions, interrupt, closer, transition, auxiliary operation; one thread, two turns | one terminal publisher, an interrupt's turn has no owner; the transition's thread is quiet; auxiliary operations are alone |
| `turn_progress` | start, steering, interrupt, transition, fair | admitted steering precedes the terminal claim; no lost wake-up, no circle |
| `turn_shutdown` | two starts, auxiliary operation, host stops, fair | a shutdown, tried again or not, drains; after it and in maintenance all is quiet; preparations end |
| `registry_claims` | two gates, two turns of one thread, two tokens, two reservations of an id | claims conserved, one holder, frozen dispositions, claims as observed, refinement |
| `event_log` | two single events and a bundle, one read, one failing call, one crash, two power losses | recovery always accepts; refinement of the append log |
| `live_events` | one stream, five sequence numbers, a buffer of two, committed errors, a restart, fair | nothing offered is passed over, bundles whole, finals withheld, catch-up |
| `live_frontier_stale` | the same with a single event's committed error | finding |
| `terminal_commit` | two boundary finals and one with facts, two turns, two faults, two crashes, fair | refinement of the decision; prepared boundary finals complete; a start refuses two known states only |
| `steering_queue` | a draft, a protected late reply and a job's message, two calls, two turns (the first on case data), one crash, fair | refinement of the queue; nothing waits for ever while the loop works; the start refuses a resent draft only |

**Why the bounds are enough to be interesting.** The gate's conflicts are pairwise on a key; a nested effect
needs a parent, so two reads and one writer reach the nested case, a queued writer between the two locks of
a reader, and the last release by a borrower; two writers reach crossing rebinds. All conflicts of the
controller are between two turns of one thread or two calls on one turn: one thread, two turns, two
executions, and one process of each role that takes part. What a third party could add is proved for the
gate (below). The registry has two gates because a drain and a batch act on several at once and everything
else acts on one; two tokens and two reservations of an id (`MaxToken`, `MaxBorn`) give the older and the
newer claim that a stale holder confuses, two intents the first and the later reason. What more gates or
tokens could add is proved (below). Every property has a mutant of the code that TLC refutes on the same
configuration. The log's transactions of one thread run one after the other, so its cases are pairs: a
transaction that is cut and the one that meets its residue, after the first event (a bundle's path) and
after later ones. Two power losses are a cut and a cut of the recovery from it. Streams of one thread do not
know of each other; a buffer of two is the smallest that holds a bundle, and one that is half full does not.
Two turns are the smallest case of a context that advanced, three finals give the turn two contenders and
the start one of its own; a cut transaction and a cut recovery need two crashes. Steering has
one message of each sender because entries of one sender differ only in their place. Two calls (`MaxSends` counts
calls, so that a message may be sent again) fill a batch, put a message behind one that was read, promote a protected
message and then an ordinary one or the reverse, or send one message to both turns; a third would only lengthen the
batch or the lane, and the refinement is proved for any number of them. The first turn's own prompt is on case data
(`CaseTurns`), the second's is ordinary. Symmetry is used in
safety runs only, over interchangeable processes; `gate_safety` has none, since one of its two reads is an execution's. `CHECK_DEADLOCK FALSE`: the calls are finite in number and the
system stops when they are done; the registry, the log, the terminal stores and the steering also stop when
their bounds are used up.

**Fairness.** Gate: weak fairness of each call's own next step (a goroutine that can run runs; every release
wakes all waiters of the scope lock) and of releases: a holder returns. Giving up is never forced. Controller: weak
fairness of each goroutine's own steps, including the error return of a refused call. An execution is
assumed to return whether cancelled or not: the loop has step limits and the provider calls time
limits. Abandoning a wait, a claim or a reservation is never forced, nor are
shutdown and maintenance. Live events: a writer that appended goes on to publish, and a stream that may
replay or hear a heartbeat does; that an event is written, a final staged or settled, a queued event consumed
or a client connected is never forced. Terminal: every attempt goes on and a process that stopped is
started again, with no more than `MaxFaults` failing writes and `MaxCrashes` stops.
Steering: every call that was admitted returns, the loop goes on where it does not wait for somebody (its steps and
provider calls are limited, as above) and a stopped process is started again. Nothing forces a user to answer (an
input with `TimeoutSeconds = -1` has no deadline, `gates.go:1009-1012`), a parent to release its job, an interrupt, a withdrawal or the
end of the job, and nothing ends a turn whose end could not be stored. `PendingSettles` therefore says: a message that
waits is settled, or the turn is `Idle` again and again; what it excludes is that the working loop itself, its claims,
stale batches, failures and retries, leaves a message behind.

## 4. Findings

1. **Metadata read and barrier transition wait for each other** (`gate_metadata_deadlock`). A transition
   with a barrier reserves the writers of workspace and thread at once; a reader that owns the workspace
   and not yet the thread is refused by the thread's reservation, and the transition waits for the
   workspace. The barrier cancels and waits for registered executions, claims and admitted steers
   (`thread_transition_authority.go:163-192`); a metadata read is none of them, so both wait until
   a context ends. The same holds between their two locks for the effect of a steering request, which is
   leased before the request is admitted, and for the effects of auxiliary operations. `gate_progress` has such
   calls too, and shows that this circle (`CircularWait`) is the only way for a call not to settle.
2. **A committed error of a single event leaves the cached frontier behind** (`live_frontier_stale`). After an
   append that failed but committed, `highestSeqByThread` is repaired for bundles only
   (`durable_event_log.go:156`), although the comment at `durable_event_log.go:512-513` names the single
   event. The next sequence is then one the log already holds, and every later record of the thread is
   refused, until a terminal bundle or a restart; streams do not see the event either.

Observed while modelling, without a run of their own:

* A start can refuse what a cut terminal transaction left. The comment at `case_boundary_completion.go:615`
  leaves the authentic private preparation of a failed compare-and-set to startup recovery. A preparation that
  states facts is only audited there; its turn is still active, the start builds a boundary final for it, and
  the admission refuses a second preparation: this start fails and so does every later one.
  `RefusesOnlyStranded` (`terminal_commit`) bounds what can be refused to this state and one more: a turn
  whose dispositions failed after its public compare-and-set, when the next turn has advanced the context
  (`recovery.go:394`).
* A draft that is sent again in a later turn under its id (the renderer keeps the id of a queued draft,
  `chat-store-thread-actions.ts:405-490`, for instance after an error that followed the durable admission) is
  admitted, since admission looks at the current turn only, and every later start refuses the thread
  (`inventory.go:192`). `RefusesOnlyResent` (`steering_queue`) says that nothing else is refused. Within a
  turn the repeated request is refused: the entry's time of admission is part of what must be equal
  (`turn.go:91-96`).
* The comment at `agent_loop.go:443-445` says that a steer admitted after the read is consumed at the next loop
  boundary. The fixed answer claims with `promoteBeforeTerminal = false` (`runtime_runner.go:649`) and the boundary
  answer before the first call reads nothing: a message accepted after the last read is then cancelled with the
  turn. `TurnQueue` allows this for the outcome "answered" only.
* A protected message that was promoted under a terminal claim (`runtime_runner.go:553-577`, `1269-1290`) is not shown to
  the model when an ordinary one is read at the loop's next top (`:632`) before any call. The comment at `:484-486`
  intends that protected context is not replayed on the ordinary lane; its sender is told that it was
  promoted all the same.
* A turn that waits for a user's answer accepts steering for as long as it waits, and shows none of it to the
  model until then; a restart aborts such a turn.
* The validation of a batch against the job's record and its promotion are two steps (`service.go:172-180`):
  a message can be rejected in the record in between and be in the transcript all the same. The
  settlement then fails and the turn with it, before the model sees it.
* A restart leaves the queued messages of an interrupted job queued (`lineage.go:1423-1462`); nothing
  admits them any more.
* An interrupt reads `candidateWon` once (`service.go:854-855`), and the one cancelling pass of a shutdown
  skips claim holders (`service.go:1153-1155`, `runtime_runner.go:577-581`). If such a holder finds steering
  and gives its claim back, it runs on uncancelled, against the comments at `service.go:820-822` and
  `566-568`, until its next claim, which the reservation refuses; `Quiesced` and `ShutdownSettles` hold all
  the same.
* On a file system that reorders the updates of one directory a finished bundle journal can come back (see
  EventLog).

## 5. Proofs

TLC checks the instances of section 3; the theorems below hold for every value of the constants. Each of the
seven components with theorems has one module for them. They share a plan: an inductive invariant whose
parts are named for what they say, one lemma per action or class of actions, in it one step per part that the
action disturbs, a lemma `NextKeeps` that collects them, and theorems that follow. Every invariant was first
checked by TLC as an invariant of the component's run, which is how missing parts were found. The bounds
(`MaxCrashes`, `MaxFaults`, `MaxSends`, ...) are constants like any other: a theorem covers every bound.

### The effect gate

`EffectGateProofs` proves, for any number of calls, threads, workspaces and contexts:

| theorem | states |
| --- | --- |
| `TypeCorrect` | `Spec => []TypeOK` |
| `Exclusion` | `Spec => []LockExclusion` |
| `Accounting` | `Spec => []CountersExact` |
| `Borrowing` | `Spec => []BorrowedLeaseLive` and exact reference counts |
| `EffectSafety` | `Spec => []EffectExcludesTransition` |
| `Fence` | `Spec => BarrierFence` |
| `GateImplementsTable` | `Spec => ImplementsTable` |

`LockExclusion` is not inductive: that a writer is admitted at `readers = 0` says something only if the
counters count the holders. So the invariant carries `CountersExact`, and with it the shape of each record
(which phase holds how many keys), `Shapes`. Leases need `ReferencesExact`: the reference count of a lease is
the number of calls that use it; a borrower keeps it positive, therefore `BorrowedLeaseLive`. A nested effect
holds no workspace lock of its own; that its workspace is protected follows from some live effect of the
workspace that does hold it. That there is one is why `Inv` has `BorrowingWellFounded`: every nonempty set
of calls has one that borrows from none of the set, so among the live effects of a workspace some one has
no lender (lemma `WorkspaceRoot`). `Fence` and the refinement use that a counter above zero means a holder: a
reader enters a key only where no call has reserved it. The assumptions are those of the module: finite
sets of calls and keys, and a strict order of the workspaces.

### The turn controller

`TurnControllerProofs` proves every safety property that the runs check of the controller, for any number of
threads, turns and goroutines:

| theorem | states |
| --- | --- |
| `Typed` | `Spec => []TypeOK` |
| `OnePublisher` | `Spec => []TerminalExclusive` |
| `SteeringDrained` | `Spec => []SteersDrained` |
| `AuxiliaryApart` | `Spec => []AuxiliaryAlone` |
| `OneServed` | `Spec => []AuxiliaryServesOne` |
| `TransitionQuiet` | `Spec => []QuietTransition` |
| `ReservationsDie` | `Spec => []ReservationsOwned` |
| `HostQuiesces` | `Spec => []Quiesced` |

`Inv` has seventeen parts. Each ties a field of `Controller` to the goroutines that stand behind it: an owner
to the execution that runs (`Owners`), a claim and a reservation to the one goroutine that gives it back
(`Claims`, `Reservations`), `steerAdmissions`, `foregroundPreparing` and `activeTurnOperations` to the calls
they count (`SteersCounted`, `PreparationsCounted`, `OperationsCounted`). `TerminalsAlone` is the reason why a
thread has one publisher: claims and interrupt reservations refuse each other at admission, so only those of
one turn can meet, and an interrupt is granted when the claim is gone. `PreparationsWait` is the reason why an
auxiliary operation serves one preparation: whoever still prepares has it in the set it waits for.
Assumed: every turn has one thread, goroutines are finite in number, and no goroutine has two roles.

### The gate registry

`GateRegistryProofs` proves, for any number of gates, records, tokens and reservations, every property of
the registry that the runs check:

| theorem | states |
| --- | --- |
| `RegistryTypeCorrect` | `Spec => []TypeOK` |
| `GateHeldOnce` | `Spec => []OneHolder` |
| `NoClaimLostOrDoubled` | `Spec => []ClaimsConserved` |
| `DispositionsKept` | `Spec => DispositionFrozen` |
| `ObservedIsClaimed` | `Spec => ClaimedAsObserved` |
| `RegistryImplementsLifecycle` | `Spec => ImplementsLifecycle` |

Here `ClaimsConserved` is not inductive alone: a claim or a drain gives a gate a new claim, and no claim is
overwritten only because a gate with a request has none (`OneHolder`). A drain is the hard step: its tokens
are a bijection between the gates asked and the numbers it counts (`TokensOfADrain`), so the new ones
are disjoint from all that were held or ended. `ClaimedAsObserved` needs `BindingsCurrent`: a private
binding carries the number of the reservation it was made for, and goes with the request. The
refinement is shown method by method (`RequestsRefine`, `ClaimRefines`, `ResponsesRefine`,
`TerminalsRefine`): the gates whose entries the method leaves alone keep their stage, and those it
touches make one move together. Assumed are the module's `RegistryAssumption`: gate ids are numbers, a
scope is a set of records, and `Nil` is no value of any map.

### The event log

`EventLogProofs` proves, for any calls and bundles, any number of files, crashes, power losses and failing
system calls:

| theorem | states |
| --- | --- |
| `TypeCorrect` | `Spec => []TypeOK` |
| `AlwaysRecovers` | `Spec => []RecoveryAccepts` |
| `StoreKeepsPromise` | every step is a step of `AppendLog`, none of its variables, or `Misreports` |
| `StoreImplementsLog` | `MaxFaults <= 1` implies `Spec => ImplementsLog` |

A power loss can leave any directory of `medium`, so what is said of the directory must be said of all of them:
`Medium` says that each is `Good`. `Good` has four parts: the names are those of one transaction and no two
name one file (`Named`); the log is made of whole batches and synced unless a journal of one event accounts
for its end (`Logged`, `Vouched`); and a bundle journal describes the log it finds, before or after the
replacement, and the candidate beside it (`Replaceable`). `Alone` says that the medium holds one directory as
long as the log is torn or unsynced: it is what makes the journal's name durable before the line is written,
and the line durable before the journal's removal matters. `AppendsInPlace`, `Replaces` and `Recovers` say
what each system call finds that a transaction or a recovery makes next. Lemma `Accepted` is the step from
`Good` to `~Corrupt`. `Survived` and the lemmas around it say that every file that a power loss may leave in a
`Good` directory leaves it `Good`: a synced file stays, an unsynced log is one of the three that its journal
recovers. Bodies and lines are sequences over sets of records; no induction over them is needed but that of
`Subsequences`.

The refinement needs a second invariant, `Refines`, on top of the first. `Kept` says of every directory the
medium may hold, and of each of its files both as seen and as synced, that the batches it shows are a prefix of
those the process sees, no shorter than `firm`: so a power loss, whatever it leaves, is a `PowerLoss` of the
promise. `Answers` ties the log to what callers were told: the batch of the running append is in the log exactly
between the step that makes it visible (`WriteTail`, `ReplaceTarget`) and the answer, and after an error the
residue still decides the question until recovery has read it (`WriteFailed`, `ReplaceFailed`). Most system calls
leave the log alone (`Still` and its lemmas, one per kind of call); the writes and the replacement are the
`Commit` of the promise, all other steps of a call stutter until it returns. For any number of failing calls this
gives `StoreKeepsPromise`: the one step beyond the promise is `Misreports`, in which the replacement reported an
error and took place all the same, recovery finds it out, and a second failing call keeps it from saying so
(`store.go:435`): a bundle that is in the log is reported failed. TLC reaches that step with `MaxFaults = 2`, so
the hypothesis `OneFault` of `StoreImplementsLog` cannot be dropped, and nothing else depends on it. Assumed for
all of them: `Bundles` are calls and `NoCall` is none, and the bounds are natural numbers.

### Live events

`LiveEventsProofs` proves, for any number of streams, any capacity of a buffer and any length of the log:

| theorem | states |
| --- | --- |
| `TypeCorrect` | `Spec => []TypeOK` |
| `BundlesWhole` | `Spec => []BundleWhole` |
| `FinalsWithheld` | `Spec => []FinalWithheld` |
| `SkipsExplained` | `Repairable` implies `Spec => []SkipsOnlyUnoffered` |
| `FrontierKept` | `Repairable` implies `Spec => []FrontierCurrent` |

There are two invariants. `Base` is about shape: the groups fill the log without gaps (`Laid`), a queue holds
units of published groups with the two units of a terminal bundle side by side (`Queues`, `Paired`), what a
stream collects is the first unit of a bundle whose second is next (`Collected`), and cursors and targets never
split a bundle (`Bounded`, `Aligned`). It holds whatever errors appends report. `Delivery` adds what each
stream has, will be offered, or missed (`Gapless`, `Offered`): it needs the cached frontier to be current,
because a replay ends at that frontier. `Repairable` says that appends report only the errors after which the
store repairs its frontier, a committed bundle and a failed settlement. The hypothesis is needed: with the
error of a single event TLC refutes `FrontierCurrent` (finding 2) and `SkipsOnlyUnoffered`, and with a log
that cannot be read a replay may store the frontier it read before; the run checks `SkipsOnlyUnoffered` with
the errors of `Repairable`. Assumed: `Unknown` is no number and `None` is no group.

### The terminal transaction

`TerminalCommitProofs` proves, for any number of finals, turns, failed writes and crashes:

| theorem | states |
| --- | --- |
| `TypeCorrect` | `Spec => []TypeOK` |
| `RefusalsExplained` | `Spec => []RefusesOnlyStranded` |
| `StoresDecide` | `Spec => ImplementsDecision` |

`Chain` is the heart of the invariant: every record of a turn rests on the record before it, whoever wrote it
and whatever failed since, and every turn but the current one is publicly over. `Progress` says what an
attempt has written when it goes on, `Recovering` what a restart still has to resume. A start refuses nothing
that `Chain` allows but the two stranded states, and each store's write moves the stage of its turn up by one or
leaves it (a write that is repeated, or lost).

### The steering queue

`SteeringQueueProofs` proves, for any messages, turns, calls and crashes:

| theorem | states |
| --- | --- |
| `Types` | `Spec => []TypeOK` |
| `StartTrusts` | `Spec => []RefusesOnlyResent` |
| `SteeringImplementsQueue` | `Spec => ImplementsQueue` |

The invariant says that a turn stores an id once (`Entered`) and an item for exactly what was promoted
(`ItemsPromoted`), that only the last turn runs (`LastRuns`), that an admitted call keeps its turn running
(`SendersInTurn`), that a drained claim stays alone (`ClaimDrained`, `NothingLeft`), and that what the model was shown of
the job's messages was admitted in the record (`ShownAdmitted`).

The hard part is the conversation, which is replaced as well as extended. `Follows` relates a transcript and a
conversation: talk and lane are selections of the transcript (`Selects`: the entries of a subset, in order), a step
on case data began after what the lane holds, what the model should know (`Due`) was shown or is in the
talk, and what it should know without the source of case data was shown or is in the lane. The last part is what makes
it inductive: when an ordinary batch or a lost source throws the talk away, the lane still holds what is
due then. `ChatFollows` says that the conversation follows the transcript, in `settle` the transcript
before the batch, and that an execution which has its answer (`Answered`), or holds the claim of a candidate, has shown
all that is due; so a candidate is published with nothing owed. A late reply that is
withdrawn or a message cancelled was never in the transcript, so none of them is ever shown.

The refinement maps the stores to a queue with `Among`; the promotion of a batch needs that the batch, read some
steps ago, is a prefix of what waits now, and a provider call that its talk is the part of the transcript that it
tells. Assumed: the three kinds of messages are disjoint, and the job's messages are finite
in number, since the turn's preparation puts them in some order.

`SubsequencesProofs` has the laws of `Among` this rests on: what it keeps, that it composes (`AmongTwice`),
depends only on the members (`AmongFrame`), keeps distinctness, what is left of a sequence without a prefix
(`AmongRest`), and how it distributes over a concatenation (`AmongConcat`, `ConcatDistinct`; `SelectsConcat` and
`SelectsLonger` say it of selections). They are inductions over sequences. The library states induction for operators, which the
provers cannot instantiate; stated for sets (`Least`, `NatSets`, `SeqSets`: a set of sequences that holds the
empty one and is closed under `Append` holds all) they can, and that the recursive function is defined is a
lemma of the same kind (`RunDefined`).

### Only model-checked

Every liveness property (`CallsSettle`, `WaitersSettle`, `ShutdownSettles`, `CatchesUp`, `PreparedCompletes`,
`PendingSettles`): fairness and `ENABLED` are out of the prover's reach. Every invariant, every action property
and every refinement that a passing run checks is stated by a theorem. The two findings (`NoCircularWait`, `FrontierCurrent`) are refuted by their runs.

## 6. Not modelled

Validation, canonical encoding, signatures, digests and storage formats, providers, tools, the Python
backend and the desktop application: data, or I/O (PROJECT.json gives the reason per component).
`WaitForThreadTurns` without a transition only observes; `RegisterTurnCancel` and
`UnregisterTurnCancel` (key-only registration) have no production caller. The controller does not check
maintenance in transitions, interrupts past their operation, and fixed terminals: it relies on the HTTP
mutation fence of its caller, which is assumed, so `Quiesced` does not mention them.

Of the registry: `Register*`, `SetPending*`, `RegisterPending*` and `Resolve*` have no caller outside the
tests (`SetPending*` would make a settled gate executable again); the timed waits of user inputs
(`gates.go:984-1164`) are a state machine of their own and planned; the wrap of the 64-bit token is out of
reach. `DeleteApproval` and `DeleteUserInput` have no production caller either, yet they are modelled: the
private bindings and their tests (`user_input_admission_test.go:51-63`) exist for a question deleted and
asked again, and everything proved holds without deletions all the more, then with `discarded` empty. An
ownerless question has no private binding: a replacement identical in record and call can be claimed with an
admission of the earlier one. `ClaimedAsObserved` is therefore about owned questions; no production path
deletes and asks an ownerless question again under one id.

Of the controller: a token of a released claim is never presented (`service.go:1015` would accept the token
of a fresh claim only), since every caller keeps its token on its own stack; a transition is not refused in a
maintenance window (`service.go:688`), which is the HTTP fence again.

Of the event log: a bundle journal's removal is not synced (`store.go:451`) and a reader can be shown a
bundle that power loss still takes back (`atomic_bundle_journal.go:227`): both are in the model's steps, and the
promise leaves them open. A replacement that fails twice (`store.go:435`) is in the model and beyond the run's
`MaxFaults = 1`.

Of the live events: a committed terminal bundle that cannot be read back stays in the outbox
(`general_terminal_outbox.go:90`); a frontier that was forgotten can be stored stale by a stream's replay
(`durable_event_log.go:435`); a live cursor passes over an event that was written and never offered
(`events.go:456`). The last two are in the model; what they cost is why `SkipsOnlyUnoffered` speaks of
offered events only.

Of the terminal transaction: that the report of a restarted turn is preserved, the signatures and the
validation of authorities, the read-back of a committed public turn (`ResolveCommittedV1`), turns outside
case threads (they publish without the five records), and the authority to publish. A winner that states
facts and whose dispositions fail is only audited at the start (`final_authority_preflight.go:429`).

Of the turn controller's runs: `turn_terminal` has no steering, so that `QuietTransition` about admitted steers rests on
the theorem `TransitionQuiet` alone; that admitted steering precedes the terminal is checked in `turn_progress`.

Of the steering queue: the answers of the model and of tools (the conversation is what it shows of the steering), and
the projections of the ordinary lane, which keep ordinary messages and drop the rest; messages of schedules and of host children, which carry their own time of admission and
so can be sent again; the event and the response of an admission; text projections, seals and digests (a
message is equal to itself and to nothing else); the order in which the record keeps its messages; threads of
more than one job.

The modules stand for the concurrent core, a small share of the repository's half million lines. The rest is
validation, encoding, adapters and conformance tooling that runs from beginning to end in one call; a model
of it would restate it.

## 7. Plan

Done: the gate, the controller, the registry, the event log, the live events, the terminal
transaction and the steering queue; of each, every invariant, action property and refinement that a passing run
checks is proved. Next:

1. `GateContinuation` (`app/gatecontinuation/service.go`) composed with the registry: claim, signed disposition,
   mark, effect, commit, with drains and crashes between any two; abstractly, a gate's effect runs at most
   once and its signed disposition is the one the registry froze. With it the timed waits of user inputs.
2. `SecurityTransition`: composes the gate's writer, the controller's barrier and the registry's drain; the
   abstract promise is that an epoch changes only on a quiet thread. Lock order effect before controller.
3. `PendingWork`: at-most-once effects with crashes between journal and effect.
4. `SubagentJobs`: start claims, pauses and completion receipts, composed with the steering queue.
