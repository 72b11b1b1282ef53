------------------------------- MODULE EventLog -------------------------------
(***************************************************************************)
(* The event log of one thread on disk: adapters/outbound/eventlog.        *)
(*                                                                         *)
(* One file holds the events, one line each. A small event is appended in  *)
(* place under a journal of its own, whose name binds the frontier it      *)
(* extends; a bundle (and the first event, and an event too large for a    *)
(* journal) is written to a candidate copy which replaces the file under a *)
(* bundle journal. Every reader and every writer first recovers what an    *)
(* interrupted transaction left in the directory. All of them hold the     *)
(* lock of the thread, so at most one runs; a step here is one system call *)
(* of the one that runs, and between two steps the process may stop or the *)
(* machine may lose power.                                                 *)
(*                                                                         *)
(* The disk: a file has the content the process sees and the content a     *)
(* sync has put on the medium. Directory updates reach the medium in the   *)
(* order they were made, at the latest with the next directory sync, as on *)
(* a journaling file system: the medium may hold the directory as any      *)
(* update since the last sync left it.                                     *)
(***************************************************************************)
EXTENDS Naturals, Sequences, FiniteSets, SequencesExt, Subsequences

CONSTANTS
  Calls,       \* the append calls
  Bundles,     \* those that append two events in one atomic bundle
  NoCall,      \* no call is running
  Inodes,      \* bound: the files the disk has room for
  MaxReads,    \* bound: how many reads are made
  MaxCrashes,  \* bound: how often the process stops
  MaxLosses,   \* bound: how often the machine loses power
  MaxFaults    \* bound: how many system calls report an error

ASSUME CallAssumption == Bundles \subseteq Calls /\ NoCall \notin Calls
ASSUME BoundAssumption == {MaxReads, MaxCrashes, MaxLosses, MaxFaults} \subseteq Nat

VARIABLES
  files,    \* files[i]: inode i, [cache |-> content seen, disk |-> content synced]
  dir,      \* the directory the process sees: name -> inode
  medium,   \* the directories the medium may hold: the one last synced and its successors
  pc,       \* the system call to make next
  job,      \* what runs: the call, what it still has to sync, what recovery is for
  answer,   \* what each call was told
  firm,     \* history: how many batches the last success found in the log
  reads, crashes, losses, faults  \* counted up to their bounds

disk == <<files, dir, medium>>
bounds == <<reads, crashes, losses, faults>>
told == <<answer, firm>>
vars == <<disk, pc, job, told, bounds>>

-----------------------------------------------------------------------------
(* Events and files *)

\* One line of the log: part p of the batch of call c, or a torn piece of it.
Frames == [call : Calls, part : {1, 2}, whole : BOOLEAN]
Frame(c, p) == [call |-> c, part |-> p, whole |-> TRUE]
Torn(f) == [f EXCEPT !.whole = FALSE]
Batch(c) == IF c \in Bundles THEN <<Frame(c, 1), Frame(c, 2)>> ELSE <<Frame(c, 1)>>

\* The names of the directory: the log, the candidate, the bundle journal and
\* its temporary, and the journal of one event, whose name tells the frontier.
Name(kind) == [kind |-> kind, before |-> <<>>, call |-> NoCall]
Target == Name("events")
Candidate == Name("candidate")
JournalTemp == Name("journalTemp")
Journal == Name("journal")
SingleJournal(before, c) == [kind |-> "single", before |-> before, call |-> c]

\* The body of a journal: the log before and after, and whether it existed.
Body(existed, before, after) == <<[existed |-> existed, before |-> before, after |-> after]>>

Blank == [cache |-> <<>>, disk |-> <<>>]

-----------------------------------------------------------------------------
(* Directories *)

Bound(d, n, i) == [m \in DOMAIN d \cup {n} |-> IF m = n THEN i ELSE d[m]]
Without(d, n) == [m \in DOMAIN d \ {n} |-> d[m]]

\* The directory becomes d; the medium follows, unless power is lost before.
Update(d) == dir' = d /\ medium' = medium \cup {d}

Exists(n) == n \in DOMAIN dir
Content(n) == files[dir[n]].cache

InUse == UNION {Range(d) : d \in medium}
FreshInode == CHOOSE i \in Inodes : i \notin InUse

\* Files without a name are gone.
Tidy(f, used) == [i \in Inodes |-> IF i \in used THEN f[i] ELSE Blank]

\* A new file n with content x, none of it synced.
Create(n, x) ==
  /\ ~(Inodes \subseteq InUse)
  /\ Update(Bound(dir, n, FreshInode))
  /\ files' = [files EXCEPT ![FreshInode] = [cache |-> x, disk |-> <<>>]]

Write(n, x) ==
  /\ files' = [files EXCEPT ![dir[n]].cache = x]
  /\ UNCHANGED <<dir, medium>>

SyncFile(n) ==
  /\ files' = [files EXCEPT ![dir[n]].disk = Content(n)]
  /\ UNCHANGED <<dir, medium>>

Rename(a, b) ==
  /\ Update(Bound(Without(dir, a), b, dir[a]))
  /\ UNCHANGED files

Unlink(n) ==
  /\ Update(Without(dir, n))
  /\ UNCHANGED files

SyncDirectory ==
  /\ medium' = {dir}
  /\ files' = Tidy(files, Range(dir))
  /\ UNCHANGED dir

-----------------------------------------------------------------------------
(* Reading the directory *)

Frontier == IF Exists(Target) THEN Content(Target) ELSE <<>>

\* The whole events of content x.
Whole(x) == Among(x, {f \in Frames : f.whole})

Residue == {n \in DOMAIN dir : n.kind # "events"}
Singles == {n \in Residue : n.kind = "single"}
TheSingle == CHOOSE n \in Singles : TRUE
Line(n) == Frame(n.call, 1)

\* The tail that the journal n of one event accounts for: nothing of the
\* event, a torn piece of it, or the event.
Recoverable(n) ==
  {n.before, Append(n.before, Torn(Line(n))), Append(n.before, Line(n))}

\* Residue that recovery refuses: it cannot come from one transaction.
Corrupt ==
  \/ Singles # {} /\ Singles # Residue
  \/ Cardinality(Singles) > 1
  \/ \E n \in Singles :
       \/ ~Exists(Target)
       \/ Frontier \notin (IF Content(n) = <<>> THEN {n.before} ELSE Recoverable(n))
  \/ /\ Exists(Journal)
     /\ \/ Content(Journal) = <<>>
        \/ LET j == Content(Journal)[1]
           IN \/ ~(Exists(Target) /\ Frontier = j.after)
                 /\ ~(Exists(Target) = j.existed /\ Frontier = j.before)
              \/ Exists(Candidate) /\ Content(Candidate) # j.after

\* The batches of content x, if x is made of whole batches.
WholeBatch(x, i) ==
  \A p \in DOMAIN Batch(x[i].call) :
    LET k == i + p - x[i].part
    IN k \in DOMAIN x /\ x[k] = Frame(x[i].call, p)

Batches(x) ==
  LET heads == Among(x, {f \in Frames : f.part = 1})
      calls == [i \in DOMAIN heads |-> heads[i].call]
  IN IF \A i \in DOMAIN x : WholeBatch(x, i) THEN calls ELSE Append(calls, NoCall)

\* What a reader would be shown after recovery.
Visible == Batches(Whole(Frontier))

-----------------------------------------------------------------------------
(* The runtime *)

\* What runs: the call (or a read), whether the candidate is synced, what
\* recovery is for, and whether recovery accepted the interrupted append.
Idle == [call |-> NoCall, synced |-> FALSE, why |-> "none", took |-> FALSE]

Init ==
  /\ files = [i \in Inodes |-> Blank]
  /\ dir = <<>>
  /\ medium = {<<>>}
  /\ pc = "idle"
  /\ job = Idle
  /\ answer = [c \in Calls |-> "none"]
  /\ firm = 0
  /\ reads = 0 /\ crashes = 0 /\ losses = 0 /\ faults = 0

Goto(step) == pc' = step /\ UNCHANGED <<job, told, bounds>>

\* The running call returns a.
Tell(a) ==
  /\ answer' = [answer EXCEPT ![job.call] = a]
  /\ firm' = IF a = "ok" THEN Len(Visible) ELSE firm
  /\ pc' = "idle"
  /\ job' = Idle

Return(a) == Tell(a) /\ UNCHANGED bounds

Fault == faults < MaxFaults /\ faults' = faults + 1 /\ UNCHANGED <<reads, crashes, losses>>

\* A call takes the lock of the thread and recovers.
Begin(c) ==
  /\ pc = "idle"
  /\ answer[c] = "none"
  /\ pc' = "recover"
  /\ job' = [Idle EXCEPT !.call = c, !.why = "append"]
  /\ UNCHANGED <<disk, told, bounds>>

\* A reader takes the lock of the thread and recovers.
BeginRead ==
  /\ pc = "idle"
  /\ reads < MaxReads
  /\ reads' = reads + 1
  /\ pc' = "recover"
  /\ job' = [Idle EXCEPT !.why = "read"]
  /\ UNCHANGED <<disk, told, crashes, losses, faults>>

-----------------------------------------------------------------------------
(* One event, appended in place *)

CreateJournal ==
  /\ pc = "createJournal"
  /\ Create(SingleJournal(Frontier, job.call), <<>>)
  /\ Goto("writeJournal")

WriteJournal ==
  /\ pc = "writeJournal"
  /\ LET before == Frontier
         after == before \o Batch(job.call)
     IN Write(TheSingle, Body(TRUE, before, after))
  /\ Goto("syncJournal")

SyncJournal ==
  /\ pc = "syncJournal"
  /\ SyncFile(TheSingle)
  /\ Goto("syncJournalName")

SyncJournalName ==
  /\ pc = "syncJournalName"
  /\ SyncDirectory
  /\ Goto("writeTail")

WriteTail ==
  /\ pc = "writeTail"
  /\ Write(Target, Frontier \o Batch(job.call))
  /\ Goto("syncTail")

\* A short write: the tail is missing or torn, and recovery runs at once.
ShortWrite ==
  /\ pc = "writeTail"
  /\ Fault
  /\ \E tail \in {<<>>, <<Torn(Frame(job.call, 1))>>} : Write(Target, Frontier \o tail)
  /\ pc' = "recover"
  /\ job' = [job EXCEPT !.why = "write"]
  /\ UNCHANGED told

\* Mutant: the appended line is not flushed before the journal goes.
SyncTailSkipped ==
  /\ pc = "syncTail"
  /\ UNCHANGED disk
  /\ Goto("dropSingle")
SyncTail ==
  /\ pc = "syncTail"
  /\ SyncFile(Target)
  /\ Goto("dropSingle")

\* The journal is removed and the call succeeds; the directory is not synced.
DropSingle ==
  /\ pc = "dropSingle"
  /\ Unlink(TheSingle)
  /\ Return("ok")

-----------------------------------------------------------------------------
(* A bundle, or the first event: a candidate that replaces the log *)

\* The candidate is created with the old bytes and the new frames, unsynced.
\* (Created and written in one step: without a journal its content is never read.)
FillCandidate ==
  /\ pc = "fillCandidate"
  /\ Create(Candidate, Frontier \o Batch(job.call))
  /\ Goto("writeJournalTemp")

\* The candidate is flushed beside the preparation of the journal.
Preparing == {"writeJournalTemp", "syncJournalTemp", "renameJournal"}

\* Mutant: the candidate is not flushed.
SyncCandidateSkipped ==
  /\ pc \in Preparing
  /\ ~job.synced
  /\ UNCHANGED disk
  /\ job' = [job EXCEPT !.synced = TRUE]
  /\ UNCHANGED <<pc, told, bounds>>
SyncCandidate ==
  /\ pc \in Preparing
  /\ ~job.synced
  /\ SyncFile(Candidate)
  /\ job' = [job EXCEPT !.synced = TRUE]
  /\ UNCHANGED <<pc, told, bounds>>

WriteJournalTemp ==
  /\ pc = "writeJournalTemp"
  /\ Create(JournalTemp, Body(Exists(Target), Frontier, Content(Candidate)))
  /\ Goto("syncJournalTemp")

SyncJournalTemp ==
  /\ pc = "syncJournalTemp"
  /\ SyncFile(JournalTemp)
  /\ Goto("renameJournal")

RenameJournal ==
  /\ pc = "renameJournal"
  /\ job.synced
  /\ Rename(JournalTemp, Journal)
  /\ Goto("syncRenamed")

SyncRenamed ==
  /\ pc = "syncRenamed"
  /\ SyncDirectory
  /\ Goto("replaceTarget")

ReplaceTarget ==
  /\ pc = "replaceTarget"
  /\ Rename(Candidate, Target)
  /\ Goto("syncReplaced")

\* The replacement reports an error, whether or not it took place.
ReplaceFails ==
  /\ pc = "replaceTarget"
  /\ Fault
  /\ UNCHANGED disk \/ Rename(Candidate, Target)
  /\ pc' = "recover"
  /\ job' = [job EXCEPT !.why = "replace"]
  /\ UNCHANGED told

SyncReplaced ==
  /\ pc = "syncReplaced"
  /\ SyncDirectory
  /\ Goto("dropJournal")

\* The journal is removed and the call succeeds; the directory is not synced.
DropJournal ==
  /\ pc = "dropJournal"
  /\ Unlink(Journal)
  /\ Return("ok")

-----------------------------------------------------------------------------
(* Recovery *)

\* After recovery: the append goes on, the reader is shown the log, a failed
\* write or replacement is answered by what recovery found.
Recovered(took) ==
  CASE job.why = "append" ->
         /\ pc' = IF job.call \in Bundles \/ ~Exists(Target) THEN "fillCandidate"
                                                             ELSE "createJournal"
         /\ UNCHANGED <<job, told>>
    [] job.why = "read" ->
         pc' = "idle" /\ job' = Idle /\ UNCHANGED told
    [] OTHER -> Tell(IF took THEN "committed" ELSE "failed")

\* Recovery reports an error: a short write still says what it knows.
Unrecovered(took) ==
  IF job.why = "read" THEN pc' = "idle" /\ job' = Idle /\ UNCHANGED told
  ELSE Tell(IF took /\ job.why = "write" THEN "committed" ELSE "failed")

\* Recovery ends at once: there is no residue, or residue it must refuse.
RecoverAtOnce ==
  /\ pc = "recover"
  /\ Residue = {} \/ Corrupt
  /\ IF Corrupt THEN Unrecovered(FALSE) ELSE Recovered(FALSE)
  /\ UNCHANGED <<disk, bounds>>

\* A journal of one event: incomplete, the log is at its frontier; complete,
\* its event is accepted if all of it is there and rolled back if not.
RecoverSingle ==
  /\ pc = "recover"
  /\ Singles # {} /\ ~Corrupt
  /\ LET n == TheSingle
         complete == Content(n) # <<>>
     IN /\ pc' = CASE ~complete -> "clean"
                   [] complete /\ Frontier = Append(n.before, Torn(Line(n))) -> "truncateTail"
                   [] OTHER -> "syncTarget"
        /\ job' = [job EXCEPT !.took = complete /\ Frontier = Append(n.before, Line(n))]
  /\ UNCHANGED <<disk, told, bounds>>

TruncateTail ==
  /\ pc = "truncateTail"
  /\ Write(Target, TheSingle.before)
  /\ Goto("syncTarget")

\* A full tail may only be in memory: it is made durable before its journal goes.
SyncTarget ==
  /\ pc = "syncTarget"
  /\ SyncFile(Target)
  /\ Goto("clean")

\* Residue of a bundle: without a journal it is dropped, with one the log
\* itself tells whether the replacement took place.
RecoverBundle ==
  /\ pc = "recover"
  /\ Residue # {} /\ Singles = {} /\ ~Corrupt
  /\ pc' = "clean"
  /\ job' = [job EXCEPT !.took = Exists(Journal) /\ Exists(Target)
                                   /\ Frontier = Content(Journal)[1].after]
  /\ UNCHANGED <<disk, told, bounds>>

\* Mutant: recovery goes on after the first of the files.
CleanFirst ==
  /\ pc = "clean"
  /\ \E n \in Residue : Unlink(n)
  /\ pc' = "syncCleaned"
  /\ UNCHANGED <<job, told, bounds>>
\* The residue is removed: the candidate, then the temporary, then the journal.
Clean ==
  /\ pc = "clean"
  /\ LET next == CASE Exists(Candidate) -> Candidate
                   [] ~Exists(Candidate) /\ Exists(JournalTemp) -> JournalTemp
                   [] ~Exists(Candidate) /\ ~Exists(JournalTemp) /\ Exists(Journal) -> Journal
                   [] OTHER -> TheSingle
     IN /\ Unlink(next)
        /\ pc' = IF Residue = {next} THEN "syncCleaned" ELSE "clean"
  /\ UNCHANGED <<job, told, bounds>>

SyncCleaned ==
  /\ pc = "syncCleaned"
  /\ SyncDirectory
  /\ Recovered(job.took)
  /\ UNCHANGED bounds

-----------------------------------------------------------------------------
(* Errors, crashes, power losses *)

\* A system call reports an error and has no effect. What the call had written
\* is left to the next recovery; a candidate that could not be filled is removed.
CallFails ==
  /\ Fault
  /\ \/ /\ pc \in {"createJournal", "writeJournal", "syncJournal", "syncJournalName",
                   "fillCandidate", "syncRenamed"} \cup Preparing
        /\ Tell("failed")
     \/ /\ pc \in {"syncTail", "dropSingle", "syncReplaced", "dropJournal"}
        /\ Tell("committed")
     \/ /\ pc \in {"truncateTail", "syncTarget", "clean", "syncCleaned"}
        /\ Unrecovered(job.took)
  /\ UNCHANGED disk

\* Whoever runs learns nothing.
Interrupted ==
  /\ pc' = "idle"
  /\ job' = Idle
  /\ answer' = IF job.call = NoCall THEN answer ELSE [answer EXCEPT ![job.call] = "lost"]
  /\ UNCHANGED firm

\* The process stops; the system keeps what it wrote.
Crash ==
  /\ pc # "idle"
  /\ crashes < MaxCrashes
  /\ crashes' = crashes + 1
  /\ Interrupted
  /\ UNCHANGED <<disk, reads, losses, faults>>

\* What power loss may leave of a file: what was synced, what was written, or
\* the synced bytes with a torn piece of the next line.
Survivors(f) ==
  {f.disk, f.cache} \cup
  IF IsPrefix(f.disk, f.cache) /\ f.disk # f.cache
    THEN {Append(f.disk, Torn(x)) : x \in {f.cache[Len(f.disk) + 1]} \cap Frames}
    ELSE {}

\* Power loss leaves one of the directories the medium may hold.
PowerLoss ==
  /\ losses < MaxLosses
  /\ losses' = losses + 1
  /\ dir' \in medium
  /\ medium' = {dir'}
  /\ LET dirty == {i \in InUse : files[i].cache # files[i].disk}
     IN \E left \in [dirty -> UNION {Survivors(files[i]) : i \in dirty}] :
          /\ \A i \in dirty : left[i] \in Survivors(files[i])
          /\ files' = Tidy([i \in Inodes |-> IF i \in dirty
                                               THEN [cache |-> left[i], disk |-> left[i]]
                                               ELSE files[i]],
                           Range(dir'))
  /\ Interrupted
  /\ UNCHANGED <<reads, crashes, faults>>

-----------------------------------------------------------------------------
Append1 == CreateJournal \/ WriteJournal \/ SyncJournal \/ SyncJournalName
             \/ WriteTail \/ ShortWrite \/ SyncTail \/ DropSingle
AppendBundle == FillCandidate \/ SyncCandidate \/ WriteJournalTemp \/ SyncJournalTemp
             \/ RenameJournal \/ SyncRenamed \/ ReplaceTarget \/ ReplaceFails
             \/ SyncReplaced \/ DropJournal
Recovery == RecoverAtOnce \/ RecoverSingle \/ TruncateTail \/ SyncTarget
             \/ RecoverBundle \/ Clean \/ SyncCleaned

Next ==
  \/ \E c \in Calls : Begin(c)
  \/ BeginRead
  \/ Append1 \/ AppendBundle \/ Recovery
  \/ CallFails \/ Crash \/ PowerLoss

Spec == Init /\ [][Next]_vars

-----------------------------------------------------------------------------
(* Properties *)

Steps == {"idle", "createJournal", "writeJournal", "syncJournal", "syncJournalName",
          "writeTail", "syncTail", "dropSingle", "fillCandidate", "syncRenamed",
          "replaceTarget", "syncReplaced", "dropJournal", "recover", "truncateTail",
          "syncTarget", "clean", "syncCleaned"} \cup Preparing

\* The types, no name without an inode of its own, and a transaction that
\* creates its files where none is left of an earlier one.
TypeOK ==
  /\ DOMAIN files = Inodes
  /\ Range(dir) \subseteq Inodes
  /\ Cardinality(Range(dir)) = Cardinality(DOMAIN dir)
  /\ pc \in Steps
  /\ pc \in {"createJournal", "fillCandidate"} => Residue = {}
  /\ job.call \in Calls \cup {NoCall}
  /\ answer \in [Calls -> {"none", "ok", "committed", "failed", "lost"}]
  /\ firm \in Nat

\* Recovery never meets residue it must refuse: whatever stopped the runtime,
\* and however often, the log opens again.
RecoveryAccepts == ~Corrupt

Promise == INSTANCE AppendLog WITH log <- Visible, call <- job.call

\* The store keeps the promise of the abstract log: a batch appears whole or
\* not at all, the answer says whether it is there, a batch reported failed
\* never appears, and a success outlives every crash and power loss.
ImplementsLog == Promise!Spec
=============================================================================
