---------------------------- MODULE EventLogProofs ----------------------------
(***************************************************************************)
(* Proofs about EventLog for every set of calls, every number of files,    *)
(* reads, crashes, power losses and failing system calls. Inv is the       *)
(* inductive invariant. Its core is Good, said of every directory the      *)
(* medium may hold and not only of the one the process sees: the names are *)
(* those of one transaction, and what the files hold fits together. From   *)
(* it recovery never meets residue it must refuse. Refines, on top of it,  *)
(* relates what the medium may show to what was answered: the refinement   *)
(* of AppendLog.                                                           *)
(***************************************************************************)
EXTENDS EventLog, SubsequencesProofs, FiniteSetTheorems, TLAPS

WholeFrames == {f \in Frames : f.whole}
Logs == {x \in Seq(WholeFrames) : \A i \in DOMAIN x : WholeBatch(x, i)}
Bodies == [existed : BOOLEAN, before : Seq(Frames), after : Seq(Frames)]
Contents == Seq(Frames \cup Bodies)
FileSet == [cache : Contents, disk : Contents]

SingleNames == [kind : {"single"}, before : Logs, call : Calls \ Bundles]
BundleNames == {Target, Candidate, JournalTemp, Journal}
After(n) == Append(n.before, Line(n))
BodyOf(n) == Body(TRUE, n.before, After(n))

Jobs == [call : Calls \cup {NoCall}, synced : BOOLEAN,
         why : {"none", "append", "read", "write", "replace"}, took : BOOLEAN]

\* The types.
Typed ==
  /\ files \in [Inodes -> FileSet]
  /\ pc \in Steps
  /\ job \in Jobs
  /\ answer \in [Calls -> {"none", "ok", "committed", "failed", "lost"}]
  /\ firm \in Nat

-----------------------------------------------------------------------------
(* What the medium may hold *)

\* The files are a parameter: a step is compared with the one before.
Settled(fs, i) == fs[i].cache = fs[i].disk

\* The names are those of one transaction, and no two name one file.
Named(d) ==
  /\ \A m \in DOMAIN d : d[m] \in Inodes
  /\ \A m, n \in DOMAIN d : d[m] = d[n] => m = n
  /\ \/ DOMAIN d \subseteq BundleNames
     \/ \E n \in SingleNames : DOMAIN d = {Target, n}

LogOf(fs, d) == IF Target \in DOMAIN d THEN fs[d[Target]].cache ELSE <<>>

\* The log is whole and on the medium, unless a journal of one event says more.
Logged(fs, d) ==
  DOMAIN d \subseteq BundleNames =>
    /\ LogOf(fs, d) \in Logs
    /\ Target \in DOMAIN d => Settled(fs, d[Target])

\* The journal of one event accounts for the end of the log.
VouchedBy(t, f, n) ==
  /\ f.cache \in {<<>>, BodyOf(n)} /\ f.disk \in {<<>>, BodyOf(n)}
  /\ t.cache \in Recoverable(n) /\ t.disk \in Recoverable(n)
  /\ f.cache = <<>> \/ f.disk = <<>> => t.cache = n.before /\ t.disk = n.before

Vouched(fs, d) ==
  \A n \in DOMAIN d : n \in SingleNames => VouchedBy(fs[d[Target]], fs[d[n]], n)

\* The journal of a bundle knows the log before and after the replacement, and
\* the candidate that is to replace it.
Describes(fs, d, body) ==
  /\ fs[d[Journal]].cache = <<body>>
  /\ body.before \in Logs /\ body.after \in Logs
  /\ \/ Target \in DOMAIN d /\ LogOf(fs, d) = body.after
     \/ body.existed = (Target \in DOMAIN d) /\ LogOf(fs, d) = body.before
  /\ Candidate \in DOMAIN d => Settled(fs, d[Candidate]) /\ fs[d[Candidate]].cache = body.after

Replaceable(fs, d) ==
  Journal \in DOMAIN d =>
    Settled(fs, d[Journal]) /\ \E body \in Bodies : Describes(fs, d, body)

Good(fs, d) == Named(d) /\ Logged(fs, d) /\ Vouched(fs, d) /\ Replaceable(fs, d)

\* A log that is torn or not synced is the only one the medium can hold.
Loose(fs, d) ==
  \E n \in DOMAIN d :
    /\ n \in SingleNames
    /\ \/ fs[d[Target]].cache = Append(n.before, Torn(Line(n)))
       \/ ~Settled(fs, d[Target])

Alone == \A d \in medium : Loose(files, d) => medium = {d}

Medium == dir \in medium /\ (\A d \in medium : Good(files, d)) /\ Alone

-----------------------------------------------------------------------------
(* What runs *)

AppendSteps == {"createJournal", "writeJournal", "syncJournal", "syncJournalName", "writeTail",
                "syncTail", "dropSingle", "fillCandidate", "syncRenamed", "replaceTarget",
                "syncReplaced", "dropJournal"} \cup Preparing
RecoverySteps == {"recover", "truncateTail", "syncTarget", "clean", "syncCleaned"}

\* Who runs; the candidate is not synced before it is created.
Running ==
  /\ pc \in AppendSteps => job.why = "append"
  /\ job.why \in {"append", "write", "replace"} => job.call \in Calls
  /\ pc # "idle" => job.why # "none"
  /\ pc \in RecoverySteps \cup {"createJournal", "fillCandidate"} /\ job.why = "append" => ~job.synced
  /\ pc \in {"createJournal", "fillCandidate", "syncCleaned"} => Residue = {}
  /\ pc = "createJournal" => Exists(Target) /\ job.call \in Calls \ Bundles

\* An event is appended in place: under journal n, at this step.
InPlace(n) ==
  LET t == files[dir[Target]]
      f == files[dir[n]]
  IN /\ DOMAIN dir = {Target, n} /\ n.call = job.call
     /\ pc \in {"writeJournal", "syncJournal"} => \A d \in medium : dir[n] \in Range(d) => d = dir
     /\ pc = "writeJournal" => f.cache = <<>>
     /\ pc # "writeJournal" => f.cache = BodyOf(n)
     /\ pc \notin {"writeJournal", "syncJournal"} => f.disk = BodyOf(n)
     /\ pc \in {"writeTail", "syncTail", "dropSingle"} => medium = {dir}
     /\ pc \notin {"syncTail", "dropSingle"} => t.cache = n.before /\ t.disk = n.before
     /\ pc \in {"syncTail", "dropSingle"} => t.cache = After(n)
     /\ pc = "dropSingle" => t.disk = After(n)

SingleSteps == {"writeJournal", "syncJournal", "syncJournalName", "writeTail", "syncTail", "dropSingle"}
AppendsInPlace == pc \in SingleSteps => \E n \in SingleNames : InPlace(n)

\* A bundle is appended by replacement.
NewBody == [existed |-> Exists(Target), before |-> Frontier, after |-> Content(Candidate)]
Prepared ==
  /\ Candidate \in DOMAIN dir
  /\ Content(Candidate) = Frontier \o Batch(job.call)
  /\ pc \in Preparing => Journal \notin DOMAIN dir /\ (job.synced => Settled(files, dir[Candidate]))
  /\ pc = "writeJournalTemp" => JournalTemp \notin DOMAIN dir
  /\ pc \in {"syncJournalTemp", "renameJournal"} =>
       JournalTemp \in DOMAIN dir /\ Content(JournalTemp) = <<NewBody>>
  /\ pc = "renameJournal" => Settled(files, dir[JournalTemp])
  /\ pc \in {"syncRenamed", "replaceTarget"} =>
       /\ JournalTemp \notin DOMAIN dir
       /\ Journal \in DOMAIN dir /\ Content(Journal) = <<NewBody>>
  /\ pc = "replaceTarget" => medium = {dir}

Exchanged ==
  /\ DOMAIN dir = {Target, Journal}
  /\ Frontier = Content(Journal)[1].after
  /\ pc = "dropJournal" => medium = {dir}

Replaces ==
  /\ pc \in Preparing \cup {"syncRenamed", "replaceTarget"} =>
       DOMAIN dir \subseteq BundleNames /\ Prepared
  /\ pc \in {"syncReplaced", "dropJournal"} => Exchanged

\* Recovery under a journal of one event.
Recovers ==
  /\ pc \in {"truncateTail", "syncTarget"} =>
       \E n \in SingleNames :
         /\ DOMAIN dir = {Target, n} /\ Content(n) = BodyOf(n)
         /\ pc = "truncateTail" => Frontier = Append(n.before, Torn(Line(n)))
         /\ pc = "syncTarget" => Frontier \in {n.before, After(n)}
  /\ pc = "clean" =>
       /\ Residue # {}
       /\ \A n \in DOMAIN dir : n \in SingleNames =>
            Frontier \in {n.before, After(n)} /\ Settled(files, dir[Target])

Inv == Typed /\ Medium /\ Running /\ AppendsInPlace /\ Replaces /\ Recovers

-----------------------------------------------------------------------------
(* Names, frames, batches *)

LEMMA Names ==
  /\ \A n \in SingleNames : /\ n.kind = "single" /\ n.before \in Logs
                            /\ n.call \in Calls \ Bundles /\ n \notin BundleNames
  /\ \A m \in BundleNames : m.kind # "single" /\ m \notin SingleNames
  /\ \A m \in BundleNames : m.kind = "events" <=> m = Target
  /\ Target # Candidate /\ Target # JournalTemp /\ Target # Journal
  /\ Candidate # JournalTemp /\ Candidate # Journal /\ JournalTemp # Journal
<1>1. \A n \in SingleNames : n.kind = "single" /\ n.before \in Logs /\ n.call \in Calls \ Bundles
  BY DEF SingleNames
<1>2. /\ Target.kind = "events" /\ Candidate.kind = "candidate"
      /\ JournalTemp.kind = "journalTemp" /\ Journal.kind = "journal"
  BY DEF Target, Candidate, JournalTemp, Journal, Name
<1>. QED  BY <1>1, <1>2 DEF BundleNames

LEMMA NewName ==
  ASSUME NEW b \in Logs, NEW c \in Calls \ Bundles
  PROVE  /\ SingleJournal(b, c) \in SingleNames
         /\ SingleJournal(b, c).before = b /\ SingleJournal(b, c).call = c
BY DEF SingleJournal, SingleNames

LEMMA FrameSets ==
  /\ WholeFrames \subseteq Frames
  /\ \A c \in Calls, p \in {1, 2} : /\ Frame(c, p) \in WholeFrames
                                    /\ Frame(c, p).call = c /\ Frame(c, p).part = p
  /\ \A f \in Frames : /\ Torn(f) \in Frames /\ Torn(f) \notin WholeFrames
                       /\ Torn(Torn(f)) = Torn(f)
                       /\ Torn(f).call = f.call /\ Torn(f).part = f.part
<1>1. WholeFrames \subseteq Frames
  BY DEF WholeFrames
<1>2. ASSUME NEW c \in Calls, NEW p \in {1, 2}
      PROVE  Frame(c, p) \in WholeFrames /\ Frame(c, p).call = c /\ Frame(c, p).part = p
  BY DEF WholeFrames, Frame, Frames
<1>3. ASSUME NEW f \in Frames
      PROVE  /\ Torn(f) \in Frames /\ Torn(f) \notin WholeFrames /\ Torn(Torn(f)) = Torn(f)
             /\ Torn(f).call = f.call /\ Torn(f).part = f.part
  <2>1. Torn(f) = [f EXCEPT !.whole = FALSE]
    BY DEF Torn
  <2>2. /\ Torn(f) \in Frames /\ Torn(f).whole = FALSE
        /\ Torn(f).call = f.call /\ Torn(f).part = f.part
    BY <2>1 DEF Frames
  <2>3. Torn(Torn(f)) = Torn(f)
    <3>1. Torn(Torn(f)) = [Torn(f) EXCEPT !.whole = FALSE]
      BY DEF Torn
    <3>. QED  BY <2>2, <3>1 DEF Frames
  <2>. QED  BY <2>2, <2>3 DEF WholeFrames
<1>. QED  BY <1>1, <1>2, <1>3

\* A journal is not taken for a line.
LEMMA BodyIsNoFrame == ASSUME NEW b \in Bodies PROVE b \notin Frames
<1>1. DOMAIN b = {"existed", "before", "after"}
  BY DEF Bodies
<1>2. b \in Frames => DOMAIN b = {"call", "part", "whole"}
  BY DEF Frames
<1>3. "existed" \in DOMAIN b /\ "existed" \notin {"call", "part", "whole"}
  BY <1>1
<1>. QED  BY <1>2, <1>3

LEMMA BatchIs ==
  ASSUME NEW c \in Calls
  PROVE  /\ Batch(c) \in Seq(WholeFrames)
         /\ DOMAIN Batch(c) = 1 .. Len(Batch(c)) /\ Len(Batch(c)) \in {1, 2}
         /\ \A p \in DOMAIN Batch(c) : p \in {1, 2} /\ Batch(c)[p] = Frame(c, p)
         /\ c \notin Bundles => Batch(c) = <<Frame(c, 1)>>
<1>1. Frame(c, 1) \in WholeFrames /\ Frame(c, 2) \in WholeFrames
  BY FrameSets
<1>2. PICK f \in WholeFrames : f = Frame(c, 1)
  BY <1>1
<1>3. PICK g \in WholeFrames : g = Frame(c, 2)
  BY <1>1
<1>4. /\ <<f>> \in Seq(WholeFrames) /\ Len(<<f>>) = 1 /\ <<f>>[1] = f /\ DOMAIN <<f>> = 1 .. 1
      /\ <<f, g>> \in Seq(WholeFrames) /\ Len(<<f, g>>) = 2 /\ <<f, g>>[1] = f
      /\ <<f, g>>[2] = g /\ DOMAIN <<f, g>> = 1 .. 2
  OBVIOUS
<1>5. CASE c \in Bundles
  <2>1. Batch(c) = <<f, g>>
    BY <1>2, <1>3, <1>5 DEF Batch
  <2>2. \A p \in 1 .. 2 : p = 1 \/ p = 2
    OBVIOUS
  <2>. QED  BY <1>2, <1>3, <1>4, <1>5, <2>1, <2>2
<1>6. CASE c \notin Bundles
  <2>1. Batch(c) = <<f>>
    BY <1>2, <1>6 DEF Batch
  <2>2. \A p \in 1 .. 1 : p = 1
    OBVIOUS
  <2>. QED  BY <1>2, <1>4, <2>1, <2>2
<1>. QED  BY <1>5, <1>6

LEMMA EmptyLog == <<>> \in Logs
<1>1. <<>> \in Seq(WholeFrames) /\ DOMAIN <<>> = {}
  BY EmptySeq
<1>. QED  BY <1>1 DEF Logs

\* A log with a batch behind it.
LEMMA Longer ==
  ASSUME NEW x \in Logs, NEW c \in Calls, NEW y, y = x \o Batch(c)
  PROVE  /\ y \in Logs /\ Len(y) = Len(x) + Len(Batch(c))
         /\ \A i \in DOMAIN x : i \in DOMAIN y /\ y[i] = x[i]
         /\ \A p \in DOMAIN Batch(c) : Len(x) + p \in DOMAIN y /\ y[Len(x) + p] = Frame(c, p)
         /\ \A i \in DOMAIN y : i \in DOMAIN x \/ \E p \in DOMAIN Batch(c) : i = Len(x) + p
<1>1. PICK S : S = WholeFrames
  OBVIOUS
<1>2. PICK u \in Seq(S) : u = x
  BY <1>1 DEF Logs
<1>3. PICK v \in Seq(S) : v = Batch(c)
  BY <1>1, BatchIs
<1>4. PICK w : w = u \o v
  OBVIOUS
<1>5. w = y
  BY <1>2, <1>3, <1>4
<1>6. /\ w \in Seq(S) /\ Len(w) = Len(u) + Len(v)
      /\ \A i \in DOMAIN u : i \in DOMAIN w /\ w[i] = u[i]
      /\ \A p \in DOMAIN v : Len(u) + p \in DOMAIN w /\ w[Len(u) + p] = v[p]
      /\ \A i \in DOMAIN w : i \in DOMAIN u \/ \E p \in DOMAIN v : i = Len(u) + p
  <2>1. /\ w \in Seq(S) /\ Len(w) = Len(u) + Len(v)
        /\ \A i \in DOMAIN u : i \in DOMAIN w /\ w[i] = u[i]
        /\ \A p \in DOMAIN v : Len(u) + p \in DOMAIN w /\ w[Len(u) + p] = v[p]
    BY <1>4
  <2>2. ASSUME NEW i \in DOMAIN w, i \notin DOMAIN u
        PROVE  i - Len(u) \in DOMAIN v /\ i = Len(u) + (i - Len(u))
    BY <1>4, <2>1, <2>2
  <2>. QED  BY <2>1, <2>2
<1>7. /\ \A i \in DOMAIN x : i \in DOMAIN y /\ y[i] = x[i]
      /\ \A p \in DOMAIN Batch(c) : Len(x) + p \in DOMAIN y /\ y[Len(x) + p] = Frame(c, p)
      /\ \A i \in DOMAIN y : i \in DOMAIN x \/ \E p \in DOMAIN Batch(c) : i = Len(x) + p
  BY <1>2, <1>3, <1>5, <1>6, BatchIs
<1>8. ASSUME NEW i \in DOMAIN x
      PROVE  WholeBatch(y, i)
  <2>1. WholeBatch(x, i) /\ y[i] = x[i]
    BY <1>7 DEF Logs
  <2>. QED  BY <1>7, <2>1 DEF WholeBatch
<1>9. ASSUME NEW q \in DOMAIN Batch(c)
      PROVE  WholeBatch(y, Len(x) + q)
  <2>1. /\ y[Len(x) + q] = Frame(c, q) /\ Frame(c, q).call = c /\ Frame(c, q).part = q
        /\ q \in {1, 2} /\ Len(x) \in Nat
    BY <1>2, <1>7, BatchIs, FrameSets
  <2>. SUFFICES ASSUME NEW p \in DOMAIN Batch(c)
                PROVE  /\ Len(x) + q + p - q \in DOMAIN y
                       /\ y[Len(x) + q + p - q] = Frame(c, p)
    BY <2>1 DEF WholeBatch
  <2>2. p \in Nat /\ Len(x) + q + p - q = Len(x) + p
    BY <2>1, BatchIs
  <2>. QED  BY <1>7, <2>2
<1>10. \A i \in DOMAIN y : WholeBatch(y, i)
  BY <1>7, <1>8, <1>9
<1>11. Len(y) = Len(x) + Len(Batch(c)) /\ y \in Seq(WholeFrames)
  BY <1>1, <1>2, <1>3, <1>5, <1>6
<1>. QED  BY <1>7, <1>10, <1>11 DEF Logs

\* What the journal n of one event accounts for.
LEMMA Tails ==
  ASSUME NEW n \in SingleNames, NEW torn, torn = Append(n.before, Torn(Line(n)))
  PROVE  /\ n.before \in Logs /\ After(n) \in Logs /\ torn \notin Logs
         /\ n.before \in Seq(Frames) /\ After(n) \in Seq(Frames) /\ torn \in Seq(Frames)
         /\ After(n) # n.before /\ torn # n.before /\ torn # After(n)
         /\ After(n) = n.before \o Batch(n.call)
         /\ Recoverable(n) = {n.before, torn, After(n)}
         /\ Len(n.before) \in Nat /\ Len(After(n)) = Len(n.before) + 1
         /\ Len(torn) = Len(n.before) + 1
         /\ After(n)[Len(n.before) + 1] = Line(n) /\ torn[Len(n.before) + 1] = Torn(Line(n))
         /\ Line(n) \in WholeFrames /\ Torn(Line(n)) \in Frames
<1>1. n.before \in Logs /\ n.call \in Calls \ Bundles
  BY Names
<1>2. Line(n) \in WholeFrames /\ Line(n) \in Frames /\ Torn(Line(n)) \in Frames \ WholeFrames
  BY <1>1, FrameSets DEF Line
<1>3. PICK S : S = Frames
  OBVIOUS
<1>4. PICK W : W = WholeFrames
  OBVIOUS
<1>5. PICK e \in W : e = Line(n)
  BY <1>2, <1>4
<1>6. PICK t \in S : t = Torn(Line(n))
  BY <1>2, <1>3
<1>7. W \subseteq S /\ t \notin W
  BY <1>2, <1>3, <1>4, <1>6, FrameSets
<1>8. PICK b \in Seq(W) : b = n.before
  BY <1>1, <1>4 DEF Logs
<1>9. b \in Seq(S)
  BY <1>7
<1>10. PICK a : a = Append(b, e)
  OBVIOUS
<1>11. a = After(n) /\ torn = Append(b, t)
  BY <1>5, <1>6, <1>8, <1>10 DEF After
<1>12. /\ a \in Seq(W) /\ a \in Seq(S) /\ Len(a) = Len(b) + 1 /\ a[Len(b) + 1] = e
       /\ Len(b) \in Nat
  BY <1>7, <1>9, <1>10
<1>13. torn \in Seq(S) /\ Len(torn) = Len(b) + 1 /\ torn[Len(b) + 1] = t
  BY <1>9, <1>11
<1>14. torn \notin Seq(W)
  <2>1. Len(b) + 1 \in 1 .. Len(torn)
    BY <1>12, <1>13
  <2>. QED  BY <1>7, <1>13, <2>1
<1>15. a = b \o <<e>>
  BY <1>10
<1>16. Batch(n.call) = <<Line(n)>>
  BY <1>1, BatchIs DEF Line
<1>17. After(n) = n.before \o Batch(n.call)
  BY <1>5, <1>8, <1>11, <1>15, <1>16
<1>18. After(n) \in Logs
  BY <1>1, <1>17, Longer
<1>19. torn \notin Logs
  BY <1>4, <1>14 DEF Logs
<1>20. a # b /\ torn # b /\ torn # a
  <2>1. Len(b) # Len(b) + 1
    BY <1>12
  <2>. QED  BY <1>12, <1>13, <1>14, <2>1
<1>21. Recoverable(n) = {n.before, torn, After(n)}
  BY DEF Recoverable, After
<1>. QED  BY <1>1, <1>2, <1>3, <1>5, <1>6, <1>8, <1>9, <1>11, <1>12, <1>13, <1>17, <1>18, <1>19,
             <1>20, <1>21

-----------------------------------------------------------------------------
(* What keeps a directory good *)

\* The names are those of a bundle, or the log with the journal of one event.
LEMMA Either ==
  ASSUME NEW d, Named(d)
  PROVE  \/ DOMAIN d \subseteq BundleNames /\ \A n \in DOMAIN d : n \notin SingleNames
         \/ /\ ~(DOMAIN d \subseteq BundleNames)
            /\ \E n \in SingleNames : /\ DOMAIN d = {Target, n}
                                      /\ \A m \in DOMAIN d : m \in SingleNames => m = n
                                      /\ Candidate \notin DOMAIN d /\ JournalTemp \notin DOMAIN d
                                      /\ Journal \notin DOMAIN d /\ n # Target
<1>1. Target \in BundleNames /\ Candidate \in BundleNames /\ JournalTemp \in BundleNames
      /\ Journal \in BundleNames
  BY DEF BundleNames
<1>2. CASE DOMAIN d \subseteq BundleNames
  BY <1>2, Names
<1>3. ASSUME NEW n \in SingleNames, DOMAIN d = {Target, n}
      PROVE  /\ ~(DOMAIN d \subseteq BundleNames)
             /\ \A m \in DOMAIN d : m \in SingleNames => m = n
             /\ Candidate \notin DOMAIN d /\ JournalTemp \notin DOMAIN d
             /\ Journal \notin DOMAIN d /\ n # Target
  BY <1>1, <1>3, Names
<1>. QED  BY <1>2, <1>3 DEF Named

\* A sync puts on the medium what the process sees.
LEMMA Synced ==
  ASSUME NEW fs, NEW gs, NEW d, Good(fs, d),
         \A n \in DOMAIN d : /\ gs[d[n]].cache = fs[d[n]].cache
                             /\ gs[d[n]].disk \in {fs[d[n]].disk, fs[d[n]].cache}
  PROVE  Good(gs, d)
<1>1. \A n \in DOMAIN d : Settled(fs, d[n]) => Settled(gs, d[n])
  BY DEF Settled
<1>2. LogOf(gs, d) = LogOf(fs, d)
  BY DEF LogOf
<1>3. Logged(gs, d)
  BY <1>1, <1>2 DEF Good, Logged
<1>4. Vouched(gs, d)
  <2>. SUFFICES ASSUME NEW n \in DOMAIN d, n \in SingleNames
                PROVE  VouchedBy(gs[d[Target]], gs[d[n]], n)
    BY DEF Vouched
  <2>1. VouchedBy(fs[d[Target]], fs[d[n]], n)
    BY DEF Good, Vouched
  <2>2. Target \in DOMAIN d
    BY Either DEF Good
  <2>3. /\ gs[d[n]].cache = fs[d[n]].cache /\ gs[d[n]].disk \in {fs[d[n]].disk, fs[d[n]].cache}
        /\ gs[d[Target]].cache = fs[d[Target]].cache
        /\ gs[d[Target]].disk \in {fs[d[Target]].disk, fs[d[Target]].cache}
    BY <2>2
  <2>. QED  BY <2>1, <2>3 DEF VouchedBy
<1>5. Replaceable(gs, d)
  <2>. SUFFICES ASSUME Journal \in DOMAIN d
                PROVE  Settled(gs, d[Journal]) /\ \E body \in Bodies : Describes(gs, d, body)
    BY DEF Replaceable
  <2>1. Settled(gs, d[Journal])
    BY <1>1 DEF Good, Replaceable
  <2>2. PICK body \in Bodies : Describes(fs, d, body)
    BY DEF Good, Replaceable
  <2>3. Describes(gs, d, body)
    BY <1>1, <1>2, <2>2 DEF Describes
  <2>. QED  BY <2>1, <2>2, <2>3
<1>. QED  BY <1>3, <1>4, <1>5 DEF Good

\* The same files under the same names.
LEMMA Untouched ==
  ASSUME NEW fs, NEW gs, NEW d, Good(fs, d), \A n \in DOMAIN d : gs[d[n]] = fs[d[n]]
  PROVE  Good(gs, d)
BY Synced

\* Power loss leaves of a settled file what it holds, of the log under the
\* journal of one event a tail it accounts for, and of that journal all or nothing.
LEMMA SettledSurvives ==
  ASSUME NEW f, f.cache = f.disk, NEW v \in Survivors(f)
  PROVE  v = f.cache
BY DEF Survivors

LEMMA JournalSurvives ==
  ASSUME NEW n \in SingleNames, NEW f, NEW v \in Survivors(f),
         f.cache \in {<<>>, BodyOf(n)}, f.disk \in {<<>>, BodyOf(n)}
  PROVE  v \in {f.cache, f.disk}
<1>1. PICK body : body = [existed |-> TRUE, before |-> n.before, after |-> After(n)]
  OBVIOUS
<1>2. body \in Bodies
  <2>1. n.before \in Seq(Frames) /\ After(n) \in Seq(Frames)
    BY Tails
  <2>. QED  BY <1>1, <2>1 DEF Bodies
<1>3. BodyOf(n) = <<body>> /\ <<body>>[1] = body /\ Len(<<>>) = 0 /\ Len(<<body>>) = 1
  BY <1>1 DEF BodyOf, Body
<1>4. body \notin Frames
  BY <1>2, BodyIsNoFrame
<1>5. CASE f.disk = <<>> /\ f.cache = <<body>>
  <2>1. f.cache[Len(f.disk) + 1] = body
    BY <1>3, <1>5
  <2>2. {f.cache[Len(f.disk) + 1]} \cap Frames = {}
    BY <1>4, <2>1
  <2>. QED  BY <2>2 DEF Survivors
<1>6. CASE f.disk = <<body>> /\ f.cache = <<>>
  <2>1. ~IsPrefix(f.disk, f.cache)
    BY <1>3, <1>6 DEF IsPrefix
  <2>. QED  BY <2>1 DEF Survivors
<1>7. CASE f.disk = f.cache
  BY <1>7 DEF Survivors
<1>. QED  BY <1>3, <1>5, <1>6, <1>7

LEMMA TailSurvives ==
  ASSUME NEW n \in SingleNames, NEW f, NEW v \in Survivors(f),
         f.cache \in Recoverable(n), f.disk \in Recoverable(n)
  PROVE  v \in Recoverable(n)
<1>1. PICK torn : torn = Append(n.before, Torn(Line(n)))
  OBVIOUS
<1>2. PICK k \in Nat : k = Len(n.before)
  BY Tails
<1>3. /\ Recoverable(n) = {n.before, torn, After(n)}
      /\ n.before \in Seq(Frames) /\ After(n) \in Seq(Frames) /\ torn \in Seq(Frames)
      /\ Len(After(n)) = k + 1 /\ Len(torn) = k + 1
      /\ After(n)[k + 1] = Line(n) /\ torn[k + 1] = Torn(Line(n))
      /\ Line(n) \in Frames
  BY <1>1, <1>2, Tails, FrameSets
<1>4. Torn(Torn(Line(n))) = Torn(Line(n))
  BY <1>3, FrameSets
<1>. SUFFICES ASSUME IsPrefix(f.disk, f.cache), f.disk # f.cache,
                     NEW x \in {f.cache[Len(f.disk) + 1]} \cap Frames,
                     v = Append(f.disk, Torn(x))
              PROVE  v \in Recoverable(n)
  BY DEF Survivors
<1>5. CASE f.disk = n.before
  <2>1. f.cache \in {torn, After(n)}
    BY <1>3, <1>5
  <2>2. x \in {Line(n), Torn(Line(n))}
    BY <1>2, <1>3, <1>5, <2>1
  <2>3. v = torn
    BY <1>1, <1>4, <1>5, <2>2
  <2>. QED  BY <1>3, <2>3
<1>6. CASE f.disk \in {torn, After(n)}
  <2>1. PICK S : S = Frames
    OBVIOUS
  <2>2. PICK p \in Seq(S) : p = f.disk
    BY <1>3, <1>6, <2>1
  <2>3. PICK q \in Seq(S) : q = f.cache
    BY <1>3, <2>1
  <2>4. Len(p) = k + 1 /\ Len(q) <= k + 1
    BY <1>2, <1>3, <1>6, <2>2, <2>3
  <2>5. Len(p) <= Len(q) /\ SubSeq(p, 1, Len(p)) = SubSeq(q, 1, Len(p))
    BY <2>2, <2>3 DEF IsPrefix
  <2>6. Len(p) = Len(q)
    BY <2>4, <2>5
  <2>7. p = SubSeq(p, 1, Len(p)) /\ q = SubSeq(q, 1, Len(q))
    OBVIOUS
  <2>. QED  BY <2>2, <2>3, <2>5, <2>6, <2>7
<1>. QED  BY <1>3, <1>5, <1>6

LEMMA Survived ==
  ASSUME NEW fs, NEW gs, NEW d, Good(fs, d),
         \A n \in DOMAIN d : gs[d[n]].cache = gs[d[n]].disk /\ gs[d[n]].cache \in Survivors(fs[d[n]])
  PROVE  Good(gs, d)
<1>1. \A n \in DOMAIN d : Settled(gs, d[n])
  BY DEF Settled
<1>2. \A n \in DOMAIN d : Settled(fs, d[n]) => gs[d[n]].cache = fs[d[n]].cache
  BY SettledSurvives DEF Settled
<1>3. DOMAIN d \subseteq BundleNames => LogOf(gs, d) = LogOf(fs, d)
  BY <1>2 DEF LogOf, Good, Logged
<1>4. Logged(gs, d)
  BY <1>1, <1>3 DEF Good, Logged
<1>5. Vouched(gs, d)
  <2>. SUFFICES ASSUME NEW n \in DOMAIN d, n \in SingleNames
                PROVE  VouchedBy(gs[d[Target]], gs[d[n]], n)
    BY DEF Vouched
  <2>1. VouchedBy(fs[d[Target]], fs[d[n]], n)
    BY DEF Good, Vouched
  <2>2. Target \in DOMAIN d
    BY Either DEF Good
  <2>3. gs[d[n]].cache \in {fs[d[n]].cache, fs[d[n]].disk} /\ gs[d[n]].disk = gs[d[n]].cache
    BY <2>1, JournalSurvives DEF VouchedBy
  <2>4. gs[d[Target]].cache \in Recoverable(n) /\ gs[d[Target]].disk = gs[d[Target]].cache
    BY <2>1, <2>2, TailSurvives DEF VouchedBy
  <2>5. gs[d[n]].cache = <<>> => gs[d[Target]].cache = n.before
    <3>. SUFFICES ASSUME gs[d[n]].cache = <<>>
                  PROVE  gs[d[Target]].cache = n.before
      OBVIOUS
    <3>1. fs[d[Target]].cache = n.before /\ fs[d[Target]].disk = n.before
      BY <2>1, <2>3 DEF VouchedBy
    <3>. QED  BY <1>2, <2>2, <3>1 DEF Settled
  <2>. QED  BY <2>1, <2>3, <2>4, <2>5 DEF VouchedBy
<1>6. Replaceable(gs, d)
  <2>. SUFFICES ASSUME Journal \in DOMAIN d
                PROVE  Settled(gs, d[Journal]) /\ \E body \in Bodies : Describes(gs, d, body)
    BY DEF Replaceable
  <2>1. Settled(fs, d[Journal]) /\ LogOf(gs, d) = LogOf(fs, d)
    BY <1>3, Either DEF Good, Replaceable
  <2>2. PICK body \in Bodies : Describes(fs, d, body)
    BY DEF Good, Replaceable
  <2>3. Describes(gs, d, body)
    BY <1>1, <1>2, <2>1, <2>2 DEF Describes
  <2>. QED  BY <1>1, <2>2, <2>3
<1>. QED  BY <1>4, <1>5, <1>6 DEF Good

\* The residue of a bundle is removed, a file at a time.
LEMMA ResidueRemoved ==
  ASSUME NEW fs, NEW d, Good(fs, d), DOMAIN d \subseteq BundleNames, NEW m, m # Target,
         NEW e, e = Without(d, m)
  PROVE  Good(fs, e)
<1>1. /\ DOMAIN e = DOMAIN d \ {m} /\ \A n \in DOMAIN e : e[n] = d[n]
      /\ Target \in DOMAIN e <=> Target \in DOMAIN d
  BY DEF Without, Bound
<1>2. Named(e)
  BY <1>1 DEF Good, Named
<1>3. LogOf(fs, e) = LogOf(fs, d)
  BY <1>1 DEF LogOf
<1>4. Logged(fs, e)
  BY <1>1, <1>3 DEF Good, Logged
<1>5. Vouched(fs, e)
  BY <1>1, Names DEF Vouched
<1>6. Replaceable(fs, e)
  BY <1>1, <1>3 DEF Good, Replaceable, Describes
<1>. QED  BY <1>2, <1>4, <1>5, <1>6 DEF Good

\* The journal of one event is removed once the log is whole and on the medium.
LEMMA VoucherRemoved ==
  ASSUME NEW fs, NEW d, Good(fs, d), NEW n \in SingleNames, DOMAIN d = {Target, n},
         Settled(fs, d[Target]), fs[d[Target]].cache \in {n.before, After(n)},
         NEW e, e = Without(d, n)
  PROVE  Good(fs, e) /\ DOMAIN e = {Target}
<1>0. n # Target /\ n.before \in Logs /\ After(n) \in Logs
  BY Tails, Names DEF BundleNames
<1>1. DOMAIN e = {Target} /\ e[Target] = d[Target]
  BY <1>0 DEF Without
<1>2. {Target} \subseteq BundleNames /\ Target \notin SingleNames /\ Journal # Target
  BY Names DEF BundleNames
<1>3. Named(e)
  BY <1>1, <1>2 DEF Good, Named
<1>4. Logged(fs, e)
  BY <1>0, <1>1 DEF Logged, LogOf
<1>5. Vouched(fs, e) /\ Replaceable(fs, e)
  BY <1>1, <1>2 DEF Vouched, Replaceable
<1>. QED  BY <1>1, <1>3, <1>4, <1>5 DEF Good

\* A new file gets the name m.
Gains(d, m, i, e) ==
  /\ DOMAIN e = DOMAIN d \cup {m} /\ e[m] = i
  /\ \A n \in DOMAIN d : e[n] = d[n]
  /\ \A n \in DOMAIN e : e[n] \in Inodes
  /\ \A n, k \in DOMAIN e : e[n] = e[k] => n = k

LEMMA NamedNew ==
  ASSUME NEW d, Named(d), DOMAIN d \subseteq BundleNames, NEW i \in Inodes, i \notin Range(d),
         NEW m, m \notin DOMAIN d, NEW e, e = Bound(d, m, i)
  PROVE  Gains(d, m, i, e)
<1>1. DOMAIN e = DOMAIN d \cup {m} /\ e[m] = i /\ \A n \in DOMAIN d : e[n] = d[n]
  BY DEF Without, Bound
<1>2. \A n \in DOMAIN d : d[n] # i
  BY DEF Range
<1>. QED  BY <1>1, <1>2 DEF Named, Gains

\* The candidate or the temporary of a bundle is created.
LEMMA Opened ==
  ASSUME NEW fs, NEW gs, NEW d, Good(fs, d), DOMAIN d \subseteq BundleNames,
         Journal \notin DOMAIN d, \A n \in DOMAIN d : gs[d[n]] = fs[d[n]],
         NEW i \in Inodes, i \notin Range(d), NEW m \in {Candidate, JournalTemp}, m \notin DOMAIN d,
         NEW e, e = Bound(d, m, i)
  PROVE  Good(gs, e)
<1>0. Good(gs, d)
  BY Untouched
<1>1. /\ DOMAIN e = DOMAIN d \cup {m} /\ e[m] = i
      /\ \A n \in DOMAIN d : e[n] = d[n]
      /\ \A n \in DOMAIN e : e[n] \in Inodes
      /\ \A n, k \in DOMAIN e : e[n] = e[k] => n = k
  <2>1. Named(d)
    BY DEF Good
  <2>2. Gains(d, m, i, e)
    BY <2>1, NamedNew
  <2>. QED  BY <2>2 DEF Gains
<1>2. m \in BundleNames /\ m # Target /\ m # Journal
  BY Names DEF BundleNames
<1>3. Named(e)
  BY <1>1, <1>2 DEF Named
<1>4. LogOf(gs, e) = LogOf(gs, d)
  BY <1>1, <1>2 DEF LogOf
<1>5. Logged(gs, e)
  BY <1>0, <1>1, <1>2, <1>4 DEF Good, Logged
<1>6. Vouched(gs, e)
  BY <1>1, <1>2, Names DEF Vouched
<1>7. Replaceable(gs, e)
  BY <1>1, <1>2 DEF Replaceable
<1>. QED  BY <1>3, <1>5, <1>6, <1>7 DEF Good

\* The journal of one event is created, and binds the log as it is.
LEMMA VoucherOpened ==
  ASSUME NEW fs, NEW gs, NEW d, Good(fs, d), DOMAIN d = {Target},
         \A n \in DOMAIN d : gs[d[n]] = fs[d[n]],
         NEW i \in Inodes, i \notin Range(d), gs[i] = Blank,
         NEW n \in SingleNames, n.before = LogOf(fs, d),
         NEW e, e = Bound(d, n, i)
  PROVE  Good(gs, e) /\ Gains(d, n, i, e)
<1>1. n \notin BundleNames /\ Target \in BundleNames /\ n # Target /\ Journal # Target
  BY Names DEF BundleNames
<1>2. DOMAIN d \subseteq BundleNames /\ n \notin DOMAIN d
  BY <1>1
<1>10. Named(d)
  BY DEF Good
<1>11. Gains(d, n, i, e)
  BY <1>2, <1>10, NamedNew
<1>3. /\ DOMAIN e = {Target, n} /\ e[n] = i /\ e[Target] = d[Target]
      /\ \A k \in DOMAIN e : e[k] \in Inodes
      /\ \A k, m \in DOMAIN e : e[k] = e[m] => k = m
  BY <1>11 DEF Gains
<1>4. Named(e)
  BY <1>3 DEF Named
<1>5. ~(DOMAIN e \subseteq BundleNames) /\ Journal \notin DOMAIN e
  BY <1>1, <1>3, Names DEF BundleNames
<1>6. gs[d[Target]].cache = n.before /\ gs[d[Target]].disk = n.before
  BY <1>2 DEF Good, Logged, LogOf, Settled
<1>7. Vouched(gs, e)
  <2>. SUFFICES ASSUME NEW k \in DOMAIN e, k \in SingleNames
                PROVE  VouchedBy(gs[e[Target]], gs[e[k]], k)
    BY DEF Vouched
  <2>1. k = n
    BY <1>3, Names DEF BundleNames
  <2>2. gs[e[n]].cache = <<>> /\ gs[e[n]].disk = <<>>
    BY <1>3 DEF Blank
  <2>. QED  BY <1>3, <1>6, <2>1, <2>2 DEF VouchedBy, Recoverable
<1>. QED  BY <1>4, <1>5, <1>7, <1>11 DEF Good, Logged, Replaceable

\* The temporary becomes the journal of the bundle.
LEMMA JournalNamed ==
  ASSUME NEW fs, NEW d, Good(fs, d), DOMAIN d \subseteq BundleNames, Journal \notin DOMAIN d,
         JournalTemp \in DOMAIN d, Candidate \in DOMAIN d, Settled(fs, d[Candidate]),
         Settled(fs, d[JournalTemp]), NEW body \in Bodies, fs[d[JournalTemp]].cache = <<body>>,
         body.existed = (Target \in DOMAIN d), body.before = LogOf(fs, d),
         body.after = fs[d[Candidate]].cache, body.after \in Logs,
         NEW e, e = Bound(Without(d, JournalTemp), Journal, d[JournalTemp])
  PROVE  /\ Good(fs, e)
         /\ DOMAIN e = (DOMAIN d \ {JournalTemp}) \cup {Journal}
         /\ e[Journal] = d[JournalTemp] /\ \A n \in DOMAIN d \ {JournalTemp} : e[n] = d[n]
<1>1. /\ DOMAIN e = (DOMAIN d \ {JournalTemp}) \cup {Journal} /\ e[Journal] = d[JournalTemp]
      /\ \A n \in DOMAIN d : n # JournalTemp => e[n] = d[n]
  BY DEF Without, Bound
<1>2. /\ Journal \in BundleNames /\ Target # JournalTemp /\ Target # Journal
      /\ Candidate # JournalTemp /\ Candidate # Journal
  BY Names DEF BundleNames
<1>3. Named(e)
  BY <1>1, <1>2 DEF Good, Named
<1>4. LogOf(fs, e) = LogOf(fs, d) /\ (Target \in DOMAIN e <=> Target \in DOMAIN d)
  BY <1>1, <1>2 DEF LogOf
<1>5. Logged(fs, e)
  BY <1>1, <1>2, <1>4 DEF Good, Logged
<1>6. Vouched(fs, e)
  BY <1>1, <1>2, Names DEF Vouched
<1>7. Describes(fs, e, body)
  <2>1. body.before \in Logs
    BY DEF Good, Logged
  <2>2. Candidate \in DOMAIN e /\ e[Candidate] = d[Candidate]
    BY <1>1, <1>2
  <2>3. body.existed = (Target \in DOMAIN e)
    BY <1>4
  <2>. QED  BY <1>1, <1>4, <2>1, <2>2, <2>3 DEF Describes
<1>8. Replaceable(fs, e)
  BY <1>1, <1>7 DEF Replaceable, Settled
<1>. QED  BY <1>1, <1>3, <1>5, <1>6, <1>8 DEF Good

\* The candidate becomes the log.
LEMMA LogReplaced ==
  ASSUME NEW fs, NEW d, Good(fs, d), Journal \in DOMAIN d, Candidate \in DOMAIN d,
         NEW e, e = Bound(Without(d, Candidate), Target, d[Candidate])
  PROVE  /\ Good(fs, e)
         /\ DOMAIN e = (DOMAIN d \ {Candidate}) \cup {Target}
         /\ e[Target] = d[Candidate]
         /\ \A n \in DOMAIN d \ {Candidate, Target} : e[n] = d[n]
<1>0. DOMAIN d \subseteq BundleNames
  BY Either DEF Good
<1>1. /\ DOMAIN e = (DOMAIN d \ {Candidate}) \cup {Target} /\ e[Target] = d[Candidate]
      /\ \A n \in DOMAIN d : n # Candidate /\ n # Target => e[n] = d[n]
  BY DEF Without, Bound
<1>2. Target \in BundleNames /\ Journal # Target /\ Journal # Candidate /\ Target # Candidate
  BY Names DEF BundleNames
<1>3. Named(e)
  BY <1>0, <1>1, <1>2 DEF Good, Named
<1>4. PICK body \in Bodies : Describes(fs, d, body)
  BY DEF Good, Replaceable
<1>5. Settled(fs, d[Candidate]) /\ fs[d[Candidate]].cache = body.after /\ body.after \in Logs
  BY <1>4 DEF Describes
<1>6. LogOf(fs, e) = body.after
  BY <1>1, <1>5 DEF LogOf
<1>7. Logged(fs, e)
  BY <1>1, <1>5, <1>6 DEF Logged
<1>8. Vouched(fs, e)
  BY <1>0, <1>1, <1>2, Names DEF Vouched
<1>9. e[Journal] = d[Journal] /\ Candidate \notin DOMAIN e
  BY <1>1, <1>2
<1>10. Replaceable(fs, e)
  <2>1. Describes(fs, e, body)
    BY <1>1, <1>4, <1>6, <1>9 DEF Describes
  <2>. QED  BY <1>9, <2>1 DEF Good, Replaceable
<1>. QED  BY <1>1, <1>3, <1>7, <1>8, <1>10 DEF Good

\* A journal of one event accounts for what the files hold now.
LEMMA VouchedAnew ==
  ASSUME NEW gs, NEW d, Named(d), NEW n \in SingleNames, DOMAIN d = {Target, n},
         VouchedBy(gs[d[Target]], gs[d[n]], n)
  PROVE  Good(gs, d)
<1>1. /\ ~(DOMAIN d \subseteq BundleNames) /\ Journal \notin DOMAIN d
      /\ \A m \in DOMAIN d : m \in SingleNames => m = n
  BY Names DEF BundleNames
<1>. QED  BY <1>1 DEF Good, Logged, Vouched, Replaceable

-----------------------------------------------------------------------------
(* What is seen of a good directory *)

LEMMA Seen ==
  ASSUME Good(files, dir)
  PROVE  /\ Residue = DOMAIN dir \ {Target}
         /\ Singles = {n \in DOMAIN dir : n \in SingleNames}
         /\ \A n \in SingleNames : n \in DOMAIN dir =>
              /\ DOMAIN dir = {Target, n} /\ Singles = {n} /\ Residue = {n} /\ TheSingle = n
              /\ VouchedBy(files[dir[Target]], files[dir[n]], n)
         /\ Frontier = LogOf(files, dir)
<1>1. \A m \in BundleNames : (m.kind # "events" <=> m # Target) /\ m.kind # "single"
  BY Names
<1>2. \A n \in SingleNames : n.kind = "single" /\ n \notin BundleNames
  BY Names
<1>3. Target \in BundleNames
  BY DEF BundleNames
<1>4. DOMAIN dir \subseteq BundleNames \/ \E n \in SingleNames : DOMAIN dir = {Target, n}
  BY DEF Good, Named
<1>5. \A m \in DOMAIN dir : m \in BundleNames \/ m \in SingleNames
  BY <1>3, <1>4
<1>6. Residue = DOMAIN dir \ {Target}
  BY <1>1, <1>2, <1>3, <1>5 DEF Residue
<1>7. Singles = {n \in DOMAIN dir : n \in SingleNames}
  BY <1>1, <1>2, <1>3, <1>5 DEF Residue, Singles
<1>8. ASSUME NEW n \in SingleNames, n \in DOMAIN dir
      PROVE  DOMAIN dir = {Target, n} /\ Singles = {n} /\ Residue = {n} /\ TheSingle = n
  <2>1. DOMAIN dir = {Target, n}
    BY <1>2, <1>3, <1>4, <1>8
  <2>2. Singles = {n}
    BY <1>2, <1>3, <1>7, <2>1
  <2>. QED  BY <1>2, <1>3, <1>6, <2>1, <2>2 DEF TheSingle
<1>9. Frontier = LogOf(files, dir)
  BY DEF Frontier, LogOf, Exists, Content
<1>. QED  BY <1>6, <1>7, <1>8, <1>9 DEF Good, Vouched

\* Recovery accepts a good directory.
LEMMA Accepted ==
  ASSUME Good(files, dir)
  PROVE  ~Corrupt
<1>1. CASE \E n \in SingleNames : n \in DOMAIN dir
  <2>1. PICK n \in SingleNames : n \in DOMAIN dir
    BY <1>1
  <2>2. /\ DOMAIN dir = {Target, n} /\ Singles = {n} /\ Residue = {n}
        /\ VouchedBy(files[dir[Target]], files[dir[n]], n)
    BY <2>1, Seen
  <2>3. Cardinality(Singles) = 1
    BY <2>2, FS_Singleton
  <2>4. ~(Cardinality(Singles) > 1)
    BY <2>3
  <2>5. Exists(Target) /\ ~Exists(Journal)
    BY <2>2, Names DEF Exists, BundleNames
  <2>6. Frontier \in (IF Content(n) = <<>> THEN {n.before} ELSE Recoverable(n))
    BY <2>2, <2>5 DEF VouchedBy, Frontier, Content
  <2>. QED  BY <2>2, <2>4, <2>5, <2>6 DEF Corrupt
<1>2. CASE ~\E n \in SingleNames : n \in DOMAIN dir
  <2>1. Singles = {}
    BY <1>2, Seen
  <2>2. Cardinality(Singles) = 0
    BY <2>1, FS_EmptySet
  <2>3. ~(Cardinality(Singles) > 1)
    BY <2>2
  <2>. SUFFICES ASSUME Exists(Journal)
                PROVE  /\ Content(Journal) # <<>>
                       /\ LET j == Content(Journal)[1]
                          IN /\ \/ Exists(Target) /\ Frontier = j.after
                                \/ Exists(Target) = j.existed /\ Frontier = j.before
                             /\ ~(Exists(Candidate) /\ Content(Candidate) # j.after)
    BY <2>1, <2>3 DEF Corrupt
  <2>4. PICK body \in Bodies : Describes(files, dir, body)
    BY DEF Exists, Good, Replaceable
  <2>5. Content(Journal) = <<body>> /\ <<body>> # <<>> /\ <<body>>[1] = body
    BY <2>4 DEF Describes, Content
  <2>6. Frontier = LogOf(files, dir)
    BY Seen
  <2>. QED  BY <2>4, <2>5, <2>6 DEF Describes, Exists, Content
<1>. QED  BY <1>1, <1>2

-----------------------------------------------------------------------------
(* What keeps the medium good *)

\* A file is synced.
LEMMA MediumSynced ==
  ASSUME Medium, UNCHANGED <<dir, medium>>,
         \A i \in Inodes : files'[i].cache = files[i].cache
                           /\ files'[i].disk \in {files[i].disk, files[i].cache}
  PROVE  Medium'
<1>1. PICK gs : gs = files'
  OBVIOUS
<1>2. ASSUME NEW d \in medium
      PROVE  Good(gs, d) /\ (Loose(gs, d) => Loose(files, d))
  <2>1. Good(files, d) /\ \A n \in DOMAIN d : d[n] \in Inodes
    BY DEF Medium, Good, Named
  <2>2. \A n \in DOMAIN d : /\ gs[d[n]].cache = files[d[n]].cache
                            /\ gs[d[n]].disk \in {files[d[n]].disk, files[d[n]].cache}
    BY <1>1, <2>1
  <2>3. Good(gs, d)
    BY <2>1, <2>2, Synced
  <2>4. \A n \in DOMAIN d : n \in SingleNames => Target \in DOMAIN d
    BY <2>1, Either DEF Good
  <2>. QED  BY <2>2, <2>3, <2>4 DEF Loose, Settled
<1>3. (\A d \in medium : Good(gs, d)) /\ \A d \in medium : Loose(gs, d) => medium = {d}
  BY <1>2 DEF Medium, Alone
<1>4. dir \in medium /\ dir' = dir /\ medium' = medium
  BY DEF Medium
<1>. QED  BY <1>1, <1>3, <1>4 DEF Medium, Alone

\* The medium holds one directory.
LEMMA MediumSettled ==
  ASSUME medium' = {dir'}, Good(files, dir)'
  PROVE  Medium'
BY DEF Medium, Alone

\* The directory is updated, and the log is whole and synced before and after.
LEMMA MediumGrown ==
  ASSUME Medium, NEW e, dir' = e, medium' = medium \cup {e},
         \A d \in medium : \A n \in DOMAIN d : files'[d[n]] = files[d[n]],
         Good(files', e), ~Loose(files, dir), ~Loose(files', e)
  PROVE  Medium'
<1>1. PICK gs : gs = files'
  OBVIOUS
<1>2. ASSUME NEW d \in medium
      PROVE  Good(gs, d) /\ ~Loose(gs, d)
  <2>1. Good(files, d)
    BY DEF Medium
  <2>2. \A n \in DOMAIN d : gs[d[n]] = files[d[n]]
    BY <1>1
  <2>3. \A n \in DOMAIN d : n \in SingleNames => Target \in DOMAIN d
    BY <2>1, Either DEF Good
  <2>4. Loose(gs, d) => Loose(files, d)
    BY <2>2, <2>3 DEF Loose, Settled
  <2>5. ~Loose(files, d)
    <3>. SUFFICES ASSUME Loose(files, d) PROVE FALSE
      OBVIOUS
    <3>1. medium = {d} /\ dir \in medium
      BY DEF Medium, Alone
    <3>. QED  BY <3>1
  <2>. QED  BY <2>1, <2>2, <2>4, <2>5, Untouched
<1>3. \A d \in medium \cup {e} : Good(gs, d) /\ ~Loose(gs, d)
  BY <1>1, <1>2
<1>. QED  BY <1>1, <1>3 DEF Medium, Alone


-----------------------------------------------------------------------------
(* What the system calls do to files and directories *)

LEMMA ContentTypes ==
  /\ Logs \subseteq Contents /\ Seq(Frames) \subseteq Contents /\ <<>> \in Contents
  /\ \A body \in Bodies : <<body>> \in Contents
  /\ Logs \subseteq Seq(Frames)
<1>1. PICK S : S = Frames \cup Bodies
  OBVIOUS
<1>2. PICK F : F = Frames
  OBVIOUS
<1>3. PICK W : W = WholeFrames
  OBVIOUS
<1>4. W \subseteq F /\ F \subseteq S
  BY <1>1, <1>2, <1>3, FrameSets
<1>5. Seq(W) \subseteq Seq(F) /\ Seq(F) \subseteq Seq(S)
  BY <1>4
<1>6. <<>> \in Seq(S)
  OBVIOUS
<1>7. \A e \in S : <<e>> \in Seq(S)
  OBVIOUS
<1>8. Logs \subseteq Seq(W)
  BY <1>3 DEF Logs
<1>. QED  BY <1>1, <1>2, <1>5, <1>6, <1>7, <1>8 DEF Contents

LEMMA BodyTypes ==
  /\ \A n \in SingleNames : BodyOf(n) \in Contents /\ BodyOf(n) # <<>>
  /\ \A existed \in BOOLEAN, x, y \in Seq(Frames) :
       [existed |-> existed, before |-> x, after |-> y] \in Bodies
<1>1. ASSUME NEW n \in SingleNames
      PROVE  BodyOf(n) \in Contents /\ BodyOf(n) # <<>>
  <2>1. PICK body : body = [existed |-> TRUE, before |-> n.before, after |-> After(n)]
    OBVIOUS
  <2>2. body \in Bodies
    BY <2>1, Tails DEF Bodies
  <2>3. BodyOf(n) = <<body>> /\ <<body>> # <<>>
    BY <2>1 DEF BodyOf, Body
  <2>. QED  BY <2>2, <2>3, ContentTypes
<1>2. \A existed \in BOOLEAN, x, y \in Seq(Frames) :
        [existed |-> existed, before |-> x, after |-> y] \in Bodies
  BY DEF Bodies
<1>. QED  BY <1>1, <1>2

\* The names of a good directory lead to files of their own.
LEMMA Led ==
  ASSUME Inv
  PROVE  /\ files \in [Inodes -> FileSet] /\ dir \in medium
         /\ Good(files, dir) /\ \A d \in medium : Good(files, d)
         /\ \A d \in medium : \A n \in DOMAIN d : d[n] \in Inodes
         /\ \A m, n \in DOMAIN dir : dir[m] = dir[n] => m = n
         /\ Medium /\ Typed
<1>1. Medium /\ Typed
  BY DEF Inv
<1>2. dir \in medium /\ \A d \in medium : Good(files, d)
  BY <1>1 DEF Medium
<1>3. \A d \in medium : Named(d)
  BY <1>2 DEF Good
<1>. QED  BY <1>1, <1>2, <1>3 DEF Typed, Named

LEMMA Wrote ==
  ASSUME Inv, NEW n \in DOMAIN dir, NEW x \in Contents, Write(n, x)
  PROVE  /\ files' \in [Inodes -> FileSet]
         /\ files'[dir[n]].cache = x /\ files'[dir[n]].disk = files[dir[n]].disk
         /\ \A i \in Inodes : i # dir[n] => files'[i] = files[i]
         /\ \A m \in DOMAIN dir : m # n => files'[dir[m]] = files[dir[m]]
         /\ dir' = dir /\ medium' = medium
<1>1. files \in [Inodes -> FileSet] /\ dir[n] \in Inodes
  BY Led
<1>2. \A m \in DOMAIN dir : dir[m] \in Inodes /\ (m # n => dir[m] # dir[n])
  BY Led
<1>3. files' = [files EXCEPT ![dir[n]].cache = x] /\ dir' = dir /\ medium' = medium
  BY DEF Write
<1>4. files[dir[n]] \in FileSet
  BY <1>1
<1>5. files'[dir[n]] = [files[dir[n]] EXCEPT !.cache = x]
  BY <1>1, <1>3
<1>6. /\ files'[dir[n]] \in FileSet
      /\ files'[dir[n]].cache = x /\ files'[dir[n]].disk = files[dir[n]].disk
  BY <1>4, <1>5 DEF FileSet
<1>7. \A i \in Inodes : i # dir[n] => files'[i] = files[i]
  BY <1>1, <1>3
<1>8. files' \in [Inodes -> FileSet]
  BY <1>1, <1>3, <1>6, <1>7
<1>. QED  BY <1>2, <1>3, <1>6, <1>7, <1>8

LEMMA SyncedOne ==
  ASSUME Inv, NEW n \in DOMAIN dir, SyncFile(n)
  PROVE  /\ files' \in [Inodes -> FileSet] /\ Medium'
         /\ \A i \in Inodes : files'[i].cache = files[i].cache
         /\ \A i \in Inodes : Settled(files, i) => Settled(files', i)
         /\ Settled(files', dir[n])
         /\ files'[dir[n]].disk = files[dir[n]].cache
         /\ \A m \in DOMAIN dir : dir[m] \in Inodes
         /\ \A m \in DOMAIN dir : m # n => files'[dir[m]] = files[dir[m]]
         /\ dir' = dir /\ medium' = medium
<1>1. files \in [Inodes -> FileSet] /\ dir[n] \in Inodes /\ Medium
  BY Led
<1>2. \A m \in DOMAIN dir : dir[m] \in Inodes /\ (m # n => dir[m] # dir[n])
  BY Led
<1>3. files' = [files EXCEPT ![dir[n]].disk = files[dir[n]].cache] /\ dir' = dir /\ medium' = medium
  BY DEF SyncFile, Content
<1>4. files[dir[n]] \in FileSet
  BY <1>1
<1>5. files'[dir[n]] = [files[dir[n]] EXCEPT !.disk = files[dir[n]].cache]
  BY <1>1, <1>3
<1>6. /\ files'[dir[n]] \in FileSet
      /\ files'[dir[n]].disk = files[dir[n]].cache /\ files'[dir[n]].cache = files[dir[n]].cache
  BY <1>4, <1>5 DEF FileSet
<1>7. \A i \in Inodes : i # dir[n] => files'[i] = files[i]
  BY <1>1, <1>3
<1>8. files' \in [Inodes -> FileSet]
  BY <1>1, <1>3, <1>6, <1>7
<1>9. \A i \in Inodes : files'[i].cache = files[i].cache
                        /\ files'[i].disk \in {files[i].disk, files[i].cache}
  BY <1>6, <1>7
<1>10. Medium'
  BY <1>1, <1>3, <1>9, MediumSynced
<1>11. \A i \in Inodes : Settled(files, i) => Settled(files', i)
  BY <1>9 DEF Settled
<1>12. Settled(files', dir[n])
  BY <1>6 DEF Settled
<1>. QED  BY <1>2, <1>3, <1>6, <1>7, <1>8, <1>9, <1>10, <1>11, <1>12

LEMMA Created ==
  ASSUME Inv, NEW n, NEW x \in Contents, Create(n, x)
  PROVE  \E i \in Inodes :
           /\ dir' = Bound(dir, n, i) /\ medium' = medium \cup {dir'}
           /\ files' \in [Inodes -> FileSet]
           /\ files'[i] = [cache |-> x, disk |-> <<>>]
           /\ \A d \in medium : i \notin Range(d)
           /\ \A d \in medium : \A m \in DOMAIN d : files'[d[m]] = files[d[m]]
<1>1. PICK i : i = FreshInode
  OBVIOUS
<1>2. i \in Inodes /\ i \notin InUse
  BY <1>1 DEF Create, FreshInode
<1>3. \A d \in medium : i \notin Range(d)
  BY <1>2 DEF InUse
<1>4. \A d \in medium : \A m \in DOMAIN d : d[m] \in Inodes /\ d[m] # i
  BY <1>3, Led DEF Range
<1>5. files \in [Inodes -> FileSet]
  BY Led
<1>6. files' = [files EXCEPT ![i] = [cache |-> x, disk |-> <<>>]]
  BY <1>1 DEF Create
<1>7. [cache |-> x, disk |-> <<>>] \in FileSet
  BY ContentTypes DEF FileSet
<1>8. files' \in [Inodes -> FileSet] /\ files'[i] = [cache |-> x, disk |-> <<>>]
  BY <1>2, <1>5, <1>6, <1>7
<1>9. \A d \in medium : \A m \in DOMAIN d : files'[d[m]] = files[d[m]]
  BY <1>4, <1>5, <1>6
<1>10. dir' = Bound(dir, n, i) /\ medium' = medium \cup {dir'}
  BY <1>1 DEF Create, Update
<1>. QED  BY <1>2, <1>3, <1>8, <1>9, <1>10

LEMMA BlankTyped == Blank \in FileSet
BY ContentTypes DEF Blank, FileSet

LEMMA SyncedAll ==
  ASSUME Inv, SyncDirectory
  PROVE  /\ files' \in [Inodes -> FileSet] /\ Medium'
         /\ \A m \in DOMAIN dir : files'[dir[m]] = files[dir[m]]
         /\ dir' = dir /\ medium' = {dir}
<1>1. /\ files \in [Inodes -> FileSet] /\ Good(files, dir)
      /\ \A m \in DOMAIN dir : dir[m] \in Inodes
  BY Led
<1>2. files' = [i \in Inodes |-> IF i \in Range(dir) THEN files[i] ELSE Blank]
      /\ dir' = dir /\ medium' = {dir}
  BY DEF SyncDirectory, Tidy
<1>3. \A m \in DOMAIN dir : dir[m] \in Range(dir)
  BY DEF Range
<1>4. files' \in [Inodes -> FileSet]
  BY <1>1, <1>2, BlankTyped
<1>5. \A m \in DOMAIN dir : files'[dir[m]] = files[dir[m]]
  BY <1>1, <1>2, <1>3
<1>6. PICK gs : gs = files'
  OBVIOUS
<1>7. PICK d : d = dir
  OBVIOUS
<1>8. Good(gs, d)
  BY <1>1, <1>5, <1>6, <1>7, Untouched
<1>9. Good(files, dir)'
  BY <1>2, <1>6, <1>7, <1>8
<1>10. Medium'
  BY <1>2, <1>9, MediumSettled
<1>. QED  BY <1>2, <1>4, <1>5, <1>10

-----------------------------------------------------------------------------
(* Returning, and going on after recovery *)

LEMMA FrontierTyped ==
  ASSUME Good(files, dir)
  PROVE  Frontier \in Seq(Frames)
<1>1. Frontier = LogOf(files, dir)
  BY Seen
<1>2. CASE DOMAIN dir \subseteq BundleNames
  BY <1>1, <1>2, ContentTypes DEF Good, Logged
<1>3. ASSUME NEW n \in SingleNames, DOMAIN dir = {Target, n}
      PROVE  Frontier \in Seq(Frames)
  <2>1. VouchedBy(files[dir[Target]], files[dir[n]], n)
    BY <1>3, Seen
  <2>2. Frontier \in Recoverable(n)
    BY <1>1, <1>3, <2>1 DEF VouchedBy, LogOf
  <2>3. PICK torn : torn = Append(n.before, Torn(Line(n)))
    OBVIOUS
  <2>4. /\ Recoverable(n) = {n.before, torn, After(n)} /\ n.before \in Seq(Frames)
        /\ torn \in Seq(Frames) /\ After(n) \in Seq(Frames)
    BY <2>3, Tails
  <2>. QED  BY <2>2, <2>4
<1>. QED  BY <1>2, <1>3 DEF Good, Named

LEMMA Counted ==
  ASSUME NEW x \in Seq(Frames)
  PROVE  Len(Batches(Whole(x))) \in Nat
<1>1. PICK S : S = Frames
  OBVIOUS
<1>2. PICK y : y = Whole(x)
  OBVIOUS
<1>3. y \in Seq(S)
  BY <1>1, <1>2, AmongMembers DEF Whole
<1>4. PICK heads \in Seq(S) : heads = Among(y, {f \in Frames : f.part = 1})
  BY <1>3, AmongMembers
<1>5. PICK calls : calls = [i \in DOMAIN heads |-> heads[i].call]
  OBVIOUS
<1>6. PICK R : R = {heads[i].call : i \in DOMAIN heads} \cup {NoCall}
  OBVIOUS
<1>7. calls \in Seq(R) /\ NoCall \in R
  <2>1. DOMAIN heads = 1 .. Len(heads) /\ Len(heads) \in Nat
    OBVIOUS
  <2>2. calls \in [1 .. Len(heads) -> R]
    BY <1>5, <1>6, <2>1
  <2>. QED  BY <1>6, <2>1, <2>2
<1>8. Batches(y) = calls \/ Batches(y) = Append(calls, NoCall)
  BY <1>4, <1>5 DEF Batches
<1>9. Append(calls, NoCall) \in Seq(R)
  BY <1>7
<1>. QED  BY <1>2, <1>7, <1>8, <1>9

LEMMA JobTypes ==
  /\ Idle \in Jobs /\ Idle.why = "none"
  /\ \A c \in Calls : /\ [Idle EXCEPT !.call = c, !.why = "append"] \in Jobs
                      /\ [Idle EXCEPT !.call = c, !.why = "append"].call = c
                      /\ [Idle EXCEPT !.call = c, !.why = "append"].why = "append"
                      /\ [Idle EXCEPT !.call = c, !.why = "append"].synced = FALSE
  /\ [Idle EXCEPT !.why = "read"] \in Jobs /\ [Idle EXCEPT !.why = "read"].why = "read"
BY DEF Idle, Jobs

\* Nobody runs, or recovery is about to begin.
LEMMA AtRest ==
  ASSUME Typed', Medium', pc' \in {"idle", "recover"}, pc' = "idle" => job' = Idle,
         pc' = "recover" => /\ job'.why # "none"
                            /\ job'.why \in {"append", "write", "replace"} => job'.call \in Calls
                            /\ job'.why = "append" => ~job'.synced
  PROVE  Inv'
<1>1. Running'
  BY JobTypes DEF Running, AppendSteps, RecoverySteps, Preparing
<1>2. AppendsInPlace'
  BY DEF AppendsInPlace, SingleSteps
<1>3. Replaces'
  BY DEF Replaces, Preparing
<1>4. Recovers'
  BY DEF Recovers
<1>. QED  BY <1>1, <1>2, <1>3, <1>4 DEF Inv

LEMMA Returned ==
  ASSUME Inv, NEW a \in {"ok", "committed", "failed"}, Tell(a),
         files' \in [Inodes -> FileSet], Medium'
  PROVE  Inv'
<1>1. Len(Visible) \in Nat
  BY Led, FrontierTyped, Counted DEF Visible
<1>2. pc' = "idle" /\ job' = Idle /\ firm' \in Nat
      /\ answer' = [answer EXCEPT ![job.call] = a]
  BY <1>1 DEF Tell, Inv, Typed
<1>3. answer' \in [Calls -> {"none", "ok", "committed", "failed", "lost"}]
  BY <1>2 DEF Inv, Typed
<1>4. Typed'
  BY <1>2, <1>3, JobTypes DEF Typed, Steps
<1>. QED  BY <1>2, <1>4, AtRest

LEMMA WentOn ==
  ASSUME Inv, pc \in {"recover", "syncCleaned"}, NEW took \in BOOLEAN, Recovered(took), dir' = dir,
         files' \in [Inodes -> FileSet], Medium', Residue = {}
  PROVE  Inv'
<1>1. CASE job.why = "append"
  <2>1. /\ pc' = IF job.call \in Bundles \/ ~Exists(Target) THEN "fillCandidate" ELSE "createJournal"
        /\ UNCHANGED <<job, told>>
    BY <1>1 DEF Recovered
  <2>2. Residue' = {} /\ (Exists(Target))' = Exists(Target)
    BY DEF Residue, Exists
  <2>3. job.call \in Calls /\ ~job.synced
    BY <1>1 DEF Inv, Running, RecoverySteps
  <2>4. Typed'
    BY <2>1 DEF Inv, Typed, told, Steps
  <2>5. Running'
    BY <1>1, <2>1, <2>2, <2>3 DEF Running, AppendSteps, RecoverySteps, Preparing
  <2>6. AppendsInPlace'
    BY <2>1 DEF AppendsInPlace, SingleSteps
  <2>7. Replaces'
    BY <2>1 DEF Replaces, Preparing
  <2>8. Recovers'
    BY <2>1 DEF Recovers
  <2>. QED  BY <2>4, <2>5, <2>6, <2>7, <2>8 DEF Inv
<1>2. CASE job.why = "read"
  <2>1. pc' = "idle" /\ job' = Idle /\ UNCHANGED told
    BY <1>2 DEF Recovered
  <2>2. Typed'
    BY <2>1, JobTypes DEF Inv, Typed, told, Steps
  <2>. QED  BY <2>1, <2>2, AtRest
<1>3. CASE job.why \notin {"append", "read"}
  <2>1. Tell(IF took THEN "committed" ELSE "failed")
    BY <1>3 DEF Recovered
  <2>2. PICK a \in {"ok", "committed", "failed"} : Tell(a)
    BY <2>1
  <2>. QED  BY <2>2, Returned
<1>. QED  BY <1>1, <1>2, <1>3

LEMMA GaveUp ==
  ASSUME Inv, NEW took \in BOOLEAN, Unrecovered(took), files' \in [Inodes -> FileSet], Medium'
  PROVE  Inv'
<1>1. CASE job.why = "read"
  <2>1. pc' = "idle" /\ job' = Idle /\ UNCHANGED told
    BY <1>1 DEF Unrecovered
  <2>2. Typed'
    BY <2>1, JobTypes DEF Inv, Typed, told, Steps
  <2>. QED  BY <2>1, <2>2, AtRest
<1>2. CASE job.why # "read"
  <2>1. Tell(IF took /\ job.why = "write" THEN "committed" ELSE "failed")
    BY <1>2 DEF Unrecovered
  <2>2. PICK a \in {"ok", "committed", "failed"} : Tell(a)
    BY <2>1
  <2>. QED  BY <2>2, Returned
<1>. QED  BY <1>1, <1>2

-----------------------------------------------------------------------------
(* One event, appended in place *)

\* What is known while an event is appended in place.
LEMMA Placing ==
  ASSUME Inv, pc \in SingleSteps
  PROVE  \E n \in SingleNames :
           /\ InPlace(n) /\ DOMAIN dir = {Target, n} /\ TheSingle = n /\ n.call = job.call
           /\ n # Target /\ Target \in DOMAIN dir /\ n \in DOMAIN dir
           /\ dir[Target] # dir[n] /\ dir[Target] \in Inodes /\ dir[n] \in Inodes
           /\ VouchedBy(files[dir[Target]], files[dir[n]], n)
           /\ Frontier = files[dir[Target]].cache
           /\ Named(dir) /\ job.why = "append" /\ job.call \in Calls
<1>1. PICK n \in SingleNames : InPlace(n)
  BY DEF Inv, AppendsInPlace
<1>2. DOMAIN dir = {Target, n} /\ n.call = job.call
  BY <1>1 DEF InPlace
<1>3. n # Target
  BY Names DEF BundleNames
<1>4. Good(files, dir) /\ (\A m \in DOMAIN dir : dir[m] \in Inodes)
      /\ \A m, k \in DOMAIN dir : dir[m] = dir[k] => m = k
  BY Led
<1>5. TheSingle = n /\ VouchedBy(files[dir[Target]], files[dir[n]], n)
  BY <1>2, <1>4, Seen
<1>6. Frontier = files[dir[Target]].cache
  BY <1>2, <1>4, Seen DEF LogOf
<1>7. job.why = "append" /\ job.call \in Calls
  BY DEF Inv, Running, AppendSteps, SingleSteps
<1>. QED  BY <1>1, <1>2, <1>3, <1>4, <1>5, <1>6, <1>7 DEF Good

\* The next step of the append keeps the invariant.
LEMMA Placed ==
  ASSUME Inv, pc \in SingleSteps \cup {"createJournal"}, NEW n \in SingleNames, InPlace(n)',
         pc' \in SingleSteps, UNCHANGED <<job, told>>,
         files' \in [Inodes -> FileSet], Medium'
  PROVE  Inv'
<1>1. Typed'
  BY DEF Inv, Typed, told, Steps, SingleSteps
<1>2. job.why = "append" /\ job.call \in Calls
  BY DEF Inv, Running, AppendSteps, SingleSteps
<1>3. Running'
  BY <1>2 DEF Running, SingleSteps, AppendSteps, RecoverySteps
<1>4. AppendsInPlace'
  BY DEF AppendsInPlace
<1>5. Replaces' /\ Recovers'
  BY DEF Replaces, Recovers, SingleSteps, Preparing
<1>. QED  BY <1>1, <1>3, <1>4, <1>5 DEF Inv

LEMMA CreateJournalKeeps == ASSUME Inv, CreateJournal PROVE Inv'
<1>1. PICK n : n = SingleJournal(Frontier, job.call)
  OBVIOUS
<1>2. pc = "createJournal" /\ pc' = "writeJournal" /\ UNCHANGED <<job, told>> /\ Create(n, <<>>)
  BY <1>1 DEF CreateJournal, Goto
<1>3. Residue = {} /\ Target \in DOMAIN dir /\ job.call \in Calls \ Bundles
  BY <1>2 DEF Inv, Running, Exists
<1>4. Medium /\ Good(files, dir)
  BY Led
<1>5. DOMAIN dir = {Target} /\ Frontier = LogOf(files, dir)
  BY <1>3, <1>4, Seen
<1>6. DOMAIN dir \subseteq BundleNames /\ Target \notin SingleNames
  BY <1>5, Names DEF BundleNames
<1>7. Frontier \in Logs /\ Settled(files, dir[Target]) /\ Frontier = files[dir[Target]].cache
  BY <1>4, <1>5, <1>6 DEF Good, Logged, LogOf
<1>8. n \in SingleNames /\ n.before = Frontier /\ n.call = job.call
  BY <1>1, <1>3, <1>7, NewName
<1>9. PICK i \in Inodes :
         /\ dir' = Bound(dir, n, i) /\ medium' = medium \cup {dir'}
         /\ files' \in [Inodes -> FileSet]
         /\ files'[i] = [cache |-> <<>>, disk |-> <<>>]
         /\ \A d \in medium : i \notin Range(d)
         /\ \A d \in medium : \A m \in DOMAIN d : files'[d[m]] = files[d[m]]
  BY <1>2, ContentTypes, Created
<1>10. PICK gs : gs = files'
  OBVIOUS
<1>11. PICK d : d = dir
  OBVIOUS
<1>12. PICK e : e = dir'
  OBVIOUS
<1>13. /\ i \notin Range(d) /\ gs[i] = Blank
       /\ \A m \in DOMAIN d : gs[d[m]] = files[d[m]]
  BY <1>4, <1>9, <1>10, <1>11 DEF Medium, Blank
<1>14. Good(gs, e) /\ DOMAIN e = {Target, n} /\ e[Target] = d[Target] /\ e[n] = i
  <2>1. e = Bound(d, n, i) /\ Good(files, d) /\ DOMAIN d = {Target} /\ n.before = LogOf(files, d)
    BY <1>4, <1>5, <1>8, <1>9, <1>11, <1>12
  <2>2. Good(gs, e) /\ Gains(d, n, i, e)
    BY <1>8, <1>13, <2>1, VoucherOpened
  <2>. QED  BY <2>1, <2>2 DEF Gains
<1>15. gs[e[Target]].cache = n.before /\ gs[e[Target]].disk = n.before
  BY <1>5, <1>7, <1>8, <1>11, <1>13, <1>14 DEF Settled
<1>16. ~Loose(gs, e)
  <2>1. \A m \in DOMAIN e : m \in SingleNames => m = n
    BY <1>6, <1>14
  <2>2. PICK torn : torn = Append(n.before, Torn(Line(n)))
    OBVIOUS
  <2>3. torn # n.before
    BY <1>8, <2>2, Tails
  <2>. QED  BY <1>15, <2>1, <2>2, <2>3 DEF Loose, Settled
<1>17. ~Loose(files, dir)
  BY <1>5, <1>6 DEF Loose
<1>18. Medium'
  BY <1>4, <1>9, <1>10, <1>12, <1>14, <1>16, <1>17, MediumGrown
<1>19. \A a \in medium' : e[n] \in Range(a) => a = e
  BY <1>9, <1>12, <1>14
<1>20. InPlace(n)'
  BY <1>2, <1>8, <1>10, <1>12, <1>13, <1>14, <1>15, <1>19 DEF InPlace, Blank
<1>. QED  BY <1>2, <1>8, <1>9, <1>18, <1>20, Placed DEF SingleSteps

LEMMA WriteJournalKeeps == ASSUME Inv, WriteJournal PROVE Inv'
<1>1. pc = "writeJournal" /\ pc' = "syncJournal" /\ UNCHANGED <<job, told>>
  BY DEF WriteJournal, Goto
<1>2. PICK n \in SingleNames :
         /\ InPlace(n) /\ DOMAIN dir = {Target, n} /\ TheSingle = n /\ n.call = job.call
         /\ n # Target /\ Target \in DOMAIN dir /\ n \in DOMAIN dir
         /\ dir[Target] # dir[n] /\ dir[Target] \in Inodes /\ dir[n] \in Inodes
         /\ VouchedBy(files[dir[Target]], files[dir[n]], n)
         /\ Frontier = files[dir[Target]].cache /\ Named(dir)
  BY <1>1, Placing DEF SingleSteps
<1>3. /\ files[dir[n]].cache = <<>> /\ Frontier = n.before
      /\ files[dir[Target]].cache = n.before /\ files[dir[Target]].disk = n.before
      /\ \A d \in medium : dir[n] \in Range(d) => d = dir
  BY <1>1, <1>2 DEF InPlace
<1>4. PICK torn : torn = Append(n.before, Torn(Line(n)))
  OBVIOUS
<1>5. After(n) = Frontier \o Batch(job.call) /\ torn # n.before
  BY <1>2, <1>3, <1>4, Tails
<1>6. Write(n, BodyOf(n))
  BY <1>2, <1>3, <1>5 DEF WriteJournal, BodyOf
<1>7. BodyOf(n) \in Contents
  BY BodyTypes
<1>8. /\ files' \in [Inodes -> FileSet]
      /\ files'[dir[n]].cache = BodyOf(n) /\ files'[dir[n]].disk = files[dir[n]].disk
      /\ \A i \in Inodes : i # dir[n] => files'[i] = files[i]
      /\ dir' = dir /\ medium' = medium
  BY <1>2, <1>6, <1>7, Wrote
<1>9. PICK gs : gs = files'
  OBVIOUS
<1>10. Medium /\ dir \in medium
  BY Led
<1>11. gs[dir[Target]] = files[dir[Target]] /\ gs[dir[n]].cache = BodyOf(n)
       /\ gs[dir[n]].disk = files[dir[n]].disk
  BY <1>2, <1>8, <1>9
<1>12. VouchedBy(gs[dir[Target]], gs[dir[n]], n)
  BY <1>2, <1>3, <1>11 DEF VouchedBy
<1>13. Good(gs, dir)
  BY <1>2, <1>12, VouchedAnew
<1>14. ~Loose(gs, dir)
  <2>1. \A m \in DOMAIN dir : m \in SingleNames => m = n
    BY <1>2, Names DEF BundleNames
  <2>. QED  BY <1>3, <1>4, <1>5, <1>11, <2>1 DEF Loose, Settled
<1>15. ASSUME NEW d \in medium, d # dir
       PROVE  Good(gs, d) /\ (Loose(gs, d) => Loose(files, d))
  <2>1. Good(files, d)
    BY <1>10 DEF Medium
  <2>2. \A m \in DOMAIN d : d[m] \in Inodes /\ d[m] # dir[n]
    BY <1>3, <1>15, Led DEF Range
  <2>3. \A m \in DOMAIN d : gs[d[m]] = files[d[m]]
    BY <1>8, <1>9, <2>2
  <2>4. \A m \in DOMAIN d : m \in SingleNames => Target \in DOMAIN d
    BY <2>1, Either DEF Good
  <2>. QED  BY <2>1, <2>3, <2>4, Untouched DEF Loose, Settled
<1>16. Medium'
  <2>1. \A d \in medium : Good(gs, d) /\ (Loose(gs, d) => medium = {d})
    BY <1>10, <1>13, <1>14, <1>15 DEF Medium, Alone
  <2>. QED  BY <1>8, <1>9, <1>10, <2>1 DEF Medium, Alone
<1>17. BodyOf(n) # <<>>
  BY BodyTypes
<1>18. InPlace(n)'
  BY <1>1, <1>2, <1>3, <1>8, <1>9, <1>11, <1>17 DEF InPlace
<1>. QED  BY <1>1, <1>8, <1>16, <1>18, Placed DEF SingleSteps

LEMMA SyncJournalKeeps == ASSUME Inv, SyncJournal PROVE Inv'
<1>1. pc = "syncJournal" /\ pc' = "syncJournalName" /\ UNCHANGED <<job, told>>
  BY DEF SyncJournal, Goto
<1>2. PICK n \in SingleNames :
         /\ InPlace(n) /\ DOMAIN dir = {Target, n} /\ TheSingle = n /\ n.call = job.call
         /\ n # Target /\ Target \in DOMAIN dir /\ n \in DOMAIN dir
  BY <1>1, Placing DEF SingleSteps
<1>3. SyncFile(n)
  BY <1>2 DEF SyncJournal
<1>4. /\ files[dir[n]].cache = BodyOf(n)
      /\ files[dir[Target]].cache = n.before /\ files[dir[Target]].disk = n.before
  BY <1>1, <1>2 DEF InPlace
<1>5. /\ files' \in [Inodes -> FileSet] /\ Medium' /\ dir' = dir /\ medium' = medium
      /\ files'[dir[n]].disk = files[dir[n]].cache /\ Settled(files', dir[n])
      /\ files'[dir[Target]] = files[dir[Target]]
  BY <1>2, <1>3, SyncedOne
<1>6. InPlace(n)'
  BY <1>1, <1>2, <1>4, <1>5 DEF InPlace, Settled
<1>. QED  BY <1>1, <1>5, <1>6, Placed DEF SingleSteps

LEMMA SyncJournalNameKeeps == ASSUME Inv, SyncJournalName PROVE Inv'
<1>1. pc = "syncJournalName" /\ pc' = "writeTail" /\ UNCHANGED <<job, told>> /\ SyncDirectory
  BY DEF SyncJournalName, Goto
<1>2. PICK n \in SingleNames :
         /\ InPlace(n) /\ DOMAIN dir = {Target, n} /\ n.call = job.call
         /\ n # Target /\ Target \in DOMAIN dir /\ n \in DOMAIN dir
  BY <1>1, Placing DEF SingleSteps
<1>3. /\ files' \in [Inodes -> FileSet] /\ Medium' /\ dir' = dir /\ medium' = {dir}
      /\ files'[dir[n]] = files[dir[n]] /\ files'[dir[Target]] = files[dir[Target]]
  BY <1>1, <1>2, SyncedAll
<1>4. InPlace(n)'
  BY <1>1, <1>2, <1>3 DEF InPlace
<1>. QED  BY <1>1, <1>3, <1>4, Placed DEF SingleSteps

LEMMA WriteTailKeeps == ASSUME Inv, WriteTail PROVE Inv'
<1>1. pc = "writeTail" /\ pc' = "syncTail" /\ UNCHANGED <<job, told>>
  BY DEF WriteTail, Goto
<1>2. PICK n \in SingleNames :
         /\ InPlace(n) /\ DOMAIN dir = {Target, n} /\ TheSingle = n /\ n.call = job.call
         /\ n # Target /\ Target \in DOMAIN dir /\ n \in DOMAIN dir
         /\ dir[Target] # dir[n] /\ dir[Target] \in Inodes /\ dir[n] \in Inodes
         /\ VouchedBy(files[dir[Target]], files[dir[n]], n)
         /\ Frontier = files[dir[Target]].cache /\ Named(dir)
  BY <1>1, Placing DEF SingleSteps
<1>3. /\ files[dir[n]].cache = BodyOf(n) /\ files[dir[n]].disk = BodyOf(n) /\ medium = {dir}
      /\ files[dir[Target]].cache = n.before /\ files[dir[Target]].disk = n.before
  BY <1>1, <1>2 DEF InPlace
<1>4. PICK torn : torn = Append(n.before, Torn(Line(n)))
  OBVIOUS
<1>5. After(n) = Frontier \o Batch(job.call) /\ Recoverable(n) = {n.before, torn, After(n)}
      /\ After(n) \in Contents
  BY <1>2, <1>3, <1>4, Tails, ContentTypes
<1>6. Write(Target, After(n))
  BY <1>5 DEF WriteTail
<1>7. /\ files' \in [Inodes -> FileSet]
      /\ files'[dir[Target]].cache = After(n) /\ files'[dir[Target]].disk = n.before
      /\ files'[dir[n]] = files[dir[n]]
      /\ dir' = dir /\ medium' = medium
  BY <1>2, <1>3, <1>5, <1>6, Wrote
<1>8. PICK gs : gs = files'
  OBVIOUS
<1>9. VouchedBy(gs[dir[Target]], gs[dir[n]], n)
  BY <1>3, <1>5, <1>7, <1>8, BodyTypes DEF VouchedBy
<1>10. Good(gs, dir)
  BY <1>2, <1>9, VouchedAnew
<1>11. Medium'
  BY <1>3, <1>7, <1>8, <1>10, MediumSettled
<1>12. InPlace(n)'
  BY <1>1, <1>2, <1>3, <1>7 DEF InPlace
<1>. QED  BY <1>1, <1>7, <1>11, <1>12, Placed DEF SingleSteps

LEMMA ShortWriteKeeps == ASSUME Inv, ShortWrite PROVE Inv'
<1>1. pc = "writeTail" /\ pc' = "recover" /\ job' = [job EXCEPT !.why = "write"] /\ UNCHANGED told
  BY DEF ShortWrite
<1>2. PICK n \in SingleNames :
         /\ InPlace(n) /\ DOMAIN dir = {Target, n} /\ TheSingle = n /\ n.call = job.call
         /\ n # Target /\ Target \in DOMAIN dir /\ n \in DOMAIN dir
         /\ dir[Target] # dir[n] /\ dir[Target] \in Inodes /\ dir[n] \in Inodes
         /\ VouchedBy(files[dir[Target]], files[dir[n]], n)
         /\ Frontier = files[dir[Target]].cache /\ Named(dir) /\ job.call \in Calls
  BY <1>1, Placing DEF SingleSteps
<1>3. /\ files[dir[n]].cache = BodyOf(n) /\ files[dir[n]].disk = BodyOf(n) /\ medium = {dir}
      /\ files[dir[Target]].cache = n.before /\ files[dir[Target]].disk = n.before
  BY <1>1, <1>2 DEF InPlace
<1>4. PICK torn : torn = Append(n.before, Torn(Line(n)))
  OBVIOUS
<1>5. /\ Recoverable(n) = {n.before, torn, After(n)}
      /\ torn \in Contents /\ n.before \in Contents /\ n.before \in Seq(Frames)
      /\ Torn(Line(n)) \in Frames
  BY <1>4, Tails, ContentTypes
<1>6. PICK tail \in {<<>>, <<Torn(Line(n))>>} : Write(Target, n.before \o tail)
  BY <1>2, <1>3 DEF ShortWrite, Line
<1>7. n.before \o tail \in {n.before, torn}
  <2>1. PICK S : S = Frames
    OBVIOUS
  <2>2. PICK b \in Seq(S) : b = n.before
    BY <1>5, <2>1
  <2>3. PICK t \in S : t = Torn(Line(n))
    BY <1>5, <2>1
  <2>4. b \o <<>> = b /\ b \o <<t>> = Append(b, t)
    OBVIOUS
  <2>. QED  BY <1>4, <1>6, <2>2, <2>3, <2>4
<1>8. PICK x : x = n.before \o tail
  OBVIOUS
<1>9. x \in {n.before, torn} /\ x \in Contents /\ Write(Target, x)
  BY <1>5, <1>6, <1>7, <1>8
<1>10. /\ files' \in [Inodes -> FileSet]
      /\ files'[dir[Target]].cache = x /\ files'[dir[Target]].disk = n.before
      /\ files'[dir[n]] = files[dir[n]]
      /\ dir' = dir /\ medium' = medium
  BY <1>2, <1>3, <1>9, Wrote
<1>11. PICK gs : gs = files'
  OBVIOUS
<1>12. VouchedBy(gs[dir[Target]], gs[dir[n]], n)
  BY <1>3, <1>5, <1>9, <1>10, <1>11, BodyTypes DEF VouchedBy
<1>13. Good(gs, dir)
  BY <1>2, <1>12, VouchedAnew
<1>14. Medium'
  BY <1>3, <1>10, <1>11, <1>13, MediumSettled
<1>15. job' \in Jobs /\ job'.why = "write" /\ job'.call \in Calls
  BY <1>1, <1>2 DEF Inv, Typed, Jobs
<1>16. Typed'
  BY <1>1, <1>10, <1>15 DEF Inv, Typed, told, Steps
<1>. QED  BY <1>1, <1>14, <1>15, <1>16, AtRest

LEMMA SyncTailKeeps == ASSUME Inv, SyncTail PROVE Inv'
<1>1. pc = "syncTail" /\ pc' = "dropSingle" /\ UNCHANGED <<job, told>> /\ SyncFile(Target)
  BY DEF SyncTail, Goto
<1>2. PICK n \in SingleNames :
         /\ InPlace(n) /\ DOMAIN dir = {Target, n} /\ n.call = job.call
         /\ n # Target /\ Target \in DOMAIN dir /\ n \in DOMAIN dir
  BY <1>1, Placing DEF SingleSteps
<1>3. /\ files[dir[n]].cache = BodyOf(n) /\ files[dir[n]].disk = BodyOf(n) /\ medium = {dir}
      /\ files[dir[Target]].cache = After(n)
  BY <1>1, <1>2 DEF InPlace
<1>4. /\ files' \in [Inodes -> FileSet] /\ Medium' /\ dir' = dir /\ medium' = medium
      /\ files'[dir[Target]].disk = After(n) /\ Settled(files', dir[Target])
      /\ files'[dir[n]] = files[dir[n]]
  BY <1>1, <1>2, <1>3, SyncedOne
<1>5. InPlace(n)'
  BY <1>1, <1>2, <1>3, <1>4 DEF InPlace, Settled
<1>. QED  BY <1>1, <1>4, <1>5, Placed DEF SingleSteps

LEMMA DropSingleKeeps == ASSUME Inv, DropSingle PROVE Inv'
<1>1. pc = "dropSingle" /\ Tell("ok")
  BY DEF DropSingle, Return
<1>2. PICK n \in SingleNames :
         /\ InPlace(n) /\ DOMAIN dir = {Target, n} /\ TheSingle = n
         /\ Target \in DOMAIN dir /\ n \in DOMAIN dir
  BY <1>1, Placing DEF SingleSteps
<1>3. /\ files[dir[Target]].cache = After(n) /\ files[dir[Target]].disk = After(n)
  BY <1>1, <1>2 DEF InPlace
<1>4. PICK e : e = Without(dir, n)
  OBVIOUS
<1>5. dir' = e /\ medium' = medium \cup {e} /\ files' = files
  BY <1>2, <1>4 DEF DropSingle, Unlink, Update
<1>6. Medium /\ Good(files, dir) /\ files \in [Inodes -> FileSet]
  BY Led
<1>7. Settled(files, dir[Target])
  BY <1>3 DEF Settled
<1>8. Good(files, e) /\ DOMAIN e = {Target}
  BY <1>2, <1>3, <1>4, <1>6, <1>7, VoucherRemoved
<1>9. ~Loose(files, dir)
  <2>1. \A m \in DOMAIN dir : m \in SingleNames => m = n
    BY <1>2, Names DEF BundleNames
  <2>2. PICK torn : torn = Append(n.before, Torn(Line(n)))
    OBVIOUS
  <2>3. torn # After(n)
    BY <2>2, Tails
  <2>. QED  BY <1>3, <1>7, <2>1, <2>2, <2>3 DEF Loose
<1>10. ~Loose(files, e)
  BY <1>8, Names DEF Loose, BundleNames
<1>11. Medium'
  BY <1>5, <1>6, <1>8, <1>9, <1>10, MediumGrown
<1>. QED  BY <1>1, <1>5, <1>6, <1>11, Returned

-----------------------------------------------------------------------------
(* A bundle, appended by replacement *)

StagedSteps == Preparing \cup {"syncRenamed", "replaceTarget"}

LEMMA Tight ==
  ASSUME NEW fs, NEW d, DOMAIN d \subseteq BundleNames
  PROVE  ~Loose(fs, d)
BY Names DEF Loose

\* What is known while a bundle is staged.
LEMMA Staging ==
  ASSUME Inv, pc \in StagedSteps
  PROVE  /\ Prepared /\ DOMAIN dir \subseteq BundleNames /\ Candidate \in DOMAIN dir
         /\ Medium /\ Good(files, dir) /\ ~Loose(files, dir)
         /\ Frontier = LogOf(files, dir) /\ Frontier \in Logs
         /\ job.why = "append" /\ job.call \in Calls
         /\ Content(Candidate) \in Logs
<1>1. Prepared /\ DOMAIN dir \subseteq BundleNames
  BY DEF Inv, Replaces, StagedSteps
<1>2. Medium /\ Good(files, dir)
  BY Led
<1>3. Frontier = LogOf(files, dir) /\ Frontier \in Logs
  BY <1>1, <1>2, Seen DEF Good, Logged
<1>4. job.why = "append" /\ job.call \in Calls
  BY DEF Inv, Running, AppendSteps, StagedSteps
<1>5. Candidate \in DOMAIN dir /\ Content(Candidate) = Frontier \o Batch(job.call)
  BY <1>1 DEF Prepared
<1>6. Content(Candidate) \in Logs
  BY <1>3, <1>4, <1>5, Longer
<1>. QED  BY <1>1, <1>2, <1>3, <1>4, <1>5, <1>6, Tight

\* The next step of the append keeps the invariant.
LEMMA Proceeded ==
  ASSUME Inv, pc \in StagedSteps \cup {"fillCandidate", "syncReplaced"}, Replaces',
         pc' \in StagedSteps \cup {"syncReplaced", "dropJournal"},
         job' \in Jobs, job'.why = job.why, job'.call = job.call, UNCHANGED told,
         files' \in [Inodes -> FileSet], Medium'
  PROVE  Inv'
<1>1. Typed'
  BY DEF Inv, Typed, told, Steps, StagedSteps
<1>2. job.why = "append" /\ job.call \in Calls
  BY DEF Inv, Running, AppendSteps, StagedSteps
<1>3. Running'
  BY <1>2 DEF Running, StagedSteps, AppendSteps, RecoverySteps, Preparing
<1>4. AppendsInPlace' /\ Recovers'
  BY DEF AppendsInPlace, SingleSteps, Recovers, StagedSteps, Preparing
<1>. QED  BY <1>1, <1>3, <1>4 DEF Inv

\* The log is as it was, if its file is.
LEMMA FrontierSame ==
  ASSUME Target \in DOMAIN dir' <=> Target \in DOMAIN dir,
         Target \in DOMAIN dir => files'[dir'[Target]].cache = files[dir[Target]].cache
  PROVE  Frontier' = Frontier /\ Exists(Target)' = Exists(Target)
BY DEF Frontier, Exists, Content

LEMMA FillCandidateKeeps == ASSUME Inv, FillCandidate PROVE Inv'
<1>1. /\ pc = "fillCandidate" /\ pc' = "writeJournalTemp" /\ UNCHANGED <<job, told>>
      /\ Create(Candidate, Frontier \o Batch(job.call))
  BY DEF FillCandidate, Goto
<1>2. Residue = {} /\ job.why = "append" /\ job.call \in Calls /\ ~job.synced
  BY <1>1 DEF Inv, Running, AppendSteps
<1>3. Medium /\ Good(files, dir) /\ dir \in medium
  BY Led
<1>4. DOMAIN dir \subseteq {Target} /\ Frontier = LogOf(files, dir)
  BY <1>2, <1>3, Seen
<1>5. /\ {Target} \subseteq BundleNames /\ Candidate \in BundleNames
      /\ Candidate # Target /\ Journal # Target /\ JournalTemp # Target
      /\ Candidate # Journal /\ Candidate # JournalTemp
  BY Names DEF BundleNames
<1>6. DOMAIN dir \subseteq BundleNames
  BY <1>4, <1>5
<1>7. Frontier \in Logs
  BY <1>3, <1>4, <1>6 DEF Good, Logged
<1>8. PICK x : x = Frontier \o Batch(job.call)
  OBVIOUS
<1>9. x \in Contents
  BY <1>2, <1>7, <1>8, Longer, ContentTypes
<1>10. PICK i \in Inodes :
         /\ dir' = Bound(dir, Candidate, i) /\ medium' = medium \cup {dir'}
         /\ files' \in [Inodes -> FileSet]
         /\ files'[i] = [cache |-> x, disk |-> <<>>]
         /\ \A d \in medium : i \notin Range(d)
         /\ \A d \in medium : \A m \in DOMAIN d : files'[d[m]] = files[d[m]]
  BY <1>1, <1>8, <1>9, Created
<1>11. PICK gs : gs = files'
  OBVIOUS
<1>12. PICK e : e = dir'
  OBVIOUS
<1>13. \A m \in DOMAIN dir : gs[dir[m]] = files[dir[m]]
  BY <1>3, <1>10, <1>11
<1>14. i \notin Range(dir) /\ Candidate \notin DOMAIN dir /\ Journal \notin DOMAIN dir
  BY <1>3, <1>4, <1>5, <1>10
<1>15. e = Bound(dir, Candidate, i)
  BY <1>10, <1>12
<1>16. Good(gs, e)
  BY <1>3, <1>6, <1>13, <1>14, <1>15, Opened
<1>17. /\ DOMAIN e = DOMAIN dir \cup {Candidate} /\ e[Candidate] = i
       /\ \A m \in DOMAIN dir : m # Candidate => e[m] = dir[m]
  BY <1>15 DEF Bound
<1>18. DOMAIN e \subseteq BundleNames /\ Journal \notin DOMAIN e /\ JournalTemp \notin DOMAIN e
  BY <1>4, <1>5, <1>17
<1>19. Medium'
  BY <1>3, <1>6, <1>10, <1>11, <1>12, <1>16, <1>18, Tight, MediumGrown
<1>20. Frontier' = Frontier
  BY <1>5, <1>11, <1>12, <1>13, <1>17, FrontierSame
<1>21. Content(Candidate)' = x
  BY <1>10, <1>12, <1>17 DEF Content
<1>22. Prepared'
  BY <1>1, <1>2, <1>8, <1>12, <1>17, <1>18, <1>20, <1>21 DEF Prepared, Preparing
<1>23. Replaces'
  BY <1>1, <1>12, <1>18, <1>22 DEF Replaces, Preparing
<1>. QED  BY <1>1, <1>10, <1>19, <1>23, Proceeded DEF StagedSteps, Preparing, Inv, Typed

\* A file is synced while the bundle is prepared.
LEMMA StagedSync ==
  ASSUME Inv, pc \in Preparing, NEW n \in DOMAIN dir, SyncFile(n)
  PROVE  /\ files' \in [Inodes -> FileSet] /\ Medium' /\ dir' = dir /\ medium' = medium
         /\ Frontier' = Frontier /\ Exists(Target)' = Exists(Target)
         /\ \A m \in DOMAIN dir : Content(m)' = Content(m)
         /\ \A m \in DOMAIN dir : Settled(files, dir[m]) => Settled(files', dir[m])
         /\ Settled(files', dir[n])
         /\ (Exists(Candidate) => NewBody' = NewBody)
<1>1. /\ files' \in [Inodes -> FileSet] /\ Medium' /\ dir' = dir /\ medium' = medium
      /\ \A i \in Inodes : files'[i].cache = files[i].cache
      /\ \A i \in Inodes : Settled(files, i) => Settled(files', i)
      /\ \A m \in DOMAIN dir : dir[m] \in Inodes
      /\ Settled(files', dir[n])
  BY SyncedOne
<1>2. \A m \in DOMAIN dir : Content(m)' = Content(m)
  BY <1>1 DEF Content
<1>3. Frontier' = Frontier /\ Exists(Target)' = Exists(Target)
  BY <1>1, FrontierSame
<1>4. Exists(Candidate) => NewBody' = NewBody
  BY <1>2, <1>3 DEF NewBody, Exists
<1>. QED  BY <1>1, <1>2, <1>3, <1>4

LEMMA SyncCandidateKeeps == ASSUME Inv, SyncCandidate PROVE Inv'
<1>1. /\ pc \in Preparing /\ pc' = pc /\ job' = [job EXCEPT !.synced = TRUE] /\ UNCHANGED told
      /\ SyncFile(Candidate) /\ pc \in StagedSteps
  BY DEF SyncCandidate, StagedSteps
<1>2. Prepared /\ DOMAIN dir \subseteq BundleNames /\ Candidate \in DOMAIN dir
  BY <1>1, Staging
<1>3. /\ files' \in [Inodes -> FileSet] /\ Medium' /\ dir' = dir /\ medium' = medium
      /\ Frontier' = Frontier
      /\ \A m \in DOMAIN dir : Content(m)' = Content(m)
      /\ \A m \in DOMAIN dir : Settled(files, dir[m]) => Settled(files', dir[m])
      /\ Settled(files', dir[Candidate]) /\ NewBody' = NewBody
  BY <1>1, <1>2, StagedSync DEF Exists
<1>4. job' \in Jobs /\ job'.why = job.why /\ job'.call = job.call
  BY <1>1 DEF Inv, Typed, Jobs
<1>5. Prepared'
  BY <1>1, <1>2, <1>3, <1>4 DEF Prepared, Preparing
<1>6. Replaces'
  BY <1>1, <1>2, <1>3, <1>5 DEF Replaces, Preparing
<1>. QED  BY <1>1, <1>3, <1>4, <1>6, Proceeded DEF StagedSteps

LEMMA WriteJournalTempKeeps == ASSUME Inv, WriteJournalTemp PROVE Inv'
<1>1. /\ pc = "writeJournalTemp" /\ pc' = "syncJournalTemp" /\ UNCHANGED <<job, told>>
      /\ Create(JournalTemp, Body(Exists(Target), Frontier, Content(Candidate)))
      /\ pc \in StagedSteps
  BY DEF WriteJournalTemp, Goto, StagedSteps, Preparing
<1>2. /\ Prepared /\ DOMAIN dir \subseteq BundleNames /\ Candidate \in DOMAIN dir
      /\ Medium /\ Good(files, dir) /\ dir \in medium
      /\ Frontier \in Logs /\ Content(Candidate) \in Logs
  BY <1>1, Staging, Led
<1>3. Journal \notin DOMAIN dir /\ JournalTemp \notin DOMAIN dir
      /\ (job.synced => Settled(files, dir[Candidate]))
      /\ Content(Candidate) = Frontier \o Batch(job.call)
  BY <1>1, <1>2 DEF Prepared, Preparing
<1>4. /\ JournalTemp \in BundleNames /\ Candidate # Target /\ JournalTemp # Target
      /\ JournalTemp # Journal /\ Candidate # JournalTemp
  BY Names DEF BundleNames
<1>5. PICK x : x = <<NewBody>>
  OBVIOUS
<1>6. NewBody \in Bodies
  <2>1. Frontier \in Seq(Frames) /\ Content(Candidate) \in Seq(Frames) /\ Exists(Target) \in BOOLEAN
    BY <1>2, ContentTypes DEF Exists
  <2>. QED  BY <2>1, BodyTypes DEF NewBody
<1>7. x \in Contents /\ Create(JournalTemp, x)
  BY <1>1, <1>5, <1>6, ContentTypes DEF Body, NewBody
<1>8. PICK i \in Inodes :
         /\ dir' = Bound(dir, JournalTemp, i) /\ medium' = medium \cup {dir'}
         /\ files' \in [Inodes -> FileSet]
         /\ files'[i] = [cache |-> x, disk |-> <<>>]
         /\ \A d \in medium : i \notin Range(d)
         /\ \A d \in medium : \A m \in DOMAIN d : files'[d[m]] = files[d[m]]
  BY <1>7, Created
<1>9. PICK gs : gs = files'
  OBVIOUS
<1>10. PICK e : e = dir'
  OBVIOUS
<1>11. \A m \in DOMAIN dir : gs[dir[m]] = files[dir[m]]
  BY <1>2, <1>8, <1>9
<1>12. e = Bound(dir, JournalTemp, i) /\ i \notin Range(dir)
  BY <1>2, <1>8, <1>10
<1>13. Good(gs, e)
  BY <1>2, <1>3, <1>11, <1>12, Opened
<1>14. /\ DOMAIN e = DOMAIN dir \cup {JournalTemp} /\ e[JournalTemp] = i
       /\ \A m \in DOMAIN dir : e[m] = dir[m]
  BY <1>3, <1>12 DEF Bound
<1>15. DOMAIN e \subseteq BundleNames /\ Journal \notin DOMAIN e
  BY <1>2, <1>3, <1>4, <1>14
<1>16. Medium'
  BY <1>2, <1>8, <1>9, <1>10, <1>13, <1>15, Tight, MediumGrown
<1>17. Frontier' = Frontier /\ Exists(Target)' = Exists(Target)
  BY <1>4, <1>9, <1>10, <1>11, <1>14, FrontierSame
<1>18. Content(Candidate)' = Content(Candidate) /\ Content(JournalTemp)' = x
       /\ (job.synced => Settled(files', dir'[Candidate]))
  <2>1. gs[e[Candidate]] = files[dir[Candidate]] /\ gs[e[JournalTemp]].cache = x
    BY <1>2, <1>8, <1>9, <1>11, <1>14
  <2>. QED  BY <1>3, <1>9, <1>10, <2>1 DEF Content, Settled
<1>19. NewBody' = NewBody
  BY <1>17, <1>18 DEF NewBody
<1>20. Prepared'
  BY <1>1, <1>2, <1>3, <1>5, <1>10, <1>14, <1>15, <1>17, <1>18, <1>19 DEF Prepared, Preparing
<1>21. Replaces'
  BY <1>1, <1>10, <1>15, <1>20 DEF Replaces, Preparing
<1>. QED  BY <1>1, <1>8, <1>16, <1>21, Proceeded DEF StagedSteps, Preparing, Inv, Typed

LEMMA SyncJournalTempKeeps == ASSUME Inv, SyncJournalTemp PROVE Inv'
<1>1. /\ pc = "syncJournalTemp" /\ pc' = "renameJournal" /\ UNCHANGED <<job, told>>
      /\ SyncFile(JournalTemp) /\ pc \in StagedSteps /\ pc \in Preparing
  BY DEF SyncJournalTemp, Goto, StagedSteps, Preparing
<1>2. Prepared /\ DOMAIN dir \subseteq BundleNames /\ Candidate \in DOMAIN dir
  BY <1>1, Staging
<1>3. JournalTemp \in DOMAIN dir
  BY <1>1, <1>2 DEF Prepared
<1>4. /\ files' \in [Inodes -> FileSet] /\ Medium' /\ dir' = dir /\ medium' = medium
      /\ Frontier' = Frontier
      /\ \A m \in DOMAIN dir : Content(m)' = Content(m)
      /\ \A m \in DOMAIN dir : Settled(files, dir[m]) => Settled(files', dir[m])
      /\ Settled(files', dir[JournalTemp]) /\ NewBody' = NewBody
  BY <1>1, <1>2, <1>3, StagedSync DEF Exists
<1>5. Prepared'
  BY <1>1, <1>2, <1>3, <1>4 DEF Prepared, Preparing
<1>6. Replaces'
  BY <1>1, <1>2, <1>4, <1>5 DEF Replaces, Preparing
<1>. QED  BY <1>1, <1>4, <1>6, Proceeded DEF StagedSteps, Preparing, Inv, Typed

LEMMA RenameJournalKeeps == ASSUME Inv, RenameJournal PROVE Inv'
<1>1. /\ pc = "renameJournal" /\ pc' = "syncRenamed" /\ UNCHANGED <<job, told>> /\ job.synced
      /\ Rename(JournalTemp, Journal) /\ pc \in StagedSteps
  BY DEF RenameJournal, Goto, StagedSteps, Preparing
<1>2. /\ Prepared /\ DOMAIN dir \subseteq BundleNames /\ Candidate \in DOMAIN dir
      /\ Medium /\ Good(files, dir) /\ ~Loose(files, dir)
      /\ Frontier = LogOf(files, dir) /\ Frontier \in Logs /\ Content(Candidate) \in Logs
  BY <1>1, Staging
<1>3. /\ Journal \notin DOMAIN dir /\ JournalTemp \in DOMAIN dir
      /\ Settled(files, dir[Candidate]) /\ Settled(files, dir[JournalTemp])
      /\ Content(JournalTemp) = <<NewBody>>
      /\ Content(Candidate) = Frontier \o Batch(job.call)
  BY <1>1, <1>2 DEF Prepared, Preparing
<1>4. /\ Journal \in BundleNames /\ Candidate # Target /\ JournalTemp # Target
      /\ JournalTemp # Journal /\ Candidate # JournalTemp /\ Candidate # Journal /\ Journal # Target
  BY Names DEF BundleNames
<1>5. PICK body : body = NewBody
  OBVIOUS
<1>6. /\ body \in Bodies /\ files[dir[JournalTemp]].cache = <<body>>
      /\ body.existed = (Target \in DOMAIN dir) /\ body.before = LogOf(files, dir)
      /\ body.after = files[dir[Candidate]].cache /\ body.after \in Logs
  <2>1. Frontier \in Seq(Frames) /\ Content(Candidate) \in Seq(Frames) /\ Exists(Target) \in BOOLEAN
    BY <1>2, ContentTypes DEF Exists
  <2>2. body \in Bodies
    BY <1>5, <2>1, BodyTypes DEF NewBody
  <2>3. body.existed = Exists(Target) /\ body.before = Frontier /\ body.after = Content(Candidate)
    BY <1>5 DEF NewBody
  <2>4. files[dir[JournalTemp]].cache = <<body>>
    BY <1>3, <1>5 DEF Content
  <2>. QED  BY <1>2, <2>2, <2>3, <2>4 DEF Exists, Content
<1>7. PICK e : e = Bound(Without(dir, JournalTemp), Journal, dir[JournalTemp])
  OBVIOUS
<1>8. dir' = e /\ medium' = medium \cup {e} /\ files' = files
  BY <1>1, <1>7 DEF Rename, Update
<1>9. Good(files, e)
  BY <1>2, <1>3, <1>6, <1>7, JournalNamed
<1>10. /\ DOMAIN e = (DOMAIN dir \ {JournalTemp}) \cup {Journal} /\ e[Journal] = dir[JournalTemp]
       /\ \A m \in DOMAIN dir : m # JournalTemp => e[m] = dir[m]
  BY <1>3, <1>7 DEF Bound, Without
<1>11. DOMAIN e \subseteq BundleNames /\ JournalTemp \notin DOMAIN e
  BY <1>2, <1>4, <1>10
<1>12. Medium'
  BY <1>2, <1>8, <1>9, <1>11, Tight, MediumGrown
<1>13. Frontier' = Frontier /\ Exists(Target)' = Exists(Target)
  BY <1>4, <1>8, <1>10, FrontierSame
<1>14. Content(Candidate)' = Content(Candidate) /\ Content(Journal)' = Content(JournalTemp)
  BY <1>2, <1>4, <1>8, <1>10 DEF Content
<1>15. NewBody' = NewBody
  BY <1>13, <1>14 DEF NewBody
<1>16. Prepared'
  BY <1>1, <1>2, <1>3, <1>4, <1>8, <1>10, <1>11, <1>13, <1>14, <1>15 DEF Prepared, Preparing
<1>17. Replaces'
  BY <1>1, <1>8, <1>11, <1>16 DEF Replaces, Preparing
<1>. QED  BY <1>1, <1>8, <1>12, <1>17, Proceeded DEF StagedSteps, Preparing, Inv, Typed

LEMMA SyncRenamedKeeps == ASSUME Inv, SyncRenamed PROVE Inv'
<1>1. /\ pc = "syncRenamed" /\ pc' = "replaceTarget" /\ UNCHANGED <<job, told>>
      /\ SyncDirectory /\ pc \in StagedSteps
  BY DEF SyncRenamed, Goto, StagedSteps
<1>2. Prepared /\ DOMAIN dir \subseteq BundleNames /\ Candidate \in DOMAIN dir
  BY <1>1, Staging
<1>3. /\ JournalTemp \notin DOMAIN dir /\ Journal \in DOMAIN dir /\ Content(Journal) = <<NewBody>>
      /\ Content(Candidate) = Frontier \o Batch(job.call)
  BY <1>1, <1>2 DEF Prepared
<1>4. /\ files' \in [Inodes -> FileSet] /\ Medium' /\ dir' = dir /\ medium' = {dir}
      /\ \A m \in DOMAIN dir : files'[dir[m]] = files[dir[m]]
  BY <1>1, SyncedAll
<1>5. Frontier' = Frontier /\ Exists(Target)' = Exists(Target)
  BY <1>4, FrontierSame
<1>6. Content(Candidate)' = Content(Candidate) /\ Content(Journal)' = Content(Journal)
  BY <1>2, <1>3, <1>4 DEF Content
<1>7. NewBody' = NewBody
  BY <1>5, <1>6 DEF NewBody
<1>8. Prepared'
  BY <1>1, <1>2, <1>3, <1>4, <1>5, <1>6, <1>7 DEF Prepared, Preparing
<1>9. Replaces'
  BY <1>1, <1>2, <1>4, <1>8 DEF Replaces, Preparing
<1>. QED  BY <1>1, <1>4, <1>9, Proceeded DEF StagedSteps, Inv, Typed

\* The replacement took place.
LEMMA Replaced ==
  ASSUME Inv, pc = "replaceTarget", Rename(Candidate, Target)
  PROVE  /\ files' \in [Inodes -> FileSet] /\ Medium'
         /\ DOMAIN dir' = {Target, Journal} /\ Frontier' = Content(Journal)'[1].after
<1>1. /\ Prepared /\ DOMAIN dir \subseteq BundleNames /\ Candidate \in DOMAIN dir
      /\ Medium /\ Good(files, dir) /\ ~Loose(files, dir)
  BY Staging DEF StagedSteps
<1>2. /\ JournalTemp \notin DOMAIN dir /\ Journal \in DOMAIN dir /\ Content(Journal) = <<NewBody>>
  BY <1>1 DEF Prepared
<1>3. /\ BundleNames = {Target, Candidate, JournalTemp, Journal} /\ Candidate # Target
      /\ Candidate # Journal /\ Journal # Target
  BY Names DEF BundleNames
<1>4. PICK e : e = Bound(Without(dir, Candidate), Target, dir[Candidate])
  OBVIOUS
<1>5. dir' = e /\ medium' = medium \cup {e} /\ files' = files
  BY <1>4 DEF Rename, Update
<1>6. Good(files, e)
  BY <1>1, <1>2, <1>4, LogReplaced
<1>7. /\ DOMAIN e = (DOMAIN dir \ {Candidate}) \cup {Target} /\ e[Target] = dir[Candidate]
      /\ \A m \in DOMAIN dir : m \notin {Candidate, Target} => e[m] = dir[m]
  BY <1>3, <1>4 DEF Bound, Without
<1>8. DOMAIN e = {Target, Journal}
  BY <1>1, <1>2, <1>3, <1>7
<1>9. DOMAIN e \subseteq BundleNames
  BY <1>3, <1>8
<1>10. Medium'
  BY <1>1, <1>5, <1>6, <1>9, Tight, MediumGrown
<1>11. Content(Journal)' = <<NewBody>> /\ <<NewBody>>[1] = NewBody
  BY <1>2, <1>3, <1>5, <1>7 DEF Content
<1>12. Frontier' = Content(Candidate) /\ NewBody.after = Content(Candidate)
  BY <1>5, <1>7 DEF Frontier, Exists, Content, NewBody
<1>. QED  BY <1>5, <1>8, <1>10, <1>11, <1>12 DEF Inv, Typed

LEMMA ReplaceTargetKeeps == ASSUME Inv, ReplaceTarget PROVE Inv'
<1>1. /\ pc = "replaceTarget" /\ pc' = "syncReplaced" /\ UNCHANGED <<job, told>>
      /\ Rename(Candidate, Target)
  BY DEF ReplaceTarget, Goto
<1>2. /\ files' \in [Inodes -> FileSet] /\ Medium'
      /\ DOMAIN dir' = {Target, Journal} /\ Frontier' = Content(Journal)'[1].after
  BY <1>1, Replaced
<1>3. Exchanged'
  BY <1>1, <1>2 DEF Exchanged
<1>4. Replaces'
  BY <1>1, <1>3 DEF Replaces, Preparing
<1>. QED  BY <1>1, <1>2, <1>4, Proceeded DEF StagedSteps, Inv, Typed

LEMMA ReplaceFailsKeeps == ASSUME Inv, ReplaceFails PROVE Inv'
<1>1. /\ pc = "replaceTarget" /\ pc' = "recover" /\ job' = [job EXCEPT !.why = "replace"]
      /\ UNCHANGED told /\ (UNCHANGED disk \/ Rename(Candidate, Target))
  BY DEF ReplaceFails
<1>2. files' \in [Inodes -> FileSet] /\ Medium'
  <2>1. CASE UNCHANGED disk
    <3>1. Medium /\ files' = files /\ dir' = dir /\ medium' = medium
      BY <2>1, Led DEF disk
    <3>. QED  BY <3>1 DEF Medium, Alone, Inv, Typed
  <2>2. CASE Rename(Candidate, Target)
    BY <1>1, <2>2, Replaced
  <2>. QED  BY <1>1, <2>1, <2>2
<1>3. job.call \in Calls
  BY <1>1, Staging DEF StagedSteps
<1>4. job' \in Jobs /\ job'.why = "replace" /\ job'.call \in Calls
  BY <1>1, <1>3 DEF Inv, Typed, Jobs
<1>5. Typed'
  BY <1>1, <1>2, <1>4 DEF Inv, Typed, told, Steps
<1>. QED  BY <1>1, <1>2, <1>4, <1>5, AtRest

LEMMA SyncReplacedKeeps == ASSUME Inv, SyncReplaced PROVE Inv'
<1>1. /\ pc = "syncReplaced" /\ pc' = "dropJournal" /\ UNCHANGED <<job, told>> /\ SyncDirectory
  BY DEF SyncReplaced, Goto
<1>2. DOMAIN dir = {Target, Journal} /\ Frontier = Content(Journal)[1].after
  BY <1>1 DEF Inv, Replaces, Exchanged
<1>3. /\ files' \in [Inodes -> FileSet] /\ Medium' /\ dir' = dir /\ medium' = {dir}
      /\ \A m \in DOMAIN dir : files'[dir[m]] = files[dir[m]]
  BY <1>1, SyncedAll
<1>4. Frontier' = Frontier /\ Content(Journal)' = Content(Journal)
  BY <1>2, <1>3, FrontierSame DEF Content
<1>5. Exchanged'
  BY <1>2, <1>3, <1>4 DEF Exchanged
<1>6. Replaces'
  BY <1>1, <1>5 DEF Replaces, Preparing
<1>. QED  BY <1>1, <1>3, <1>6, Proceeded DEF StagedSteps, Inv, Typed

LEMMA DropJournalKeeps == ASSUME Inv, DropJournal PROVE Inv'
<1>1. pc = "dropJournal" /\ Tell("ok")
  BY DEF DropJournal, Return
<1>2. DOMAIN dir = {Target, Journal}
  BY <1>1 DEF Inv, Replaces, Exchanged
<1>3. DOMAIN dir \subseteq BundleNames /\ Journal # Target
  BY <1>2, Names DEF BundleNames
<1>4. PICK e : e = Without(dir, Journal)
  OBVIOUS
<1>5. dir' = e /\ medium' = medium \cup {e} /\ files' = files
  BY <1>4 DEF DropJournal, Unlink, Update
<1>6. Medium /\ Good(files, dir) /\ files \in [Inodes -> FileSet]
  BY Led
<1>7. Good(files, e) /\ DOMAIN e \subseteq BundleNames
  <2>1. Good(files, e)
    BY <1>3, <1>4, <1>6, ResidueRemoved
  <2>. QED  BY <1>3, <1>4, <2>1 DEF Without
<1>8. Medium'
  BY <1>3, <1>5, <1>6, <1>7, Tight, MediumGrown
<1>. QED  BY <1>1, <1>5, <1>6, <1>8, Returned

-----------------------------------------------------------------------------
(* Recovery *)

LEMMA Undisturbed ==
  ASSUME Inv, UNCHANGED disk
  PROVE  files' \in [Inodes -> FileSet] /\ Medium' /\ files' = files /\ dir' = dir /\ medium' = medium
<1>1. Medium /\ files' = files /\ dir' = dir /\ medium' = medium
  BY Led DEF disk
<1>. QED  BY <1>1 DEF Medium, Alone, Inv, Typed

\* The next step of recovery keeps the invariant.
LEMMA Progressed ==
  ASSUME Inv, pc \in RecoverySteps, pc' \in RecoverySteps \ {"recover"},
         job' \in Jobs, job'.why = job.why, job'.call = job.call, job'.synced = job.synced,
         UNCHANGED told, files' \in [Inodes -> FileSet], Medium', Recovers',
         pc' = "syncCleaned" => Residue' = {}
  PROVE  Inv'
<1>1. Typed'
  BY DEF Inv, Typed, told, Steps, RecoverySteps
<1>2. Running'
  BY DEF Inv, Running, AppendSteps, RecoverySteps, Preparing
<1>3. AppendsInPlace' /\ Replaces'
  BY DEF AppendsInPlace, SingleSteps, Replaces, RecoverySteps, Preparing
<1>. QED  BY <1>1, <1>2, <1>3 DEF Inv

LEMMA RecoverAtOnceKeeps == ASSUME Inv, RecoverAtOnce PROVE Inv'
<1>1. ~Corrupt
  BY Led, Accepted
<1>2. pc = "recover" /\ Residue = {} /\ Recovered(FALSE) /\ UNCHANGED disk
  BY <1>1 DEF RecoverAtOnce
<1>3. files' \in [Inodes -> FileSet] /\ Medium' /\ dir' = dir
  BY <1>2, Undisturbed
<1>. QED  BY <1>2, <1>3, WentOn

LEMMA RecoverSingleKeeps == ASSUME Inv, RecoverSingle PROVE Inv'
<1>1. pc = "recover" /\ Singles # {} /\ UNCHANGED disk /\ UNCHANGED told
  BY DEF RecoverSingle
<1>2. Good(files, dir)
  BY Led
<1>3. PICK n \in SingleNames : n \in DOMAIN dir
  BY <1>1, <1>2, Seen
<1>4. /\ DOMAIN dir = {Target, n} /\ Residue = {n} /\ TheSingle = n
      /\ VouchedBy(files[dir[Target]], files[dir[n]], n) /\ Frontier = LogOf(files, dir)
  BY <1>2, <1>3, Seen
<1>5. Frontier = files[dir[Target]].cache /\ Content(n) = files[dir[n]].cache
  BY <1>4 DEF LogOf, Content
<1>6. PICK torn : torn = Append(n.before, Torn(Line(n)))
  OBVIOUS
<1>7. Recoverable(n) = {n.before, torn, After(n)}
  BY <1>6, Tails
<1>8. files' \in [Inodes -> FileSet] /\ Medium' /\ files' = files /\ dir' = dir /\ medium' = medium
  BY <1>1, Undisturbed
<1>9. PICK took \in BOOLEAN : job' = [job EXCEPT !.took = took]
  BY DEF RecoverSingle
<1>10. job' \in Jobs /\ job'.why = job.why /\ job'.call = job.call /\ job'.synced = job.synced
  BY <1>9 DEF Inv, Typed, Jobs
<1>11. pc' = CASE Content(n) = <<>> -> "clean"
               [] Content(n) # <<>> /\ Frontier = torn -> "truncateTail"
               [] OTHER -> "syncTarget"
  BY <1>4, <1>6 DEF RecoverSingle
<1>12. Frontier' = Frontier /\ Content(n)' = Content(n) /\ Residue' = Residue
  BY <1>8 DEF Frontier, Content, Exists, Residue
<1>13. CASE Content(n) = <<>>
  <2>1. pc' = "clean" /\ Frontier = n.before /\ Settled(files, dir[Target])
    BY <1>4, <1>5, <1>11, <1>13 DEF VouchedBy, Settled
  <2>2. \A m \in DOMAIN dir : m \in SingleNames => m = n
    BY <1>4, Names DEF BundleNames
  <2>3. Recovers'
    BY <1>4, <1>8, <1>12, <2>1, <2>2 DEF Recovers
  <2>. QED  BY <1>1, <1>8, <1>10, <2>1, <2>3, Progressed DEF RecoverySteps
<1>14. CASE Content(n) # <<>>
  <2>1. pc' \in {"truncateTail", "syncTarget"}
        /\ (pc' = "truncateTail" => Frontier = torn) /\ (pc' = "syncTarget" => Frontier # torn)
    BY <1>11, <1>14
  <2>2. Content(n) = BodyOf(n) /\ Frontier \in {n.before, torn, After(n)}
    BY <1>4, <1>5, <1>7, <1>14 DEF VouchedBy
  <2>3. Recovers'
    BY <1>4, <1>6, <1>8, <1>12, <2>1, <2>2 DEF Recovers
  <2>. QED  BY <1>1, <1>8, <1>10, <2>1, <2>3, Progressed DEF RecoverySteps
<1>. QED  BY <1>13, <1>14

LEMMA TruncateTailKeeps == ASSUME Inv, TruncateTail PROVE Inv'
<1>1. pc = "truncateTail" /\ pc' = "syncTarget" /\ UNCHANGED <<job, told>>
      /\ Write(Target, TheSingle.before)
  BY DEF TruncateTail, Goto
<1>2. PICK n \in SingleNames : /\ DOMAIN dir = {Target, n} /\ Content(n) = BodyOf(n)
                               /\ Frontier = Append(n.before, Torn(Line(n)))
  BY <1>1 DEF Inv, Recovers
<1>3. /\ Good(files, dir) /\ Medium /\ dir \in medium
      /\ Target \in DOMAIN dir /\ n \in DOMAIN dir /\ n # Target
  BY <1>2, Led, Names DEF BundleNames
<1>4. /\ TheSingle = n /\ VouchedBy(files[dir[Target]], files[dir[n]], n)
      /\ Frontier = files[dir[Target]].cache
  BY <1>2, <1>3, Seen DEF LogOf
<1>5. PICK torn : torn = Append(n.before, Torn(Line(n)))
  OBVIOUS
<1>6. /\ Recoverable(n) = {n.before, torn, After(n)} /\ torn # n.before /\ n.before \in Contents
  BY <1>5, Tails, ContentTypes
<1>7. files[dir[n]].cache = BodyOf(n) /\ files[dir[n]].disk = BodyOf(n)
      /\ files[dir[Target]].disk \in Recoverable(n)
  BY <1>2, <1>4, <1>5, <1>6 DEF VouchedBy, Content
<1>8. medium = {dir}
  BY <1>2, <1>3, <1>4 DEF Medium, Alone, Loose
<1>9. /\ files' \in [Inodes -> FileSet]
      /\ files'[dir[Target]].cache = n.before
      /\ files'[dir[Target]].disk = files[dir[Target]].disk
      /\ files'[dir[n]] = files[dir[n]]
      /\ dir' = dir /\ medium' = medium
  BY <1>1, <1>3, <1>4, <1>6, Wrote
<1>10. PICK gs : gs = files'
  OBVIOUS
<1>11. VouchedBy(gs[dir[Target]], gs[dir[n]], n)
  BY <1>6, <1>7, <1>9, <1>10, BodyTypes DEF VouchedBy
<1>12. Good(gs, dir)
  BY <1>2, <1>3, <1>11, VouchedAnew DEF Good
<1>13. Medium'
  BY <1>8, <1>9, <1>10, <1>12, MediumSettled
<1>14. Frontier' = n.before /\ Content(n)' = BodyOf(n)
  BY <1>3, <1>7, <1>9 DEF Frontier, Exists, Content
<1>15. Recovers'
  BY <1>1, <1>2, <1>9, <1>14 DEF Recovers
<1>. QED  BY <1>1, <1>9, <1>13, <1>15, Progressed DEF RecoverySteps, Inv, Typed

LEMMA SyncTargetKeeps == ASSUME Inv, SyncTarget PROVE Inv'
<1>1. pc = "syncTarget" /\ pc' = "clean" /\ UNCHANGED <<job, told>> /\ SyncFile(Target)
  BY DEF SyncTarget, Goto
<1>2. PICK n \in SingleNames : DOMAIN dir = {Target, n} /\ Frontier \in {n.before, After(n)}
  BY <1>1 DEF Inv, Recovers
<1>3. Good(files, dir) /\ Target \in DOMAIN dir /\ n \in DOMAIN dir
  BY <1>2, Led
<1>4. /\ files' \in [Inodes -> FileSet] /\ Medium' /\ dir' = dir
      /\ \A i \in Inodes : files'[i].cache = files[i].cache
      /\ Settled(files', dir[Target]) /\ \A m \in DOMAIN dir : dir[m] \in Inodes
  BY <1>1, <1>3, SyncedOne
<1>5. Frontier' = Frontier /\ Residue' = Residue
  BY <1>3, <1>4, FrontierSame DEF Residue
<1>6. Residue = {n} /\ \A m \in DOMAIN dir : m \in SingleNames => m = n
  BY <1>2, <1>3, Seen, Names DEF BundleNames
<1>7. Recovers'
  BY <1>1, <1>2, <1>4, <1>5, <1>6 DEF Recovers
<1>. QED  BY <1>1, <1>4, <1>7, Progressed DEF RecoverySteps, Inv, Typed

LEMMA RecoverBundleKeeps == ASSUME Inv, RecoverBundle PROVE Inv'
<1>1. /\ pc = "recover" /\ pc' = "clean" /\ UNCHANGED disk /\ UNCHANGED told
      /\ Residue # {} /\ Singles = {}
  BY DEF RecoverBundle
<1>2. PICK took \in BOOLEAN : job' = [job EXCEPT !.took = took]
  <2>1. (Exists(Journal) /\ Exists(Target) /\ Frontier = Content(Journal)[1].after) \in BOOLEAN
    OBVIOUS
  <2>. QED  BY <2>1 DEF RecoverBundle
<1>3. job' \in Jobs /\ job'.why = job.why /\ job'.call = job.call /\ job'.synced = job.synced
  BY <1>2 DEF Inv, Typed, Jobs
<1>4. files' \in [Inodes -> FileSet] /\ Medium' /\ dir' = dir /\ Residue' = Residue
  BY <1>1, Undisturbed DEF Residue
<1>5. \A n \in DOMAIN dir : n \notin SingleNames
  BY <1>1, Led, Seen
<1>6. Recovers'
  BY <1>1, <1>4, <1>5 DEF Recovers
<1>. QED  BY <1>1, <1>3, <1>4, <1>6, Progressed DEF RecoverySteps

LEMMA CleanKeeps == ASSUME Inv, Clean PROVE Inv'
<1>1. pc = "clean" /\ UNCHANGED <<job, told>>
  BY DEF Clean
<1>2. /\ Residue # {}
      /\ \A n \in DOMAIN dir : n \in SingleNames =>
           Frontier \in {n.before, After(n)} /\ Settled(files, dir[Target])
  BY <1>1 DEF Inv, Recovers
<1>3. Good(files, dir) /\ Named(dir) /\ Medium /\ files \in [Inodes -> FileSet]
  BY Led DEF Good
<1>4. Residue = DOMAIN dir \ {Target}
  BY <1>3, Seen
<1>5. PICK next : /\ next = CASE Exists(Candidate) -> Candidate
                             [] ~Exists(Candidate) /\ Exists(JournalTemp) -> JournalTemp
                             [] ~Exists(Candidate) /\ ~Exists(JournalTemp) /\ Exists(Journal) -> Journal
                             [] OTHER -> TheSingle
                  /\ Unlink(next)
                  /\ pc' = IF Residue = {next} THEN "syncCleaned" ELSE "clean"
  BY DEF Clean
<1>6. PICK e : e = Without(dir, next)
  OBVIOUS
<1>7. dir' = e /\ medium' = medium \cup {e} /\ files' = files
  BY <1>5, <1>6 DEF Unlink, Update
<1>8. next \in Residue /\ Good(files, e) /\ ~Loose(files, dir) /\ ~Loose(files, e)
      /\ \A n \in DOMAIN e : n \notin SingleNames
  <2>1. CASE DOMAIN dir \subseteq BundleNames /\ \A n \in DOMAIN dir : n \notin SingleNames
    <3>1. Candidate \in DOMAIN dir \/ JournalTemp \in DOMAIN dir \/ Journal \in DOMAIN dir
      BY <1>2, <1>4, <2>1 DEF BundleNames
    <3>2. next \in {Candidate, JournalTemp, Journal} /\ next \in DOMAIN dir
      BY <1>5, <3>1 DEF Exists
    <3>3. next # Target
      BY <3>2, Names
    <3>4. Good(files, e)
      BY <1>3, <1>6, <2>1, <3>3, ResidueRemoved
    <3>5. DOMAIN e \subseteq DOMAIN dir
      BY <1>6 DEF Without
    <3>6. DOMAIN e \subseteq BundleNames
      BY <2>1, <3>5
    <3>. QED  BY <1>4, <2>1, <3>2, <3>3, <3>4, <3>5, <3>6, Tight
  <2>2. ASSUME NEW n \in SingleNames, DOMAIN dir = {Target, n}, Candidate \notin DOMAIN dir,
               JournalTemp \notin DOMAIN dir, Journal \notin DOMAIN dir, n # Target
        PROVE  next \in Residue /\ Good(files, e) /\ ~Loose(files, dir) /\ ~Loose(files, e)
               /\ \A m \in DOMAIN e : m \notin SingleNames
    <3>1. next = TheSingle
      BY <1>5, <2>2 DEF Exists
    <3>2. next = n /\ next \in Residue
      BY <1>3, <1>4, <2>2, <3>1, Seen
    <3>3. Frontier \in {n.before, After(n)} /\ Settled(files, dir[Target])
          /\ Frontier = files[dir[Target]].cache
      BY <1>2, <1>3, <2>2, Seen DEF LogOf
    <3>4. Good(files, e) /\ DOMAIN e = {Target}
      BY <1>3, <1>6, <2>2, <3>2, <3>3, VoucherRemoved
    <3>5. DOMAIN e \subseteq BundleNames
      BY <3>4 DEF BundleNames
    <3>6. ~Loose(files, dir)
      <4>1. \A m \in DOMAIN dir : m \in SingleNames => m = n
        BY <2>2, Names DEF BundleNames
      <4>2. PICK torn : torn = Append(n.before, Torn(Line(n)))
        OBVIOUS
      <4>3. torn # After(n) /\ torn # n.before
        BY <4>2, Tails
      <4>. QED  BY <3>3, <4>1, <4>2, <4>3 DEF Loose
    <3>7. \A m \in DOMAIN e : m \notin SingleNames
      BY <3>5, Names
    <3>. QED  BY <3>2, <3>4, <3>5, <3>6, <3>7, Tight
  <2>. QED  BY <1>3, <2>1, <2>2, Either
<1>9. Medium'
  BY <1>3, <1>7, <1>8, MediumGrown
<1>10. Residue' = Residue \ {next}
  BY <1>6, <1>7 DEF Residue, Without
<1>11. pc' \in {"clean", "syncCleaned"} /\ (pc' = "syncCleaned" => Residue' = {})
       /\ (pc' = "clean" => Residue' # {})
  BY <1>5, <1>8, <1>10
<1>12. Recovers'
  BY <1>7, <1>8, <1>11 DEF Recovers
<1>. QED  BY <1>1, <1>3, <1>7, <1>9, <1>11, <1>12, Progressed DEF RecoverySteps, Inv, Typed

LEMMA SyncCleanedKeeps == ASSUME Inv, SyncCleaned PROVE Inv'
<1>1. pc = "syncCleaned" /\ SyncDirectory /\ Recovered(job.took)
  BY DEF SyncCleaned
<1>2. Residue = {} /\ job.took \in BOOLEAN
  BY <1>1 DEF Inv, Running, Typed, Jobs
<1>3. files' \in [Inodes -> FileSet] /\ Medium' /\ dir' = dir
  BY <1>1, SyncedAll
<1>. QED  BY <1>1, <1>2, <1>3, WentOn

-----------------------------------------------------------------------------
(* Beginning, failing, stopping *)

LEMMA BeginKeeps == ASSUME Inv, NEW c \in Calls, Begin(c) PROVE Inv'
<1>1. /\ pc' = "recover" /\ job' = [Idle EXCEPT !.call = c, !.why = "append"]
      /\ UNCHANGED disk /\ UNCHANGED told
  BY DEF Begin
<1>2. files' \in [Inodes -> FileSet] /\ Medium'
  BY <1>1, Undisturbed
<1>3. /\ job' \in Jobs /\ job'.call = c /\ job'.why = "append" /\ job'.synced = FALSE
  BY <1>1, JobTypes
<1>4. Typed'
  BY <1>1, <1>2, <1>3 DEF Inv, Typed, told, Steps
<1>. QED  BY <1>1, <1>2, <1>3, <1>4, AtRest

LEMMA BeginReadKeeps == ASSUME Inv, BeginRead PROVE Inv'
<1>1. /\ pc' = "recover" /\ job' = [Idle EXCEPT !.why = "read"]
      /\ UNCHANGED disk /\ UNCHANGED told
  BY DEF BeginRead
<1>2. files' \in [Inodes -> FileSet] /\ Medium'
  BY <1>1, Undisturbed
<1>3. job' \in Jobs /\ job'.why = "read"
  BY <1>1, JobTypes
<1>4. Typed'
  BY <1>1, <1>2, <1>3 DEF Inv, Typed, told, Steps
<1>. QED  BY <1>1, <1>2, <1>3, <1>4, AtRest

LEMMA CallFailsKeeps == ASSUME Inv, CallFails PROVE Inv'
<1>1. files' \in [Inodes -> FileSet] /\ Medium'
  BY Undisturbed DEF CallFails
<1>2. CASE \E a \in {"failed", "committed"} : Tell(a)
  <2>1. PICK a \in {"ok", "committed", "failed"} : Tell(a)
    BY <1>2
  <2>. QED  BY <1>1, <2>1, Returned
<1>3. CASE Unrecovered(job.took)
  <2>1. job.took \in BOOLEAN
    BY DEF Inv, Typed, Jobs
  <2>. QED  BY <1>1, <1>3, <2>1, GaveUp
<1>. QED  BY <1>2, <1>3 DEF CallFails

LEMMA Stopped ==
  ASSUME Inv, Interrupted, files' \in [Inodes -> FileSet], Medium'
  PROVE  Inv'
<1>1. pc' = "idle" /\ job' = Idle /\ firm' = firm
      /\ answer' \in {answer, [answer EXCEPT ![job.call] = "lost"]}
  BY DEF Interrupted
<1>2. answer' \in [Calls -> {"none", "ok", "committed", "failed", "lost"}]
  BY <1>1 DEF Inv, Typed
<1>3. Typed'
  BY <1>1, <1>2, JobTypes DEF Inv, Typed, Steps
<1>. QED  BY <1>1, <1>3, AtRest

LEMMA CrashKeeps == ASSUME Inv, Crash PROVE Inv'
<1>1. files' \in [Inodes -> FileSet] /\ Medium'
  BY Undisturbed DEF Crash
<1>. QED  BY <1>1, Stopped DEF Crash

LEMMA SurvivorsTyped ==
  ASSUME NEW f \in FileSet, NEW v \in Survivors(f)
  PROVE  v \in Contents
<1>1. f.disk \in Contents /\ f.cache \in Contents
  BY DEF FileSet
<1>2. PICK S : S = Frames \cup Bodies
  OBVIOUS
<1>3. ASSUME NEW x \in Frames
      PROVE  Append(f.disk, Torn(x)) \in Contents
  <2>1. Torn(x) \in S
    BY <1>2, FrameSets
  <2>2. f.disk \in Seq(S)
    BY <1>1, <1>2 DEF Contents
  <2>3. Append(f.disk, Torn(x)) \in Seq(S)
    BY <2>1, <2>2
  <2>. QED  BY <1>2, <2>3 DEF Contents
<1>. QED  BY <1>1, <1>3 DEF Survivors

LEMMA PowerLossKeeps == ASSUME Inv, PowerLoss PROVE Inv'
<1>1. dir' \in medium /\ medium' = {dir'} /\ Interrupted
  BY DEF PowerLoss
<1>2. PICK e \in medium : e = dir'
  BY <1>1
<1>3. PICK dirty : dirty = {i \in InUse : files[i].cache # files[i].disk}
  OBVIOUS
<1>4. PICK left : /\ \A i \in dirty : left[i] \in Survivors(files[i])
                  /\ files' = [i \in Inodes |->
                       IF i \in Range(e)
                         THEN IF i \in dirty THEN [cache |-> left[i], disk |-> left[i]] ELSE files[i]
                         ELSE Blank]
  <2>1. PICK left : /\ \A i \in dirty : left[i] \in Survivors(files[i])
                    /\ files' = Tidy([i \in Inodes |-> IF i \in dirty
                                         THEN [cache |-> left[i], disk |-> left[i]]
                                         ELSE files[i]], Range(dir'))
    BY <1>3 DEF PowerLoss
  <2>. QED  BY <1>2, <2>1 DEF Tidy
<1>5. files \in [Inodes -> FileSet] /\ Good(files, e) /\ \A n \in DOMAIN e : e[n] \in Inodes
  BY Led
<1>6. \A n \in DOMAIN e : e[n] \in Range(e) /\ e[n] \in InUse
  BY DEF Range, InUse
<1>7. \A i \in dirty \cap Inodes : left[i] \in Contents
  BY <1>4, <1>5, SurvivorsTyped
<1>8. \A i \in dirty \cap Inodes : [cache |-> left[i], disk |-> left[i]] \in FileSet
  BY <1>7 DEF FileSet
<1>9. files' \in [Inodes -> FileSet]
  BY <1>4, <1>5, <1>8, BlankTyped
<1>10. PICK gs : gs = files'
  OBVIOUS
<1>11. ASSUME NEW n \in DOMAIN e
       PROVE  gs[e[n]].cache = gs[e[n]].disk /\ gs[e[n]].cache \in Survivors(files[e[n]])
  <2>1. gs[e[n]] = IF e[n] \in dirty THEN [cache |-> left[e[n]], disk |-> left[e[n]]] ELSE files[e[n]]
    BY <1>4, <1>5, <1>6, <1>10
  <2>2. CASE e[n] \in dirty
    BY <1>4, <2>1, <2>2
  <2>3. CASE e[n] \notin dirty
    <3>1. files[e[n]].cache = files[e[n]].disk
      BY <1>3, <1>6, <2>3
    <3>. QED  BY <2>1, <2>3, <3>1 DEF Survivors
  <2>. QED  BY <2>2, <2>3
<1>12. Good(gs, e)
  BY <1>5, <1>11, Survived
<1>13. Medium'
  BY <1>1, <1>2, <1>10, <1>12, MediumSettled
<1>. QED  BY <1>1, <1>9, <1>13, Stopped

-----------------------------------------------------------------------------
(* The invariant, and what follows from it *)

LEMMA Initial == Init => Inv
<1>. SUFFICES ASSUME Init PROVE Inv
  OBVIOUS
<1>1. DOMAIN dir = {} /\ medium = {dir} /\ files = [i \in Inodes |-> Blank]
      /\ pc = "idle" /\ job = Idle /\ firm = 0
  BY EmptySeq DEF Init
<1>2. Typed
  <2>1. files \in [Inodes -> FileSet]
    BY <1>1, BlankTyped
  <2>2. pc \in Steps /\ firm \in Nat
    BY <1>1 DEF Steps
  <2>3. job \in Jobs
    BY <1>1, JobTypes
  <2>4. answer \in [Calls -> {"none", "ok", "committed", "failed", "lost"}]
    BY DEF Init
  <2>. QED  BY <2>1, <2>2, <2>3, <2>4 DEF Typed
<1>3. Good(files, dir)
  <2>1. Named(dir) /\ Vouched(files, dir) /\ Replaceable(files, dir)
    BY <1>1 DEF Named, Vouched, Replaceable
  <2>2. Logged(files, dir)
    BY <1>1, EmptyLog DEF Logged, LogOf
  <2>. QED  BY <2>1, <2>2 DEF Good
<1>4. Medium
  BY <1>1, <1>3 DEF Medium, Alone
<1>5. Running
  BY <1>1, JobTypes DEF Running, AppendSteps, RecoverySteps, Preparing
<1>6. AppendsInPlace /\ Replaces /\ Recovers
  BY <1>1 DEF AppendsInPlace, SingleSteps, Replaces, Preparing, Recovers
<1>. QED  BY <1>2, <1>4, <1>5, <1>6 DEF Inv

LEMMA StutterKeeps == ASSUME Inv, UNCHANGED vars PROVE Inv'
<1>1. UNCHANGED disk /\ UNCHANGED <<pc, job, answer, firm>>
  BY DEF vars, told
<1>2. files' \in [Inodes -> FileSet] /\ Medium' /\ files' = files /\ dir' = dir /\ medium' = medium
  BY <1>1, Undisturbed
<1>3. Typed'
  BY <1>1, <1>2 DEF Inv, Typed
<1>4. Running'
  BY <1>1, <1>2 DEF Inv, Running, Residue, Exists
<1>5. AppendsInPlace'
  BY <1>1, <1>2 DEF Inv, AppendsInPlace, InPlace
<1>6. Replaces'
  BY <1>1, <1>2 DEF Inv, Replaces, Prepared, Exchanged, NewBody, Frontier, Content, Exists
<1>7. Recovers'
  BY <1>1, <1>2 DEF Inv, Recovers, Frontier, Content, Exists, Residue
<1>. QED  BY <1>2, <1>3, <1>4, <1>5, <1>6, <1>7 DEF Inv

LEMMA NextKeeps == ASSUME Inv, [Next]_vars PROVE Inv'
<1>1. ASSUME Append1 PROVE Inv'
  BY <1>1, CreateJournalKeeps, WriteJournalKeeps, SyncJournalKeeps, SyncJournalNameKeeps,
     WriteTailKeeps, ShortWriteKeeps, SyncTailKeeps, DropSingleKeeps DEF Append1
<1>2. ASSUME AppendBundle PROVE Inv'
  BY <1>2, FillCandidateKeeps, SyncCandidateKeeps, WriteJournalTempKeeps, SyncJournalTempKeeps,
     RenameJournalKeeps, SyncRenamedKeeps, ReplaceTargetKeeps, ReplaceFailsKeeps,
     SyncReplacedKeeps, DropJournalKeeps DEF AppendBundle
<1>3. ASSUME Recovery PROVE Inv'
  BY <1>3, RecoverAtOnceKeeps, RecoverSingleKeeps, TruncateTailKeeps, SyncTargetKeeps,
     RecoverBundleKeeps, CleanKeeps, SyncCleanedKeeps DEF Recovery
<1>. QED  BY <1>1, <1>2, <1>3, BeginKeeps, BeginReadKeeps, CallFailsKeeps, CrashKeeps,
             PowerLossKeeps, StutterKeeps DEF Next

LEMMA Invariance == Spec => []Inv
<1>1. Inv /\ [Next]_vars => Inv'
  BY NextKeeps
<1>. QED  BY Initial, <1>1, PTL DEF Spec

\* Every name leads to a file of its own, and a transaction creates its files
\* only in a directory where none is left of an earlier one.
THEOREM TypeCorrect == Spec => []TypeOK
<1>1. Inv => TypeOK
  <2>. SUFFICES ASSUME Inv PROVE TypeOK
    OBVIOUS
  <2>1. Good(files, dir) /\ (\A n \in DOMAIN dir : dir[n] \in Inodes)
        /\ \A m, n \in DOMAIN dir : dir[m] = dir[n] => m = n
    BY Led
  <2>2. Range(dir) \subseteq Inodes
    BY <2>1 DEF Range
  <2>3. IsFiniteSet(DOMAIN dir)
    <3>1. IsFiniteSet({Target})
      BY FS_Singleton
    <3>2. IsFiniteSet(BundleNames)
      <4>1. IsFiniteSet({Target} \cup {Candidate})
        BY <3>1, FS_AddElement
      <4>2. IsFiniteSet(({Target} \cup {Candidate}) \cup {JournalTemp})
        BY <4>1, FS_AddElement
      <4>3. IsFiniteSet((({Target} \cup {Candidate}) \cup {JournalTemp}) \cup {Journal})
        BY <4>2, FS_AddElement
      <4>4. BundleNames = (({Target} \cup {Candidate}) \cup {JournalTemp}) \cup {Journal}
        BY DEF BundleNames
      <4>. QED  BY <4>3, <4>4
    <3>3. CASE DOMAIN dir \subseteq BundleNames
      BY <3>2, <3>3, FS_Subset
    <3>4. ASSUME NEW n \in SingleNames, DOMAIN dir = {Target, n}
          PROVE  IsFiniteSet(DOMAIN dir)
      <4>1. DOMAIN dir = {Target} \cup {n}
        BY <3>4
      <4>. QED  BY <3>1, <4>1, FS_AddElement
    <3>. QED  BY <2>1, <3>3, <3>4 DEF Good, Named
  <2>4. ExistsBijection(DOMAIN dir, Range(dir))
    <3>1. PICK f : f = [n \in DOMAIN dir |-> dir[n]]
      OBVIOUS
    <3>2. f \in [DOMAIN dir -> Range(dir)]
      BY <3>1 DEF Range
    <3>3. \A m, n \in DOMAIN dir : f[m] = f[n] => m = n
      BY <2>1, <3>1
    <3>4. \A i \in Range(dir) : \E n \in DOMAIN dir : f[n] = i
      BY <3>1 DEF Range
    <3>5. f \in Bijection(DOMAIN dir, Range(dir))
      BY <3>2, <3>3, <3>4 DEF Bijection, Injection, Surjection, IsInjective
    <3>. QED  BY <3>5 DEF ExistsBijection
  <2>5. Cardinality(Range(dir)) = Cardinality(DOMAIN dir)
    BY <2>3, <2>4, FS_Bijection
  <2>. QED  BY <2>2, <2>5 DEF TypeOK, Inv, Typed, Jobs, Running
<1>. QED  BY <1>1, Invariance, PTL

\* Whatever call failed and wherever the process or the machine stopped, the
\* next recovery finds residue it accepts: the log of the thread opens again
\* (recoverAtomicBundle, recoverAtomicSingle).
THEOREM AlwaysRecovers == Spec => []RecoveryAccepts
<1>1. Inv => RecoveryAccepts
  BY Led, Accepted DEF RecoveryAccepts
<1>. QED  BY <1>1, Invariance, PTL

-----------------------------------------------------------------------------
(* The refinement of AppendLog *)

OneFault == MaxFaults <= 1

\* The batches that content x shows, and what the log of directory d shows, seen
\* or synced.
Shown(x) == Batches(Whole(x))
Views(fs, d) ==
  IF Target \in DOMAIN d THEN {Shown(fs[d[Target]].cache), Shown(fs[d[Target]].disk)}
                         ELSE {<<>>}

\* Wherever power is lost, the log loses nothing that is firm, and only from
\* its end.
Kept == \A d \in medium : \A v \in Views(files, d) : IsPrefix(v, Visible) /\ firm <= Len(v)

\* The batch of the running call is in the log exactly after this step.
Done == {"syncTail", "dropSingle", "syncReplaced", "dropJournal"}
Made == job.call \in ToSet(Visible)

\* The one step that breaks the promise: the replacement reported an error and
\* took place all the same, and the recovery that has found it out fails in its
\* turn (store.go:435): a bundle that is in the log is reported failed.
Misreports ==
  /\ Fault /\ faults # 0
  /\ job.why = "replace" /\ Made
  /\ Visible' = Visible /\ Tell("failed")

\* What was failing is known: a short write left the journal of the call, a
\* replacement that of its bundle, and recovery finds out.
WriteFailed ==
  /\ ~Made /\ (pc # "recover" => ~job.took)
  /\ pc = "recover" => \E n \in SingleNames : DOMAIN dir = {Target, n} /\ n.call = job.call
Undecided(before) ==
  /\ job.call \notin ToSet(Shown(before))
  /\ Frontier \in {before, before \o Batch(job.call)}
  /\ Journal \in DOMAIN dir /\ Content(Journal)[1].after = before \o Batch(job.call)
ReplaceFailed ==
  /\ pc = "recover" => \E before \in Logs : Undecided(before)
  /\ pc # "recover" => (job.took <=> Made)

\* Who runs is not answered yet, and the log holds no batch of a call that was
\* not made.
Answers ==
  /\ pc = "idle" => job = Idle
  /\ job.why \in {"none", "read"} => job.call = NoCall
  /\ job.call \in Calls => answer[job.call] = "none"
  /\ \A c \in ToSet(Visible) : c = job.call \/ answer[c] # "none"
  /\ job.why = "append" => (Made <=> pc \in Done)
  /\ job.why = "write" => WriteFailed
  /\ job.why = "replace" => ReplaceFailed
  /\ job.why \in {"write", "replace"} => faults # 0 /\ pc \in RecoverySteps

Faulty == faults \in Nat /\ faults <= MaxFaults

Refines == Kept /\ Answers /\ Faulty

-----------------------------------------------------------------------------
(* What a log shows *)

Heads(x) == Among(x, {f \in Frames : f.part = 1})
Callers(h) == [i \in DOMAIN h |-> h[i].call]

LEMMA CallersTyped ==
  ASSUME NEW h \in Seq(Frames)
  PROVE  Callers(h) \in Seq(Calls)
<1>0. DOMAIN h = 1 .. Len(h) /\ Len(h) \in Nat /\ \A i \in 1 .. Len(h) : h[i] \in Frames
  OBVIOUS
<1>1. \A i \in 1 .. Len(h) : h[i].call \in Calls
  BY <1>0 DEF Frames
<1>2. Callers(h) \in [1 .. Len(h) -> Calls]
  BY <1>0, <1>1 DEF Callers
<1>. QED  BY <1>0, <1>2

LEMMA CallersAppend ==
  ASSUME NEW h \in Seq(Frames), NEW f \in Frames
  PROVE  Callers(Append(h, f)) = Append(Callers(h), f.call)
<1>1. PICK S : S = Frames
  OBVIOUS
<1>2. PICK g \in Seq(S) : g = Append(h, f)
  BY <1>1, AppendProperties
<1>3. /\ Len(h) \in Nat /\ DOMAIN h = 1 .. Len(h) /\ Len(g) = Len(h) + 1
      /\ DOMAIN g = 1 .. (Len(h) + 1)
      /\ g[Len(h) + 1] = f /\ \A i \in 1 .. Len(h) : g[i] = h[i]
  BY <1>1, <1>2
<1>4. PICK a \in Seq(Calls) : a = Callers(h)
  BY CallersTyped
<1>5. DOMAIN a = 1 .. Len(h) /\ \A i \in 1 .. Len(h) : a[i] = h[i].call
  BY <1>3, <1>4 DEF Callers
<1>6. Len(a) = Len(h) /\ f.call \in Calls
  BY <1>3, <1>4, <1>5 DEF Frames
<1>7. PICK b \in Seq(Calls) : b = Append(a, f.call)
  BY <1>4, <1>6, AppendProperties
<1>8. /\ Len(b) = Len(h) + 1 /\ b[Len(h) + 1] = f.call /\ \A i \in 1 .. Len(h) : b[i] = h[i].call
  BY <1>5, <1>6, <1>7
<1>9. PICK c \in Seq(Calls) : c = Callers(g)
  BY <1>1, <1>2, CallersTyped
<1>10. Len(c) = Len(h) + 1 /\ \A i \in 1 .. (Len(h) + 1) : c[i] = g[i].call
  <2>1. DOMAIN c = 1 .. (Len(h) + 1) /\ \A i \in 1 .. (Len(h) + 1) : c[i] = g[i].call
    BY <1>3, <1>9 DEF Callers
  <2>. QED  BY <1>3, <1>9, <2>1
<1>11. \A i \in 1 .. (Len(h) + 1) : c[i] = b[i]
  <2>. TAKE i \in 1 .. (Len(h) + 1)
  <2>1. CASE i = Len(h) + 1
    BY <1>3, <1>8, <1>10, <2>1
  <2>2. CASE i \in 1 .. Len(h)
    BY <1>3, <1>8, <1>10, <2>2
  <2>. QED  BY <1>3, <2>1, <2>2
<1>12. c = b
  BY <1>3, <1>8, <1>10, <1>11, SeqEqual
<1>. QED  BY <1>2, <1>4, <1>7, <1>9, <1>12

\* A log shows the calls of its first lines.
LEMMA ShownLog ==
  ASSUME NEW x \in Logs
  PROVE  /\ Whole(x) = x /\ Shown(x) = Callers(Heads(x))
         /\ Heads(x) \in Seq(Frames) /\ Shown(x) \in Seq(Calls)
<1>1. x \in Seq(WholeFrames) /\ \A i \in DOMAIN x : WholeBatch(x, i)
  BY DEF Logs
<1>2. ToSet(x) \subseteq {f \in Frames : f.whole}
  <2>1. \A i \in DOMAIN x : x[i] \in WholeFrames
    BY <1>1
  <2>. QED  BY <2>1 DEF ToSet, WholeFrames
<1>3. Whole(x) = x
  BY <1>1, <1>2, AmongAll DEF Whole
<1>4. Shown(x) = Callers(Heads(x))
  BY <1>1, <1>3 DEF Shown, Batches, Callers, Heads
<1>5. Heads(x) \in Seq(Frames)
  <2>1. WholeFrames \subseteq Frames
    BY FrameSets
  <2>2. x \in Seq(Frames)
    BY <1>1, <2>1
  <2>. QED  BY <2>2, AmongMembers DEF Heads
<1>. QED  BY <1>3, <1>4, <1>5, CallersTyped

LEMMA ShownEmpty == Shown(<<>>) = <<>>
<1>1. <<>> \in Logs /\ Heads(<<>>) = <<>>
  BY EmptyLog, AmongNone DEF Heads
<1>2. Callers(<<>>) = <<>>
  <2>1. PICK h \in Seq(Frames) : h = <<>>
    BY EmptySeq
  <2>2. PICK a \in Seq(Calls) : a = Callers(h)
    BY CallersTyped
  <2>3. DOMAIN h = {}
    BY <2>1, EmptySeq
  <2>4. DOMAIN a = {}
    BY <2>2, <2>3 DEF Callers
  <2>5. Len(a) = 0
    BY <2>2, <2>4, LenProperties
  <2>. QED  BY <2>1, <2>2, <2>5, EmptySeq
<1>. QED  BY <1>1, <1>2, ShownLog

\* A batch behind a log is shown behind its batches.
LEMMA ShownBatch ==
  ASSUME NEW x \in Logs, NEW c \in Calls, NEW y, y = x \o Batch(c)
  PROVE  y \in Logs /\ Shown(y) = Append(Shown(x), c)
<1>1. y \in Logs
  BY Longer
<1>2. PICK f : f = Frame(c, 1)
  OBVIOUS
<1>3. PICK g : g = Frame(c, 2)
  OBVIOUS
<1>4. /\ f \in Frames /\ g \in Frames /\ f.call = c /\ f.part = 1 /\ g.part = 2
  BY <1>2, <1>3, FrameSets
<1>5. PICK S : S = Frames
  OBVIOUS
<1>6. PICK u \in Seq(S) : u = x
  <2>1. x \in Seq(WholeFrames) /\ WholeFrames \subseteq Frames
    BY FrameSets DEF Logs
  <2>. QED  BY <1>5, <2>1
<1>7. y = Append(u, f) \/ y = Append(Append(u, f), g)
  <2>1. CASE c \in Bundles
    <3>1. y = u \o <<f, g>>
      BY <1>2, <1>3, <1>6, <2>1 DEF Batch
    <3>2. u \o <<f, g>> = Append(Append(u, f), g)
      BY <1>4, <1>5
    <3>. QED  BY <3>1, <3>2
  <2>2. CASE c \notin Bundles
    <3>1. y = u \o <<f>>
      BY <1>2, <1>6, <2>2 DEF Batch
    <3>2. u \o <<f>> = Append(u, f)
      BY <1>4, <1>5
    <3>. QED  BY <3>1, <3>2
  <2>. QED  BY <2>1, <2>2
<1>8. PICK T : T = {r \in Frames : r.part = 1}
  OBVIOUS
<1>9. f \in T /\ g \notin T
  BY <1>4, <1>8
<1>10. PICK v \in Seq(S) : v = Append(u, f)
  BY <1>4, <1>5, AppendProperties
<1>11. Among(v, T) = Append(Among(u, T), f)
  BY <1>4, <1>5, <1>9, <1>10, AmongAppend
<1>12. Among(Append(v, g), T) = Among(v, T)
  BY <1>4, <1>5, <1>9, AmongAppend
<1>13. Heads(y) = Append(Heads(x), f)
  BY <1>6, <1>7, <1>8, <1>10, <1>11, <1>12 DEF Heads
<1>14. Heads(x) \in Seq(Frames)
  BY ShownLog
<1>15. Callers(Heads(y)) = Append(Callers(Heads(x)), c)
  BY <1>4, <1>13, <1>14, CallersAppend
<1>. QED  BY <1>1, <1>15, ShownLog

\* What the journal of one event accounts for: the torn line is not shown.
LEMMA ShownTails ==
  ASSUME NEW n \in SingleNames, NEW torn, torn = Append(n.before, Torn(Line(n)))
  PROVE  /\ Shown(n.before) \in Seq(Calls) /\ n.call \in Calls
         /\ Shown(torn) = Shown(n.before)
         /\ Shown(After(n)) = Append(Shown(n.before), n.call)
<1>1. /\ n.before \in Logs /\ n.before \in Seq(Frames) /\ After(n) = n.before \o Batch(n.call)
      /\ Line(n) \in Frames /\ n.call \in Calls
  BY Tails, Names, FrameSets
<1>2. Torn(Line(n)) \in Frames /\ Torn(Line(n)) \notin {f \in Frames : f.whole}
  BY <1>1, FrameSets DEF WholeFrames
<1>3. PICK S : S = Frames
  OBVIOUS
<1>4. PICK W : W = {f \in Frames : f.whole}
  OBVIOUS
<1>5. Among(torn, W) = Among(n.before, W)
  BY <1>1, <1>2, <1>3, <1>4, AmongAppend
<1>6. Shown(torn) = Shown(n.before)
  BY <1>4, <1>5 DEF Shown, Whole
<1>. QED  BY <1>1, <1>6, ShownLog, ShownBatch

-----------------------------------------------------------------------------
(* What may be seen of the log, and what stays of it *)

LEMMA PrefixIs ==
  ASSUME NEW S, NEW s \in Seq(S), NEW t \in Seq(S)
  PROVE  /\ IsPrefix(s, t) <=> Len(s) <= Len(t) /\ \A i \in 1 .. Len(s) : s[i] = t[i]
         /\ IsPrefix(s, t) => s = SubSeq(t, 1, Len(s))
<1>0. Len(s) \in Nat /\ Len(t) \in Nat
  OBVIOUS
<1>1. s = SubSeq(s, 1, Len(s))
  OBVIOUS
<1>2. ASSUME Len(s) <= Len(t)
      PROVE  /\ SubSeq(t, 1, Len(s)) \in Seq(S) /\ Len(SubSeq(t, 1, Len(s))) = Len(s)
             /\ \A i \in 1 .. Len(s) : SubSeq(t, 1, Len(s))[i] = t[i]
  BY <1>0, <1>2
<1>3. ASSUME Len(s) <= Len(t), \A i \in 1 .. Len(s) : s[i] = t[i]
      PROVE  s = SubSeq(t, 1, Len(s))
  BY <1>0, <1>2, <1>3, SeqEqual
<1>4. IsPrefix(s, t) <=> Len(s) <= Len(t) /\ s = SubSeq(t, 1, Len(s))
  BY <1>1 DEF IsPrefix
<1>. QED  BY <1>2, <1>3, <1>4

LEMMA PrefixLaws ==
  ASSUME NEW S, NEW s \in Seq(S)
  PROVE  /\ IsPrefix(s, s)
         /\ \A e \in S : IsPrefix(s, Append(s, e))
         /\ \A t, u \in Seq(S) : IsPrefix(s, t) /\ IsPrefix(t, u) => IsPrefix(s, u)
<1>1. IsPrefix(s, s)
  BY PrefixIs
<1>2. ASSUME NEW e \in S PROVE IsPrefix(s, Append(s, e))
  <2>1. PICK t \in Seq(S) : t = Append(s, e)
    BY AppendProperties
  <2>2. Len(t) = Len(s) + 1 /\ Len(s) \in Nat /\ \A i \in 1 .. Len(s) : t[i] = s[i]
    BY <2>1, AppendProperties
  <2>3. Len(s) <= Len(t)
    BY <2>2
  <2>. QED  BY <2>1, <2>2, <2>3, PrefixIs
<1>3. ASSUME NEW t \in Seq(S), NEW u \in Seq(S), IsPrefix(s, t), IsPrefix(t, u)
      PROVE  IsPrefix(s, u)
  <2>1. Len(s) <= Len(t) /\ \A i \in 1 .. Len(s) : s[i] = t[i]
    BY <1>3, PrefixIs
  <2>2. Len(t) <= Len(u) /\ \A i \in 1 .. Len(t) : t[i] = u[i]
    BY <1>3, PrefixIs
  <2>3. Len(s) \in Nat /\ Len(t) \in Nat /\ Len(u) \in Nat
    OBVIOUS
  <2>4. Len(s) <= Len(u) /\ \A i \in 1 .. Len(s) : s[i] = u[i]
    BY <2>1, <2>2, <2>3
  <2>. QED  BY <2>4, PrefixIs
<1>. QED  BY <1>1, <1>2, <1>3

\* Every view of a good directory is a list of calls, what the process sees is
\* one of them, and without a journal of one event it is the only one.
LEMMA ViewsKnown ==
  ASSUME NEW fs, NEW d, Good(fs, d)
  PROVE  /\ Shown(LogOf(fs, d)) \in Views(fs, d) /\ Views(fs, d) \subseteq Seq(Calls)
         /\ DOMAIN d \subseteq BundleNames => Views(fs, d) = {Shown(LogOf(fs, d))}
<1>1. Shown(LogOf(fs, d)) \in Views(fs, d)
  BY ShownEmpty DEF Views, LogOf
<1>2. DOMAIN d \subseteq BundleNames => Views(fs, d) = {Shown(LogOf(fs, d))}
  BY ShownEmpty DEF Views, LogOf, Good, Logged, Settled
<1>3. CASE DOMAIN d \subseteq BundleNames
  <2>1. LogOf(fs, d) \in Logs
    BY <1>3 DEF Good, Logged
  <2>. QED  BY <1>1, <1>2, <1>3, <2>1, ShownLog
<1>4. ASSUME NEW n \in SingleNames, DOMAIN d = {Target, n}
      PROVE  Views(fs, d) \subseteq Seq(Calls)
  <2>1. VouchedBy(fs[d[Target]], fs[d[n]], n)
    BY <1>4 DEF Good, Vouched
  <2>2. PICK torn : torn = Append(n.before, Torn(Line(n)))
    OBVIOUS
  <2>3. Recoverable(n) = {n.before, torn, After(n)}
    BY <2>2, Tails
  <2>4. /\ Shown(n.before) \in Seq(Calls) /\ n.call \in Calls /\ Shown(torn) = Shown(n.before)
        /\ Shown(After(n)) = Append(Shown(n.before), n.call)
    BY <2>2, ShownTails
  <2>5. Shown(After(n)) \in Seq(Calls)
    BY <2>4, AppendProperties
  <2>6. Views(fs, d) = {Shown(fs[d[Target]].cache), Shown(fs[d[Target]].disk)}
    BY <1>4 DEF Views
  <2>. QED  BY <2>1, <2>3, <2>4, <2>5, <2>6 DEF VouchedBy
<1>5. Named(d)
  BY DEF Good
<1>. QED  BY <1>1, <1>2, <1>3, <1>4, <1>5 DEF Named

LEMMA Looking ==
  ASSUME Inv
  PROVE  /\ Visible = Shown(Frontier) /\ Visible = Shown(LogOf(files, dir))
         /\ Visible \in Seq(Calls) /\ Visible \in Views(files, dir) /\ dir \in medium
         /\ \A d \in medium : Views(files, d) \subseteq Seq(Calls)
<1>1. dir \in medium /\ Good(files, dir) /\ \A d \in medium : Good(files, d)
  BY Led
<1>2. Visible = Shown(Frontier) /\ Frontier = LogOf(files, dir)
  BY DEF Visible, Shown, Frontier, LogOf, Exists, Content
<1>. QED  BY <1>1, <1>2, ViewsKnown

LEMMA LookingNext ==
  ASSUME Inv'
  PROVE  /\ Visible' = Shown(Frontier') /\ Visible' = Shown(LogOf(files', dir'))
         /\ Visible' \in Seq(Calls) /\ Visible' \in Views(files', dir') /\ dir' \in medium'
         /\ \A d \in medium' : Views(files', d) \subseteq Seq(Calls)
<1>1. dir' \in medium' /\ \A d \in medium' : Good(files', d)
  BY DEF Inv, Medium
<1>2. Visible' = Shown(Frontier') /\ Frontier' = LogOf(files', dir')
  BY DEF Visible, Shown, Frontier, LogOf, Exists, Content
<1>. QED  BY <1>1, <1>2, ViewsKnown

\* What may be seen after a step was there before it, or is what the process
\* sees now.
Drawn ==
  \A d \in medium' : \A v \in Views(files', d) :
    v = Visible' \/ \E d0 \in medium : v \in Views(files, d0)

\* The step leaves the log alone.
Still == Visible' = Visible /\ Drawn

LEMMA KeptOn ==
  ASSUME Inv, Inv', Kept, Drawn, IsPrefix(Visible, Visible'), firm' = firm
  PROVE  Kept'
<1>1. PICK s \in Seq(Calls) : s = Visible
  BY Looking
<1>2. PICK t \in Seq(Calls) : t = Visible'
  BY LookingNext
<1>3. IsPrefix(s, t) /\ Len(s) <= Len(t) /\ IsPrefix(t, t)
  BY <1>1, <1>2, PrefixIs, PrefixLaws
<1>4. firm \in Nat /\ firm <= Len(s) /\ Len(s) \in Nat /\ Len(t) \in Nat
  BY <1>1, Looking DEF Kept, Inv, Typed
<1>5. ASSUME NEW d \in medium', NEW v \in Views(files', d)
      PROVE  IsPrefix(v, t) /\ firm <= Len(v)
  <2>1. CASE v = t
    BY <1>3, <1>4, <2>1
  <2>2. ASSUME NEW d0 \in medium, v \in Views(files, d0)
        PROVE  IsPrefix(v, t) /\ firm <= Len(v)
    <3>1. v \in Seq(Calls) /\ IsPrefix(v, s) /\ firm <= Len(v)
      BY <1>1, <2>2, Looking DEF Kept
    <3>. QED  BY <1>3, <3>1, PrefixLaws
  <2>. QED  BY <1>2, <2>1, <2>2 DEF Drawn
<1>. QED  BY <1>2, <1>5 DEF Kept

\* What the process sees is on the medium, in each directory it may hold.
LEMMA KeptFirm ==
  ASSUME Inv', \A d \in medium' : Views(files', d) = {Visible'}, firm' <= Len(Visible')
  PROVE  Kept'
<1>1. IsPrefix(Visible', Visible')
  BY LookingNext, PrefixLaws
<1>. QED  BY <1>1 DEF Kept

-----------------------------------------------------------------------------
(* System calls that leave the log alone *)

LEMMA SameLog ==
  ASSUME NEW fs, NEW gs, NEW d, NEW e, Target \in DOMAIN e <=> Target \in DOMAIN d,
         Target \in DOMAIN d =>
           /\ gs[e[Target]].cache = fs[d[Target]].cache
           /\ gs[e[Target]].disk \in {fs[d[Target]].disk, fs[d[Target]].cache}
  PROVE  Views(gs, e) \subseteq Views(fs, d) /\ LogOf(gs, e) = LogOf(fs, d)
BY DEF Views, LogOf

LEMMA StillBy ==
  ASSUME Inv, NEW gs, gs = files', NEW e, e = dir', LogOf(gs, e) = LogOf(files, dir),
         \A d \in medium' : \E d0 \in medium : Views(gs, d) \subseteq Views(files, d0)
  PROVE  Still
<1>1. Visible' = Visible
  BY Looking DEF Visible, Shown, Frontier, LogOf, Exists, Content
<1>2. Drawn
  BY DEF Drawn
<1>. QED  BY <1>1, <1>2 DEF Still

LEMMA StillUnchanged == ASSUME Inv, UNCHANGED disk PROVE Still
<1>1. files' = files /\ dir' = dir /\ medium' = medium
  BY DEF disk
<1>. QED  BY <1>1, StillBy

LEMMA StillSynced == ASSUME Inv, NEW n \in DOMAIN dir, SyncFile(n) PROVE Still
<1>1. files \in [Inodes -> FileSet] /\ dir[n] \in Inodes
      /\ \A d \in medium : \A m \in DOMAIN d : d[m] \in Inodes
  BY Led
<1>2. files' = [files EXCEPT ![dir[n]].disk = files[dir[n]].cache] /\ dir' = dir /\ medium' = medium
  BY DEF SyncFile, Content
<1>3. files[dir[n]] \in FileSet
  BY <1>1
<1>4. files'[dir[n]] = [files[dir[n]] EXCEPT !.disk = files[dir[n]].cache]
  BY <1>1, <1>2
<1>5. files'[dir[n]].disk = files[dir[n]].cache /\ files'[dir[n]].cache = files[dir[n]].cache
  BY <1>3, <1>4 DEF FileSet
<1>6. \A i \in Inodes : i # dir[n] => files'[i] = files[i]
  BY <1>1, <1>2
<1>7. PICK gs : gs = files'
  OBVIOUS
<1>8. \A i \in Inodes : gs[i].cache = files[i].cache /\ gs[i].disk \in {files[i].disk, files[i].cache}
  BY <1>5, <1>6, <1>7
<1>9. \A d \in medium : Views(gs, d) \subseteq Views(files, d) /\ LogOf(gs, d) = LogOf(files, d)
  <2>. TAKE d \in medium
  <2>1. Target \in DOMAIN d => gs[d[Target]].cache = files[d[Target]].cache
                               /\ gs[d[Target]].disk \in {files[d[Target]].disk, files[d[Target]].cache}
    BY <1>1, <1>8
  <2>. QED  BY <2>1, SameLog
<1>10. dir \in medium
  BY Led
<1>. QED  BY <1>2, <1>7, <1>9, <1>10, StillBy

LEMMA StillCreated == ASSUME Inv, NEW n, n # Target, NEW x, Create(n, x) PROVE Still
<1>1. PICK i : i = FreshInode
  OBVIOUS
<1>2. i \in Inodes /\ i \notin InUse
  BY <1>1 DEF Create, FreshInode
<1>3. \A d \in medium : i \notin Range(d)
  BY <1>2 DEF InUse
<1>4. \A d \in medium : \A m \in DOMAIN d : d[m] \in Inodes /\ d[m] # i
  BY <1>3, Led DEF Range
<1>5. files \in [Inodes -> FileSet] /\ dir \in medium
  BY Led
<1>6. files' = [files EXCEPT ![i] = [cache |-> x, disk |-> <<>>]]
  BY <1>1 DEF Create
<1>7. PICK gs : gs = files'
  OBVIOUS
<1>8. PICK e : e = dir'
  OBVIOUS
<1>9. e = Bound(dir, n, i) /\ medium' = medium \cup {e}
  BY <1>1, <1>8 DEF Create, Update
<1>10. \A d \in medium : \A m \in DOMAIN d : gs[d[m]] = files[d[m]]
  BY <1>4, <1>5, <1>6, <1>7
<1>11. \A d \in medium : Views(gs, d) \subseteq Views(files, d)
  <2>. TAKE d \in medium
  <2>1. Target \in DOMAIN d => gs[d[Target]].cache = files[d[Target]].cache
                               /\ gs[d[Target]].disk \in {files[d[Target]].disk, files[d[Target]].cache}
    BY <1>10
  <2>. QED  BY <2>1, SameLog
<1>12. (Target \in DOMAIN e <=> Target \in DOMAIN dir)
       /\ (Target \in DOMAIN dir => gs[e[Target]].cache = files[dir[Target]].cache
                                    /\ gs[e[Target]].disk = files[dir[Target]].disk)
  BY <1>5, <1>9, <1>10 DEF Bound
<1>13. Views(gs, e) \subseteq Views(files, dir) /\ LogOf(gs, e) = LogOf(files, dir)
  <2>1. Target \in DOMAIN dir => /\ gs[e[Target]].cache = files[dir[Target]].cache
                                 /\ gs[e[Target]].disk \in {files[dir[Target]].disk, files[dir[Target]].cache}
    BY <1>12
  <2>. QED  BY <1>12, <2>1, SameLog
<1>. QED  BY <1>5, <1>7, <1>8, <1>9, <1>11, <1>13, StillBy

\* The directory is updated, but not at the name of the log.
LEMMA StillUpdated ==
  ASSUME Inv, files' = files, NEW e, dir' = e, medium' = medium \cup {e},
         Target \in DOMAIN e <=> Target \in DOMAIN dir,
         Target \in DOMAIN dir => e[Target] = dir[Target]
  PROVE  Still
<1>1. Views(files, e) \subseteq Views(files, dir) /\ LogOf(files, e) = LogOf(files, dir)
  BY SameLog
<1>2. dir \in medium
  BY Led
<1>. QED  BY <1>1, <1>2, StillBy

LEMMA StillUnlinked == ASSUME Inv, NEW n, n # Target, Unlink(n) PROVE Still
<1>1. PICK e : e = Without(dir, n)
  OBVIOUS
<1>2. dir' = e /\ medium' = medium \cup {e} /\ files' = files
  BY <1>1 DEF Unlink, Update
<1>3. (Target \in DOMAIN e <=> Target \in DOMAIN dir)
      /\ (Target \in DOMAIN dir => e[Target] = dir[Target])
  BY <1>1 DEF Without
<1>. QED  BY <1>2, <1>3, StillUpdated

LEMMA StillRenamed == ASSUME Inv, Rename(JournalTemp, Journal) PROVE Still
<1>1. PICK e : e = Bound(Without(dir, JournalTemp), Journal, dir[JournalTemp])
  OBVIOUS
<1>2. dir' = e /\ medium' = medium \cup {e} /\ files' = files
  BY <1>1 DEF Rename, Update
<1>3. (Target \in DOMAIN e <=> Target \in DOMAIN dir)
      /\ (Target \in DOMAIN dir => e[Target] = dir[Target])
  BY <1>1, Names DEF Bound, Without
<1>. QED  BY <1>2, <1>3, StillUpdated

LEMMA StillSettled == ASSUME Inv, SyncDirectory PROVE Still
<1>1. /\ \A m \in DOMAIN dir : files'[dir[m]] = files[dir[m]]
      /\ dir' = dir /\ medium' = {dir} /\ dir \in medium
  BY SyncedAll, Led
<1>2. PICK gs : gs = files'
  OBVIOUS
<1>3. Views(gs, dir) \subseteq Views(files, dir) /\ LogOf(gs, dir) = LogOf(files, dir)
  BY <1>1, <1>2, SameLog
<1>. QED  BY <1>1, <1>2, <1>3, StillBy

\* The journal is written: no other directory of the medium knows its file.
LEMMA StillVouched == ASSUME Inv, WriteJournal PROVE Still
<1>1. pc = "writeJournal"
  BY DEF WriteJournal
<1>2. PICK n \in SingleNames :
         /\ InPlace(n) /\ DOMAIN dir = {Target, n} /\ TheSingle = n
         /\ Target \in DOMAIN dir /\ n \in DOMAIN dir
         /\ dir[Target] # dir[n] /\ dir[n] \in Inodes
  BY <1>1, Placing DEF SingleSteps
<1>3. \A d \in medium : dir[n] \in Range(d) => d = dir
  BY <1>1, <1>2 DEF InPlace
<1>4. PICK x : Write(n, x)
  BY <1>2 DEF WriteJournal
<1>5. files' = [files EXCEPT ![dir[n]].cache = x] /\ dir' = dir /\ medium' = medium
  BY <1>4 DEF Write
<1>6. files \in [Inodes -> FileSet] /\ dir \in medium
      /\ \A d \in medium : \A m \in DOMAIN d : d[m] \in Inodes
  BY Led
<1>7. PICK gs : gs = files'
  OBVIOUS
<1>8. \A i \in Inodes : i # dir[n] => gs[i] = files[i]
  BY <1>5, <1>6, <1>7
<1>9. ASSUME NEW d \in medium, Target \in DOMAIN d
      PROVE  gs[d[Target]] = files[d[Target]]
  <2>1. d[Target] # dir[n]
    <3>1. d[Target] \in Range(d)
      BY <1>9 DEF Range
    <3>. QED  BY <1>2, <1>3, <3>1
  <2>. QED  BY <1>6, <1>8, <1>9, <2>1
<1>10. \A d \in medium : Views(gs, d) \subseteq Views(files, d) /\ LogOf(gs, d) = LogOf(files, d)
  <2>. TAKE d \in medium
  <2>1. Target \in DOMAIN d => gs[d[Target]].cache = files[d[Target]].cache
                               /\ gs[d[Target]].disk \in {files[d[Target]].disk, files[d[Target]].cache}
    BY <1>9
  <2>. QED  BY <2>1 DEF Views, LogOf
<1>. QED  BY <1>5, <1>6, <1>7, <1>10, StillBy

-----------------------------------------------------------------------------
(* System calls that change the log *)

\* The log is written in place, on a medium that holds one directory.
LEMMA Rewritten ==
  ASSUME Inv, Inv', medium = {dir}, Target \in DOMAIN dir, NEW x \in Contents, Write(Target, x)
  PROVE  Visible' = Shown(x) /\ Drawn
<1>1. /\ files'[dir[Target]].cache = x /\ files'[dir[Target]].disk = files[dir[Target]].disk
      /\ dir' = dir /\ medium' = medium
  BY Wrote
<1>2. PICK gs : gs = files'
  OBVIOUS
<1>3. Visible' = Shown(LogOf(gs, dir)) /\ LogOf(gs, dir) = x
  BY <1>1, <1>2, LookingNext DEF LogOf
<1>4. Views(gs, dir) = {Shown(x), Shown(files[dir[Target]].disk)}
      /\ Shown(files[dir[Target]].disk) \in Views(files, dir)
  BY <1>1, <1>2 DEF Views
<1>. QED  BY <1>1, <1>2, <1>3, <1>4 DEF Drawn

\* The replacement takes place: the candidate is on the medium.
LEMMA Exchange ==
  ASSUME Inv, Inv', pc = "replaceTarget", Rename(Candidate, Target)
  PROVE  /\ Drawn /\ Visible' = Append(Visible, job.call)
         /\ Frontier' = Frontier \o Batch(job.call)
         /\ Journal \in DOMAIN dir' /\ Content(Journal)'[1].after = Frontier \o Batch(job.call)
<1>1. /\ Prepared /\ DOMAIN dir \subseteq BundleNames /\ Candidate \in DOMAIN dir
      /\ Good(files, dir) /\ Frontier \in Logs /\ job.call \in Calls
  BY Staging DEF StagedSteps
<1>2. /\ Journal \in DOMAIN dir /\ Content(Journal) = <<NewBody>>
      /\ Content(Candidate) = Frontier \o Batch(job.call) /\ medium = {dir}
  BY <1>1 DEF Prepared
<1>3. Candidate # Target /\ Candidate # Journal /\ Journal # Target
  BY Names
<1>4. PICK e : e = Bound(Without(dir, Candidate), Target, dir[Candidate])
  OBVIOUS
<1>5. dir' = e /\ medium' = {dir, e} /\ files' = files
  BY <1>2, <1>4 DEF Rename, Update
<1>6. /\ DOMAIN e = (DOMAIN dir \ {Candidate}) \cup {Target} /\ e[Target] = dir[Candidate]
      /\ e[Journal] = dir[Journal] /\ Journal \in DOMAIN e
  BY <1>2, <1>3, <1>4 DEF Bound, Without
<1>7. Frontier' = Frontier \o Batch(job.call)
  BY <1>2, <1>5, <1>6 DEF Frontier, Exists, Content
<1>8. Visible' = Append(Visible, job.call)
  BY <1>1, <1>7, ShownBatch, Looking, LookingNext
<1>9. Content(Journal)'[1].after = Frontier \o Batch(job.call)
  <2>1. Content(Journal)' = <<NewBody>> /\ <<NewBody>>[1] = NewBody
    BY <1>2, <1>5, <1>6 DEF Content
  <2>2. NewBody.after = Content(Candidate)
    BY DEF NewBody
  <2>. QED  BY <1>2, <2>1, <2>2
<1>10. Drawn
  <2>1. DOMAIN e \subseteq BundleNames
    BY <1>1, <1>6 DEF BundleNames
  <2>2. Good(files, e)
    BY <1>1, <1>2, <1>4, LogReplaced
  <2>3. Views(files, e) = {Shown(LogOf(files, e))}
    BY <2>1, <2>2, ViewsKnown
  <2>4. Visible' = Shown(LogOf(files, e))
    BY <1>5, LookingNext
  <2>. QED  BY <1>5, <1>2, <2>3, <2>4 DEF Drawn
<1>. QED  BY <1>5, <1>6, <1>7, <1>8, <1>9, <1>10

\* Power loss leaves something that might have been seen before.
LEMMA TornShown ==
  ASSUME NEW x \in Seq(Frames), NEW f \in Frames
  PROVE  Shown(Append(x, Torn(f))) = Shown(x)
<1>1. PICK S : S = Frames
  OBVIOUS
<1>2. PICK W : W = {g \in Frames : g.whole}
  OBVIOUS
<1>3. Torn(f) \in S /\ Torn(f) \notin W
  BY <1>1, <1>2, FrameSets DEF WholeFrames
<1>4. Among(Append(x, Torn(f)), W) = Among(x, W)
  BY <1>1, <1>3, AmongAppend
<1>. QED  BY <1>2, <1>4 DEF Shown, Whole

LEMMA Left ==
  ASSUME Inv, Inv', PowerLoss
  PROVE  /\ Visible' \in UNION {Views(files, d) : d \in medium}
         /\ \A d \in medium' : Views(files', d) = {Visible'}
<1>1. dir' \in medium /\ medium' = {dir'}
  BY DEF PowerLoss
<1>2. PICK e \in medium : e = dir'
  BY <1>1
<1>3. PICK gs : gs = files'
  OBVIOUS
<1>4. Good(files, e) /\ \A n \in DOMAIN e : e[n] \in Inodes
  BY Led
<1>5. ASSUME NEW n \in DOMAIN e
      PROVE  gs[e[n]].cache = gs[e[n]].disk /\ gs[e[n]].cache \in Survivors(files[e[n]])
  <2>1. PICK dirty : dirty = {i \in InUse : files[i].cache # files[i].disk}
    OBVIOUS
  <2>2. PICK left : /\ \A i \in dirty : left[i] \in Survivors(files[i])
                    /\ files' = Tidy([i \in Inodes |-> IF i \in dirty
                                         THEN [cache |-> left[i], disk |-> left[i]]
                                         ELSE files[i]], Range(dir'))
    BY <2>1 DEF PowerLoss
  <2>3. e[n] \in Range(e) /\ e[n] \in InUse /\ e[n] \in Inodes
    BY <1>4 DEF Range, InUse
  <2>4. gs[e[n]] = IF e[n] \in dirty THEN [cache |-> left[e[n]], disk |-> left[e[n]]] ELSE files[e[n]]
    BY <1>2, <1>3, <2>2, <2>3 DEF Tidy
  <2>5. CASE e[n] \in dirty
    BY <2>2, <2>4, <2>5
  <2>6. CASE e[n] \notin dirty
    <3>1. files[e[n]].cache = files[e[n]].disk
      BY <2>1, <2>3, <2>6
    <3>. QED  BY <2>4, <2>6, <3>1 DEF Survivors
  <2>. QED  BY <2>5, <2>6
<1>6. Views(gs, e) = {Shown(LogOf(gs, e))}
  BY <1>5, ShownEmpty DEF Views, LogOf
<1>7. Visible' = Shown(LogOf(gs, e))
  BY <1>2, <1>3, LookingNext
<1>8. Shown(LogOf(gs, e)) \in Views(files, e)
  <2>1. CASE Target \notin DOMAIN e
    BY <2>1, ShownEmpty DEF Views, LogOf
  <2>2. CASE Target \in DOMAIN e /\ DOMAIN e \subseteq BundleNames
    <3>1. files[e[Target]].cache = files[e[Target]].disk
      BY <1>4, <2>2 DEF Good, Logged, Settled
    <3>2. gs[e[Target]].cache = files[e[Target]].cache
      BY <1>5, <2>2, <3>1, SettledSurvives
    <3>. QED  BY <2>2, <3>2 DEF Views, LogOf
  <2>3. ASSUME NEW n \in SingleNames, DOMAIN e = {Target, n}
        PROVE  Shown(LogOf(gs, e)) \in Views(files, e)
    <3>1. VouchedBy(files[e[Target]], files[e[n]], n)
      BY <1>4, <2>3 DEF Good, Vouched
    <3>2. PICK torn : torn = Append(n.before, Torn(Line(n)))
      OBVIOUS
    <3>3. files[e[Target]].disk \in Seq(Frames)
      <4>1. /\ Recoverable(n) = {n.before, torn, After(n)} /\ n.before \in Seq(Frames)
            /\ torn \in Seq(Frames) /\ After(n) \in Seq(Frames)
        BY ZenonT(60), <3>2, Tails
      <4>. QED  BY <3>1, <4>1 DEF VouchedBy
    <3>4. PICK v : v = gs[e[Target]].cache
      OBVIOUS
    <3>5. v \in Survivors(files[e[Target]])
      BY <1>5, <2>3, <3>4
    <3>6. \/ v \in {files[e[Target]].disk, files[e[Target]].cache}
          \/ \E f \in Frames : v = Append(files[e[Target]].disk, Torn(f))
      BY <3>5 DEF Survivors
    <3>7. Shown(v) \in {Shown(files[e[Target]].disk), Shown(files[e[Target]].cache)}
      BY <3>3, <3>6, TornShown
    <3>. QED  BY <2>3, <3>4, <3>7 DEF Views, LogOf
  <2>4. Named(e)
    BY <1>4 DEF Good
  <2>. QED  BY <2>1, <2>2, <2>3, <2>4 DEF Named
<1>. QED  BY <1>1, <1>2, <1>3, <1>6, <1>7, <1>8

-----------------------------------------------------------------------------
(* A step of the store is a step of the promise, or none *)

Refined == Refines' /\ [Promise!Next \/ Misreports]_(Promise!vars)

\* Who runs, and what is in the log.
LEMMA Asked ==
  ASSUME Inv
  PROVE  /\ job.call \in Calls \cup {NoCall} /\ NoCall \notin Calls
         /\ job.why \in {"none", "append", "read", "write", "replace"}
         /\ job.why \in {"append", "write", "replace"} => job.call \in Calls
         /\ pc # "idle" => job.why # "none"
         /\ pc \in AppendSteps => job.why = "append"
         /\ answer \in [Calls -> {"none", "ok", "committed", "failed", "lost"}]
         /\ job.took \in BOOLEAN
BY CallAssumption DEF Inv, Typed, Jobs, Running

LEMMA AskedNext ==
  ASSUME Inv'
  PROVE  /\ job'.why \in {"none", "append", "read", "write", "replace"}
         /\ job'.why \in {"append", "write", "replace"} => job'.call \in Calls
         /\ pc' # "idle" => job'.why # "none"
         /\ pc' \in AppendSteps => job'.why = "append"
BY DEF Inv, Typed, Jobs, Running

LEMMA InLog ==
  ASSUME Inv
  PROVE  /\ ToSet(Visible) \subseteq Calls
         /\ \A c \in Calls : ToSet(Append(Visible, c)) = ToSet(Visible) \cup {c}
BY Looking, Members

LEMMA IdleIs ==
  Idle.call = NoCall /\ Idle.why = "none"
BY DEF Idle

LEMMA Silent ==
  ASSUME Visible' = Visible, firm' = firm, job'.call = job.call, answer' = answer
  PROVE  UNCHANGED Promise!vars
BY DEF Promise!vars

\* The append goes on; its batch is in the log as it was.
LEMMA GoesOn ==
  ASSUME Inv, Inv', Refines, Still, UNCHANGED told, UNCHANGED bounds,
         job.why = "append", job'.why = "append", job'.call = job.call,
         pc' # "idle", pc' \in Done <=> pc \in Done
  PROVE  Refined
<1>1. Kept /\ Answers /\ Faulty /\ Visible' = Visible /\ Drawn /\ answer' = answer /\ firm' = firm
      /\ faults' = faults
  BY DEF Refines, Still, told, bounds
<1>2. Kept'
  BY <1>1, KeptOn, Looking, PrefixLaws
<1>3. Made' <=> Made
  BY <1>1 DEF Made
<1>4. Answers'
  BY <1>1, <1>3 DEF Answers
<1>5. Faulty'
  BY <1>1 DEF Faulty
<1>6. UNCHANGED Promise!vars
  BY <1>1, Silent
<1>. QED  BY <1>2, <1>4, <1>5, <1>6 DEF Refined, Refines

\* The batch of the call that runs gets into the log.
LEMMA Enters ==
  ASSUME Inv, Inv', Refines, Drawn, Visible' = Append(Visible, job.call), UNCHANGED told,
         job.why = "append", ~Made, job'.call = job.call
  PROVE  /\ Kept' /\ Promise!Commit /\ Made'
         /\ \A c \in ToSet(Visible') : c = job'.call \/ answer'[c] # "none"
         /\ answer'[job'.call] = "none"
<1>1. Kept /\ Answers /\ answer' = answer /\ firm' = firm
  BY DEF Refines, told
<1>2. job.call \in Calls /\ job.call # NoCall
  BY Asked
<1>3. Kept'
  BY <1>1, <1>2, KeptOn, Looking, PrefixLaws
<1>4. ToSet(Visible') = ToSet(Visible) \cup {job.call}
  BY <1>2, InLog
<1>5. Made'
  BY <1>4 DEF Made
<1>6. Promise!Commit
  <2>1. Promise!ToSet(Visible) = ToSet(Visible)
    BY DEF Promise!ToSet, ToSet
  <2>. QED  BY <1>1, <1>2, <2>1 DEF Promise!Commit, Made
<1>7. \A c \in ToSet(Visible') : c = job'.call \/ answer'[c] # "none"
  BY <1>1, <1>4 DEF Answers
<1>8. answer'[job'.call] = "none"
  BY <1>1, <1>2 DEF Answers
<1>. QED  BY <1>3, <1>5, <1>6, <1>7, <1>8

LEMMA Commits ==
  ASSUME Inv, Inv', Refines, Drawn, Visible' = Append(Visible, job.call),
         UNCHANGED <<job, told>>, UNCHANGED bounds, pc \in AppendSteps \ Done, pc' \in Done
  PROVE  Refined
<1>1. job.why = "append" /\ job' = job /\ Answers /\ Faulty /\ faults' = faults /\ UNCHANGED told
  BY Asked DEF Refines, bounds
<1>2. ~Made
  BY <1>1 DEF Answers
<1>3. /\ Kept' /\ Promise!Commit /\ Made' /\ answer'[job'.call] = "none"
      /\ \A c \in ToSet(Visible') : c = job'.call \/ answer'[c] # "none"
  BY <1>1, <1>2, Enters
<1>4. Answers'
  BY <1>1, <1>3 DEF Answers, Done
<1>5. Faulty'
  BY <1>1 DEF Faulty
<1>. QED  BY <1>3, <1>4, <1>5 DEF Refined, Refines, Promise!Next

\* The call returns: what it did stays.
LEMMA Told ==
  ASSUME Inv, Inv', Refines, Visible' = Visible, Kept', Faulty', NEW a, Tell(a),
         a \in {"ok", "committed", "failed"}, job.call \in Calls
  PROVE  Refines' /\ job'.call = NoCall
<1>1. answer' = [answer EXCEPT ![job.call] = a] /\ pc' = "idle" /\ job' = Idle
  BY DEF Tell
<1>2. job'.call = NoCall /\ job'.why = "none" /\ job.call # NoCall
  BY <1>1, IdleIs, Asked
<1>3. \A c \in ToSet(Visible') : answer'[c] # "none"
  <2>. SUFFICES ASSUME NEW c \in ToSet(Visible)
                PROVE  answer'[c] # "none"
    OBVIOUS
  <2>1. c \in Calls /\ answer \in [Calls -> {"none", "ok", "committed", "failed", "lost"}]
    BY InLog, Asked
  <2>2. CASE c = job.call
    BY <1>1, <2>1, <2>2
  <2>3. CASE c # job.call
    <3>1. answer[c] # "none"
      BY <2>3 DEF Refines, Answers
    <3>. QED  BY <1>1, <2>1, <2>3, <3>1
  <2>. QED  BY <2>2, <2>3
<1>4. Answers'
  BY <1>1, <1>2, <1>3, CallAssumption DEF Answers
<1>. QED  BY <1>2, <1>4 DEF Refines

\* The call returns, and tells whether its batch is in the log.
LEMMA Answered ==
  ASSUME Inv, Inv', Refines, Visible' = Visible, Kept', Faulty', job.call \in Calls,
         NEW a \in {"ok", "committed", "failed"}, Tell(a), a # "failed" <=> Made
  PROVE  Refined
<1>1. /\ answer' = [answer EXCEPT ![job.call] = a]
      /\ firm' = (IF a = "ok" THEN Len(Visible) ELSE firm)
  BY DEF Tell
<1>2. Refines' /\ job'.call = NoCall /\ job.call # NoCall
  BY Told, Asked
<1>3. Promise!Return
  <2>1. Promise!ToSet(Visible) = ToSet(Visible)
    BY DEF Promise!ToSet, ToSet
  <2>2. a # "failed" <=> job.call \in ToSet(Visible)
    BY DEF Made
  <2>. QED  BY <1>1, <1>2, <2>1, <2>2 DEF Promise!Return
<1>. QED  BY <1>2, <1>3 DEF Refined, Promise!Next

\* The reader is shown the log.
LEMMA ReadEnds ==
  ASSUME Inv, Inv', Refines, Still, UNCHANGED told, Faulty',
         job.why = "read", pc' = "idle", job' = Idle
  PROVE  Refined
<1>1. Kept /\ Answers /\ Visible' = Visible /\ Drawn /\ answer' = answer /\ firm' = firm
  BY DEF Refines, Still, told
<1>2. Kept'
  BY <1>1, KeptOn, Looking, PrefixLaws
<1>3. job.call = NoCall /\ job'.call = NoCall /\ job'.why = "none"
  BY <1>1, IdleIs DEF Answers
<1>4. Answers'
  BY <1>1, <1>3, CallAssumption DEF Answers
<1>5. UNCHANGED Promise!vars
  BY <1>1, <1>3, Silent
<1>. QED  BY <1>2, <1>4, <1>5 DEF Refined, Refines

\* Who runs is interrupted, and learns nothing.
LEMMA Halts ==
  ASSUME Inv, Inv', Refines, Interrupted, ToSet(Visible') \subseteq ToSet(Visible)
  PROVE  /\ Answers' /\ job'.call = NoCall /\ firm' = firm
         /\ answer' = IF job.call = NoCall THEN answer ELSE [answer EXCEPT ![job.call] = "lost"]
<1>1. /\ answer' = IF job.call = NoCall THEN answer ELSE [answer EXCEPT ![job.call] = "lost"]
      /\ pc' = "idle" /\ job' = Idle /\ firm' = firm
  BY DEF Interrupted
<1>2. job'.call = NoCall /\ job'.why = "none"
  BY <1>1, IdleIs
<1>3. \A c \in ToSet(Visible') : answer'[c] # "none"
  <2>. SUFFICES ASSUME NEW c \in ToSet(Visible)
                PROVE  answer'[c] # "none"
    OBVIOUS
  <2>1. c \in Calls /\ NoCall \notin Calls
        /\ answer \in [Calls -> {"none", "ok", "committed", "failed", "lost"}]
    BY InLog, Asked
  <2>2. CASE c = job.call
    BY <1>1, <2>1, <2>2
  <2>3. CASE c # job.call
    <3>1. answer[c] # "none"
      BY <2>3 DEF Refines, Answers
    <3>. QED  BY <1>1, <2>1, <2>3, <3>1
  <2>. QED  BY <2>2, <2>3
<1>4. Answers'
  BY <1>1, <1>2, <1>3, CallAssumption DEF Answers
<1>. QED  BY <1>1, <1>2, <1>4

\* Recovery goes on; it knows whether the batch that failed is in the log.
LEMMA Mends ==
  ASSUME Inv, Inv', Refines, Still, UNCHANGED told, UNCHANGED bounds,
         pc \in RecoverySteps, pc' \in RecoverySteps \ {"recover"},
         job'.call = job.call, job'.why = job.why,
         job.why = "write" => ~job'.took, job.why = "replace" => (job'.took <=> Made)
  PROVE  Refined
<1>1. Kept /\ Answers /\ Faulty /\ Visible' = Visible /\ Drawn /\ answer' = answer /\ firm' = firm
      /\ faults' = faults
  BY DEF Refines, Still, told, bounds
<1>2. Kept'
  BY <1>1, KeptOn, Looking, PrefixLaws
<1>3. (Made' <=> Made) /\ pc' # "idle" /\ pc' \notin Done /\ pc \notin Done
  BY <1>1 DEF Made, RecoverySteps, Done
<1>4. job.why = "write" => ~Made
  BY <1>1 DEF Answers, WriteFailed
<1>5. job'.why = "write" => WriteFailed'
  BY <1>3, <1>4 DEF WriteFailed
<1>6. job'.why = "replace" => ReplaceFailed'
  BY <1>3 DEF ReplaceFailed
<1>7. Answers'
  BY <1>1, <1>3, <1>5, <1>6 DEF Answers
<1>8. Faulty'
  BY <1>1 DEF Faulty
<1>9. UNCHANGED Promise!vars
  BY <1>1, Silent
<1>. QED  BY <1>2, <1>7, <1>8, <1>9 DEF Refined, Refines

\* Recovery is done.
LEMMA Resumes ==
  ASSUME Inv, Inv', Refines, Still, UNCHANGED bounds, pc \in {"recover", "syncCleaned"},
         NEW took \in BOOLEAN, Recovered(took),
         job.why \in {"write", "replace"} => (took <=> Made)
  PROVE  Refined
<1>1. Kept /\ Answers /\ Faulty /\ Visible' = Visible /\ Drawn /\ faults' = faults
  BY DEF Refines, Still, bounds
<1>2. Faulty'
  BY <1>1 DEF Faulty
<1>3. CASE job.why = "append"
  <2>1. pc' \in {"fillCandidate", "createJournal"} /\ UNCHANGED told /\ job' = job
    BY <1>3 DEF Recovered
  <2>2. pc' # "idle" /\ (pc' \in Done <=> pc \in Done)
    BY <2>1 DEF Done
  <2>. QED  BY <1>3, <2>1, <2>2, GoesOn
<1>4. CASE job.why = "read"
  <2>1. pc' = "idle" /\ job' = Idle /\ UNCHANGED told
    BY <1>4 DEF Recovered
  <2>. QED  BY <1>2, <1>4, <2>1, ReadEnds
<1>5. CASE job.why \in {"write", "replace"}
  <2>1. Tell(IF took THEN "committed" ELSE "failed")
    BY <1>5 DEF Recovered
  <2>2. PICK a \in {"ok", "committed", "failed"} : a = IF took THEN "committed" ELSE "failed"
    OBVIOUS
  <2>3. Tell(a) /\ (a # "failed" <=> Made) /\ a # "ok"
    BY <1>5, <2>1, <2>2
  <2>4. firm' = firm
    BY <2>3 DEF Tell
  <2>5. Kept'
    BY <1>1, <2>4, KeptOn, Looking, PrefixLaws
  <2>6. job.call \in Calls
    BY <1>5, Asked
  <2>. QED  BY <1>1, <1>2, <2>3, <2>5, <2>6, Answered
<1>6. job.why \in {"append", "read", "write", "replace"}
  BY Asked
<1>. QED  BY <1>3, <1>4, <1>5, <1>6

-----------------------------------------------------------------------------
(* The steps of an append *)

LEMMA AppendGoesOn ==
  ASSUME Inv, Inv', Refines, Still, UNCHANGED bounds, UNCHANGED told, pc \in AppendSteps,
         pc' \in AppendSteps, pc' \in Done <=> pc \in Done, job'.call = job.call
  PROVE  Refined
BY Asked, AskedNext, GoesOn DEF AppendSteps, Preparing

LEMMA CreateJournalRefines == ASSUME Inv, Inv', Refines, CreateJournal PROVE Refined
<1>1. /\ pc = "createJournal" /\ pc' = "writeJournal" /\ UNCHANGED <<job, told>> /\ UNCHANGED bounds
      /\ Create(SingleJournal(Frontier, job.call), <<>>)
  BY DEF CreateJournal, Goto
<1>2. SingleJournal(Frontier, job.call) # Target
  BY DEF SingleJournal, Target, Name
<1>3. Still
  BY <1>1, <1>2, StillCreated
<1>. QED  BY <1>1, <1>3, AppendGoesOn DEF AppendSteps, Done

LEMMA WriteJournalRefines == ASSUME Inv, Inv', Refines, WriteJournal PROVE Refined
<1>1. /\ pc = "writeJournal" /\ pc' = "syncJournal" /\ UNCHANGED <<job, told>> /\ UNCHANGED bounds
  BY DEF WriteJournal, Goto
<1>. QED  BY <1>1, StillVouched, AppendGoesOn DEF AppendSteps, Done

LEMMA SyncJournalRefines == ASSUME Inv, Inv', Refines, SyncJournal PROVE Refined
<1>1. /\ pc = "syncJournal" /\ pc' = "syncJournalName" /\ UNCHANGED <<job, told>> /\ UNCHANGED bounds
      /\ SyncFile(TheSingle)
  BY DEF SyncJournal, Goto
<1>2. TheSingle \in DOMAIN dir
  BY <1>1, Placing DEF SingleSteps
<1>3. Still
  BY <1>1, <1>2, StillSynced
<1>. QED  BY <1>1, <1>3, AppendGoesOn DEF AppendSteps, Done

LEMMA SyncJournalNameRefines == ASSUME Inv, Inv', Refines, SyncJournalName PROVE Refined
<1>1. /\ pc = "syncJournalName" /\ pc' = "writeTail" /\ UNCHANGED <<job, told>> /\ UNCHANGED bounds
      /\ SyncDirectory
  BY DEF SyncJournalName, Goto
<1>. QED  BY <1>1, StillSettled, AppendGoesOn DEF AppendSteps, Done

\* What the line is written to.
LEMMA Tailing ==
  ASSUME Inv, pc = "writeTail"
  PROVE  \E n \in SingleNames :
           /\ DOMAIN dir = {Target, n} /\ n.call = job.call /\ Target \in DOMAIN dir
           /\ medium = {dir} /\ Frontier = n.before /\ job.why = "append" /\ job.call \in Calls
<1>1. PICK n \in SingleNames :
         /\ InPlace(n) /\ DOMAIN dir = {Target, n} /\ n.call = job.call /\ Target \in DOMAIN dir
         /\ Frontier = files[dir[Target]].cache /\ job.why = "append" /\ job.call \in Calls
  BY Placing DEF SingleSteps
<1>2. medium = {dir} /\ files[dir[Target]].cache = n.before
  BY <1>1 DEF InPlace
<1>. QED  BY <1>1, <1>2

LEMMA WriteTailRefines == ASSUME Inv, Inv', Refines, WriteTail PROVE Refined
<1>1. /\ pc = "writeTail" /\ pc' = "syncTail" /\ UNCHANGED <<job, told>> /\ UNCHANGED bounds
      /\ Write(Target, Frontier \o Batch(job.call))
  BY DEF WriteTail, Goto
<1>2. PICK n \in SingleNames :
         /\ DOMAIN dir = {Target, n} /\ n.call = job.call /\ Target \in DOMAIN dir
         /\ medium = {dir} /\ Frontier = n.before
  BY <1>1, Tailing
<1>3. PICK torn : torn = Append(n.before, Torn(Line(n)))
  OBVIOUS
<1>4. PICK x : x = After(n)
  OBVIOUS
<1>5. x = Frontier \o Batch(job.call) /\ x \in Contents
  BY <1>2, <1>3, <1>4, Tails, ContentTypes
<1>6. Shown(x) = Append(Shown(Frontier), job.call)
  BY <1>2, <1>3, <1>4, ShownTails
<1>7. Visible' = Shown(x) /\ Drawn
  BY <1>1, <1>2, <1>5, Rewritten
<1>8. Visible' = Append(Visible, job.call)
  BY <1>6, <1>7, Looking
<1>. QED  BY <1>1, <1>7, <1>8, Commits DEF AppendSteps, Done

\* The journal names the call that failed, and its event is not in the log.
LEMMA ShortWriteRefines == ASSUME Inv, Inv', Refines, ShortWrite PROVE Refined
<1>1. /\ pc = "writeTail" /\ pc' = "recover" /\ job' = [job EXCEPT !.why = "write"]
      /\ UNCHANGED told /\ Fault
  BY DEF ShortWrite
<1>2. PICK n \in SingleNames :
         /\ DOMAIN dir = {Target, n} /\ n.call = job.call /\ Target \in DOMAIN dir
         /\ medium = {dir} /\ Frontier = n.before /\ job.why = "append" /\ job.call \in Calls
  BY <1>1, Tailing
<1>3. PICK torn : torn = Append(n.before, Torn(Line(n)))
  OBVIOUS
<1>4. PICK x \in {n.before, torn} : Write(Target, x)
  <2>1. PICK tail \in {<<>>, <<Torn(Line(n))>>} : Write(Target, n.before \o tail)
    BY <1>2 DEF ShortWrite, Line
  <2>2. n.before \in Seq(Frames) /\ Torn(Line(n)) \in Frames
    BY <1>3, Tails
  <2>3. PICK S : S = Frames
    OBVIOUS
  <2>4. PICK b \in Seq(S) : b = n.before
    BY <2>2, <2>3
  <2>5. PICK t \in S : t = Torn(Line(n))
    BY <2>2, <2>3
  <2>6. b \o <<>> = b /\ b \o <<t>> = Append(b, t)
    OBVIOUS
  <2>. QED  BY <1>3, <2>1, <2>4, <2>5, <2>6
<1>5. x \in Contents
  BY <1>3, Tails, ContentTypes
<1>6. Shown(x) = Shown(n.before)
  BY <1>3, ShownTails
<1>7. Visible' = Shown(x) /\ Drawn
  BY <1>2, <1>4, <1>5, Rewritten
<1>8. Visible' = Visible
  BY <1>2, <1>6, <1>7, Looking
<1>9. Kept /\ Answers /\ Faulty /\ answer' = answer /\ firm' = firm
  BY <1>1 DEF Refines, told
<1>10. Kept'
  BY <1>7, <1>8, <1>9, KeptOn, Looking, PrefixLaws
<1>11. job'.call = job.call /\ job'.why = "write"
  BY <1>1 DEF Inv, Typed, Jobs
<1>12. ~Made
  BY <1>1, <1>2, <1>9 DEF Answers, Done
<1>13. ~Made'
  BY <1>8, <1>11, <1>12 DEF Made
<1>14. DOMAIN dir' = {Target, n}
  BY <1>2, <1>4 DEF Write
<1>15. WriteFailed'
  BY <1>1, <1>2, <1>11, <1>13, <1>14 DEF WriteFailed
<1>16. Faulty' /\ faults' # 0
  BY <1>1, <1>9, BoundAssumption DEF Faulty, Fault
<1>17. Answers'
  BY <1>1, <1>2, <1>8, <1>9, <1>11, <1>15, <1>16, CallAssumption DEF Answers, RecoverySteps
<1>18. UNCHANGED Promise!vars
  BY <1>8, <1>9, <1>11, Silent
<1>. QED  BY <1>10, <1>16, <1>17, <1>18 DEF Refined, Refines

LEMMA SyncTailRefines == ASSUME Inv, Inv', Refines, SyncTail PROVE Refined
<1>1. /\ pc = "syncTail" /\ pc' = "dropSingle" /\ UNCHANGED <<job, told>> /\ UNCHANGED bounds
      /\ SyncFile(Target)
  BY DEF SyncTail, Goto
<1>2. Target \in DOMAIN dir
  BY <1>1, Placing DEF SingleSteps
<1>3. Still
  BY <1>1, <1>2, StillSynced
<1>. QED  BY <1>1, <1>3, AppendGoesOn DEF AppendSteps, Done

\* The call succeeds: its batch is in the log, on every directory of the medium.
LEMMA Succeeds ==
  ASSUME Inv, Inv', Refines, pc \in Done, Visible' = Visible, Return("ok"),
         \A d \in medium' : Views(files', d) = {Visible'}
  PROVE  Refined
<1>1. Answers /\ Faulty /\ Tell("ok") /\ faults' = faults
  BY DEF Refines, Return, bounds
<1>2. pc \in AppendSteps
  BY DEF Done, AppendSteps
<1>3. Made /\ job.call \in Calls
  BY <1>1, <1>2, Asked DEF Answers
<1>4. firm' = Len(Visible)
  BY <1>1 DEF Tell
<1>5. Len(Visible) \in Nat
  BY Looking, LenProperties
<1>6. Kept'
  BY <1>4, <1>5, KeptFirm
<1>7. Faulty'
  BY <1>1 DEF Faulty
<1>. QED  BY <1>1, <1>3, <1>6, <1>7, Answered

LEMMA DropSingleRefines == ASSUME Inv, Inv', Refines, DropSingle PROVE Refined
<1>1. pc = "dropSingle" /\ Return("ok") /\ Unlink(TheSingle)
  BY DEF DropSingle
<1>2. PICK n \in SingleNames :
         /\ InPlace(n) /\ DOMAIN dir = {Target, n} /\ TheSingle = n /\ n # Target
         /\ Target \in DOMAIN dir
  BY <1>1, Placing DEF SingleSteps
<1>3. files[dir[Target]].cache = After(n) /\ files[dir[Target]].disk = After(n) /\ medium = {dir}
  BY <1>1, <1>2 DEF InPlace
<1>4. Still
  BY <1>1, <1>2, StillUnlinked
<1>5. PICK e : e = Without(dir, n)
  OBVIOUS
<1>6. dir' = e /\ medium' = {dir, e} /\ files' = files
  BY <1>1, <1>2, <1>3, <1>5 DEF Unlink, Update
<1>7. Target \in DOMAIN e /\ e[Target] = dir[Target]
  BY <1>2, <1>5 DEF Without
<1>8. Visible' = Visible /\ Visible = Shown(After(n))
  BY <1>2, <1>3, <1>4, Looking DEF Still, LogOf
<1>9. \A d \in medium' : Views(files', d) = {Visible'}
  BY <1>2, <1>3, <1>6, <1>7, <1>8 DEF Views
<1>. QED  BY <1>1, <1>8, <1>9, Succeeds DEF Done

LEMMA FillCandidateRefines == ASSUME Inv, Inv', Refines, FillCandidate PROVE Refined
<1>1. /\ pc = "fillCandidate" /\ pc' = "writeJournalTemp" /\ UNCHANGED <<job, told>>
      /\ UNCHANGED bounds /\ Create(Candidate, Frontier \o Batch(job.call))
  BY DEF FillCandidate, Goto
<1>2. Still
  BY <1>1, Names, StillCreated
<1>. QED  BY <1>1, <1>2, AppendGoesOn DEF AppendSteps, Preparing, Done

LEMMA SyncCandidateRefines == ASSUME Inv, Inv', Refines, SyncCandidate PROVE Refined
<1>1. /\ pc \in Preparing /\ pc' = pc /\ job' = [job EXCEPT !.synced = TRUE] /\ UNCHANGED told
      /\ UNCHANGED bounds /\ SyncFile(Candidate)
  BY DEF SyncCandidate
<1>2. Candidate \in DOMAIN dir
  BY <1>1, Staging DEF StagedSteps
<1>3. Still
  BY <1>1, <1>2, StillSynced
<1>4. job'.call = job.call
  BY <1>1 DEF Inv, Typed, Jobs
<1>. QED  BY <1>1, <1>3, <1>4, AppendGoesOn DEF AppendSteps

LEMMA WriteJournalTempRefines == ASSUME Inv, Inv', Refines, WriteJournalTemp PROVE Refined
<1>1. /\ pc = "writeJournalTemp" /\ pc' = "syncJournalTemp" /\ UNCHANGED <<job, told>>
      /\ UNCHANGED bounds /\ Create(JournalTemp, Body(Exists(Target), Frontier, Content(Candidate)))
  BY DEF WriteJournalTemp, Goto
<1>2. Still
  BY <1>1, Names, StillCreated
<1>. QED  BY <1>1, <1>2, AppendGoesOn DEF AppendSteps, Preparing, Done

LEMMA SyncJournalTempRefines == ASSUME Inv, Inv', Refines, SyncJournalTemp PROVE Refined
<1>1. /\ pc = "syncJournalTemp" /\ pc' = "renameJournal" /\ UNCHANGED <<job, told>>
      /\ UNCHANGED bounds /\ SyncFile(JournalTemp)
  BY DEF SyncJournalTemp, Goto
<1>2. JournalTemp \in DOMAIN dir
  BY <1>1, Staging DEF StagedSteps, Preparing, Prepared
<1>3. Still
  BY <1>1, <1>2, StillSynced
<1>. QED  BY <1>1, <1>3, AppendGoesOn DEF AppendSteps, Preparing, Done

LEMMA RenameJournalRefines == ASSUME Inv, Inv', Refines, RenameJournal PROVE Refined
<1>1. /\ pc = "renameJournal" /\ pc' = "syncRenamed" /\ UNCHANGED <<job, told>>
      /\ UNCHANGED bounds /\ Rename(JournalTemp, Journal)
  BY DEF RenameJournal, Goto
<1>2. Still
  BY <1>1, StillRenamed
<1>. QED  BY <1>1, <1>2, AppendGoesOn DEF AppendSteps, Preparing, Done

LEMMA SyncRenamedRefines == ASSUME Inv, Inv', Refines, SyncRenamed PROVE Refined
<1>1. /\ pc = "syncRenamed" /\ pc' = "replaceTarget" /\ UNCHANGED <<job, told>>
      /\ UNCHANGED bounds /\ SyncDirectory
  BY DEF SyncRenamed, Goto
<1>. QED  BY <1>1, StillSettled, AppendGoesOn DEF AppendSteps, Preparing, Done

LEMMA ReplaceTargetRefines == ASSUME Inv, Inv', Refines, ReplaceTarget PROVE Refined
<1>1. /\ pc = "replaceTarget" /\ pc' = "syncReplaced" /\ UNCHANGED <<job, told>>
      /\ UNCHANGED bounds /\ Rename(Candidate, Target)
  BY DEF ReplaceTarget, Goto
<1>. QED  BY <1>1, Exchange, Commits DEF AppendSteps, Preparing, Done

\* The journal knows the log with the bundle: recovery finds out whether it is
\* the log by now.
LEMMA ReplaceFailsRefines == ASSUME Inv, Inv', Refines, ReplaceFails PROVE Refined
<1>1. /\ pc = "replaceTarget" /\ pc' = "recover" /\ job' = [job EXCEPT !.why = "replace"]
      /\ UNCHANGED told /\ Fault /\ (UNCHANGED disk \/ Rename(Candidate, Target))
  BY DEF ReplaceFails
<1>2. /\ Prepared /\ Frontier \in Logs /\ job.call \in Calls /\ job.why = "append"
  BY <1>1, Staging DEF StagedSteps
<1>3. Journal \in DOMAIN dir /\ Content(Journal)[1].after = Frontier \o Batch(job.call)
  <2>1. /\ Journal \in DOMAIN dir /\ Content(Journal) = <<NewBody>>
        /\ Content(Candidate) = Frontier \o Batch(job.call)
    BY <1>1, <1>2 DEF Prepared
  <2>2. <<NewBody>>[1] = NewBody /\ NewBody.after = Content(Candidate)
    BY DEF NewBody
  <2>. QED  BY <2>1, <2>2
<1>4. Kept /\ Answers /\ Faulty /\ answer' = answer /\ firm' = firm
  BY <1>1 DEF Refines, told
<1>5. ~Made
  BY <1>1, <1>2, <1>4 DEF Answers, Done
<1>6. job'.call = job.call /\ job'.why = "replace"
  BY <1>1 DEF Inv, Typed, Jobs
<1>7. Faulty' /\ faults' # 0
  BY <1>1, <1>4, BoundAssumption DEF Faulty, Fault
<1>8. PICK before : before = Frontier
  OBVIOUS
<1>9. /\ Frontier' \in {before, before \o Batch(job.call)}
      /\ Journal \in DOMAIN dir' /\ Content(Journal)'[1].after = before \o Batch(job.call)
  <2>1. CASE UNCHANGED disk
    BY <1>3, <1>8, <2>1 DEF disk, Frontier, Exists, Content
  <2>2. CASE Rename(Candidate, Target)
    BY <1>1, <1>8, <2>2, Exchange
  <2>. QED  BY <1>1, <2>1, <2>2
<1>10. ReplaceFailed'
  <2>1. job.call \notin ToSet(Shown(before))
    BY <1>5, <1>8, Looking DEF Made
  <2>2. Undecided(before)'
    BY <1>6, <1>9, <2>1 DEF Undecided
  <2>. QED  BY <1>1, <1>2, <1>8, <2>2 DEF ReplaceFailed
<1>11. ASSUME answer'[job'.call] = "none",
              \A c \in ToSet(Visible') : c = job'.call \/ answer'[c] # "none"
       PROVE  Answers'
  BY <1>1, <1>6, <1>7, <1>10, <1>11 DEF Answers, RecoverySteps
<1>12. CASE UNCHANGED disk
  <2>1. Visible' = Visible /\ Drawn
    BY <1>12, StillUnchanged DEF Still
  <2>2. Kept'
    BY <1>4, <2>1, KeptOn, Looking, PrefixLaws
  <2>3. Answers'
    BY <1>2, <1>4, <1>6, <1>11, <2>1 DEF Answers
  <2>4. UNCHANGED Promise!vars
    BY <1>4, <1>6, <2>1, Silent
  <2>. QED  BY <1>7, <2>2, <2>3, <2>4 DEF Refined, Refines
<1>13. CASE Rename(Candidate, Target)
  <2>1. Drawn /\ Visible' = Append(Visible, job.call)
    BY <1>1, <1>13, Exchange
  <2>2. /\ Kept' /\ Promise!Commit /\ answer'[job'.call] = "none"
        /\ \A c \in ToSet(Visible') : c = job'.call \/ answer'[c] # "none"
    BY <1>1, <1>2, <1>5, <1>6, <2>1, Enters
  <2>. QED  BY <1>7, <1>11, <2>2 DEF Refined, Refines, Promise!Next
<1>. QED  BY <1>1, <1>12, <1>13

LEMMA SyncReplacedRefines == ASSUME Inv, Inv', Refines, SyncReplaced PROVE Refined
<1>1. /\ pc = "syncReplaced" /\ pc' = "dropJournal" /\ UNCHANGED <<job, told>>
      /\ UNCHANGED bounds /\ SyncDirectory
  BY DEF SyncReplaced, Goto
<1>. QED  BY <1>1, StillSettled, AppendGoesOn DEF AppendSteps, Preparing, Done

LEMMA DropJournalRefines == ASSUME Inv, Inv', Refines, DropJournal PROVE Refined
<1>1. pc = "dropJournal" /\ Return("ok") /\ Unlink(Journal)
  BY DEF DropJournal
<1>2. DOMAIN dir = {Target, Journal} /\ medium = {dir}
  BY <1>1 DEF Inv, Replaces, Exchanged
<1>3. Journal # Target /\ DOMAIN dir \subseteq BundleNames
  BY <1>2, Names DEF BundleNames
<1>4. Still
  BY <1>1, <1>3, StillUnlinked
<1>5. PICK e : e = Without(dir, Journal)
  OBVIOUS
<1>6. dir' = e /\ medium' = {dir, e} /\ files' = files
  BY <1>1, <1>2, <1>5 DEF Unlink, Update
<1>7. DOMAIN e \subseteq BundleNames
  BY <1>3, <1>5 DEF Without
<1>8. Good(files, dir) /\ Good(files, e)
  <2>1. Good(files, dir)
    BY Led
  <2>. QED  BY <1>3, <1>5, <2>1, ResidueRemoved
<1>9. Visible' = Visible /\ Visible = Shown(LogOf(files, dir)) /\ Visible' = Shown(LogOf(files, e))
  BY <1>4, <1>6, Looking, LookingNext DEF Still
<1>10. \A d \in medium' : Views(files', d) = {Visible'}
  BY <1>3, <1>6, <1>7, <1>8, <1>9, ViewsKnown
<1>. QED  BY <1>1, <1>9, <1>10, Succeeds DEF Done

-----------------------------------------------------------------------------
(* The steps of recovery, failures, stops *)

LEMMA RecoverAtOnceRefines == ASSUME Inv, Inv', Refines, RecoverAtOnce PROVE Refined
<1>1. ~Corrupt /\ Good(files, dir)
  BY Led, Accepted
<1>2. /\ pc = "recover" /\ Residue = {} /\ Recovered(FALSE) /\ UNCHANGED disk /\ UNCHANGED bounds
  BY <1>1 DEF RecoverAtOnce
<1>3. job.why \notin {"write", "replace"}
  <2>1. Residue = DOMAIN dir \ {Target}
    BY <1>1, Seen
  <2>2. DOMAIN dir \subseteq {Target}
    BY <1>2, <2>1
  <2>3. job.why # "write"
    <3>1. \A n \in SingleNames : n # Target
      BY Names DEF BundleNames
    <3>. QED  BY <1>2, <2>2, <3>1 DEF Refines, Answers, WriteFailed
  <2>4. job.why # "replace"
    <3>1. Journal # Target
      BY Names
    <3>. QED  BY <1>2, <2>2, <3>1 DEF Refines, Answers, ReplaceFailed, Undecided
  <2>. QED  BY <2>3, <2>4
<1>4. Still
  BY <1>2, StillUnchanged
<1>. QED  BY <1>2, <1>3, <1>4, Resumes

\* The journal of one event tells whether the event is in the log.
LEMMA RecoverSingleRefines == ASSUME Inv, Inv', Refines, RecoverSingle PROVE Refined
<1>1. /\ pc = "recover" /\ pc' \in {"clean", "truncateTail", "syncTarget"} /\ UNCHANGED disk
      /\ UNCHANGED told /\ UNCHANGED bounds /\ Singles # {}
  BY DEF RecoverSingle
<1>2. PICK took \in BOOLEAN :
         /\ job' = [job EXCEPT !.took = took]
         /\ took => Frontier = Append(TheSingle.before, Line(TheSingle))
  <2>1. PICK took : took = (Content(TheSingle) # <<>>
                              /\ Frontier = Append(TheSingle.before, Line(TheSingle)))
    OBVIOUS
  <2>2. took \in BOOLEAN
    BY <2>1
  <2>3. took => Frontier = Append(TheSingle.before, Line(TheSingle))
    BY <2>1
  <2>4. job' = [job EXCEPT !.took = took]
    BY <2>1 DEF RecoverSingle
  <2>. QED  BY <2>2, <2>3, <2>4
<1>3. job'.why = job.why /\ job'.call = job.call /\ job'.took = took
  BY <1>2 DEF Inv, Typed, Jobs
<1>4. Good(files, dir)
  BY Led
<1>5. PICK n \in SingleNames : n \in DOMAIN dir /\ DOMAIN dir = {Target, n} /\ TheSingle = n
  BY <1>1, <1>4, Seen
<1>6. job.why = "write" => ~took
  <2>. SUFFICES ASSUME job.why = "write", took
                PROVE  FALSE
    BY <1>2
  <2>1. WriteFailed
    BY DEF Refines, Answers
  <2>2. n.call = job.call
    <3>1. PICK m \in SingleNames : DOMAIN dir = {Target, m} /\ m.call = job.call
      BY <1>1, <2>1 DEF WriteFailed
    <3>. QED  BY <1>4, <1>5, <3>1, Seen
  <2>3. Frontier = After(n)
    BY <1>2, <1>5 DEF After
  <2>4. PICK torn : torn = Append(n.before, Torn(Line(n)))
    OBVIOUS
  <2>5. Visible = Append(Shown(n.before), n.call) /\ Shown(n.before) \in Seq(Calls) /\ n.call \in Calls
    BY <2>3, <2>4, ShownTails, Looking
  <2>6. n.call \in ToSet(Visible)
    BY <2>5, Members
  <2>. QED  BY <2>1, <2>2, <2>6 DEF WriteFailed, Made
<1>7. job.why # "replace"
  <2>1. Journal \notin DOMAIN dir
    BY <1>5, Names DEF BundleNames
  <2>. QED  BY <1>1, <2>1 DEF Refines, Answers, ReplaceFailed, Undecided
<1>8. Still
  BY <1>1, StillUnchanged
<1>. QED  BY <1>1, <1>3, <1>6, <1>7, <1>8, Mends DEF RecoverySteps

\* Recovery works on what it has decided.
LEMMA MendsOn ==
  ASSUME Inv, Inv', Refines, Still, UNCHANGED <<job, told>>, UNCHANGED bounds,
         pc \in RecoverySteps \ {"recover"}, pc' \in RecoverySteps \ {"recover"}
  PROVE  Refined
<1>1. job.why = "write" => ~job.took
  BY DEF Refines, Answers, WriteFailed
<1>2. job.why = "replace" => (job.took <=> Made)
  BY DEF Refines, Answers, ReplaceFailed
<1>. QED  BY <1>1, <1>2, Mends

LEMMA TruncateTailRefines == ASSUME Inv, Inv', Refines, TruncateTail PROVE Refined
<1>1. /\ pc = "truncateTail" /\ pc' = "syncTarget" /\ UNCHANGED <<job, told>> /\ UNCHANGED bounds
      /\ Write(Target, TheSingle.before)
  BY DEF TruncateTail, Goto
<1>2. PICK n \in SingleNames : DOMAIN dir = {Target, n} /\ Frontier = Append(n.before, Torn(Line(n)))
  BY <1>1 DEF Inv, Recovers
<1>3. Good(files, dir) /\ dir \in medium /\ Alone /\ TheSingle = n
  BY <1>2, Led, Seen DEF Medium
<1>4. files[dir[Target]].cache = Append(n.before, Torn(Line(n)))
  BY <1>2, <1>3, Seen DEF LogOf
<1>5. medium = {dir}
  BY <1>2, <1>3, <1>4 DEF Alone, Loose
<1>6. PICK torn : torn = Append(n.before, Torn(Line(n)))
  OBVIOUS
<1>7. n.before \in Contents /\ Shown(torn) = Shown(n.before)
  BY <1>6, Tails, ShownTails, ContentTypes
<1>8. Visible' = Shown(n.before) /\ Drawn
  BY <1>1, <1>2, <1>3, <1>5, <1>7, Rewritten
<1>9. Still
  BY <1>2, <1>6, <1>7, <1>8, Looking DEF Still
<1>. QED  BY <1>1, <1>9, MendsOn DEF RecoverySteps

LEMMA SyncTargetRefines == ASSUME Inv, Inv', Refines, SyncTarget PROVE Refined
<1>1. /\ pc = "syncTarget" /\ pc' = "clean" /\ UNCHANGED <<job, told>> /\ UNCHANGED bounds
      /\ SyncFile(Target)
  BY DEF SyncTarget, Goto
<1>2. Target \in DOMAIN dir
  BY <1>1 DEF Inv, Recovers
<1>3. Still
  BY <1>1, <1>2, StillSynced
<1>. QED  BY <1>1, <1>3, MendsOn DEF RecoverySteps

\* The journal of the bundle tells whether the replacement took place.
LEMMA RecoverBundleRefines == ASSUME Inv, Inv', Refines, RecoverBundle PROVE Refined
<1>1. /\ pc = "recover" /\ pc' = "clean" /\ UNCHANGED disk /\ UNCHANGED told /\ UNCHANGED bounds
      /\ Residue # {} /\ Singles = {}
  BY DEF RecoverBundle
<1>2. PICK took \in BOOLEAN :
         /\ job' = [job EXCEPT !.took = took]
         /\ took <=> Exists(Journal) /\ Exists(Target) /\ Frontier = Content(Journal)[1].after
  <2>1. (Exists(Journal) /\ Exists(Target) /\ Frontier = Content(Journal)[1].after) \in BOOLEAN
    OBVIOUS
  <2>. QED  BY <2>1 DEF RecoverBundle
<1>3. job'.why = job.why /\ job'.call = job.call /\ job'.took = took
  BY <1>2 DEF Inv, Typed, Jobs
<1>4. Good(files, dir)
  BY Led
<1>5. \A n \in SingleNames : n \notin DOMAIN dir
  BY <1>1, <1>4, Seen
<1>6. job.why # "write"
  BY <1>1, <1>5 DEF Refines, Answers, WriteFailed
<1>7. job.why = "replace" => (took <=> Made)
  <2>. SUFFICES ASSUME job.why = "replace"
                PROVE  took <=> Made
    OBVIOUS
  <2>1. job.call \in Calls
    BY Asked
  <2>2. PICK before \in Logs : Undecided(before)
    BY <1>1 DEF Refines, Answers, ReplaceFailed
  <2>3. PICK after : after = before \o Batch(job.call)
    OBVIOUS
  <2>4. Shown(after) = Append(Shown(before), job.call) /\ Shown(before) \in Seq(Calls)
    BY <2>1, <2>3, ShownBatch, ShownLog
  <2>5. ToSet(Shown(after)) = ToSet(Shown(before)) \cup {job.call}
    BY <2>1, <2>4, Members
  <2>6. job.call \in ToSet(Shown(after)) /\ job.call \notin ToSet(Shown(before))
    BY <2>2, <2>5 DEF Undecided
  <2>7. Frontier \in {before, after} /\ Exists(Journal) /\ Content(Journal)[1].after = after
    BY <2>2, <2>3 DEF Undecided, Exists
  <2>8. Made <=> Frontier = after
    BY <2>6, <2>7, Looking DEF Made
  <2>9. Frontier = after => Exists(Target)
    <3>1. after # <<>>
      BY <2>6, ShownEmpty, Members
    <3>. QED  BY <3>1 DEF Frontier
  <2>. QED  BY <1>2, <2>7, <2>8, <2>9
<1>8. Still
  BY <1>1, StillUnchanged
<1>. QED  BY <1>1, <1>3, <1>6, <1>7, <1>8, Mends DEF RecoverySteps

LEMMA CleanRefines == ASSUME Inv, Inv', Refines, Clean PROVE Refined
<1>1. pc = "clean" /\ UNCHANGED <<job, told>> /\ UNCHANGED bounds
      /\ pc' \in {"clean", "syncCleaned"}
  BY DEF Clean
<1>2. PICK next : /\ next = CASE Exists(Candidate) -> Candidate
                             [] ~Exists(Candidate) /\ Exists(JournalTemp) -> JournalTemp
                             [] ~Exists(Candidate) /\ ~Exists(JournalTemp) /\ Exists(Journal) -> Journal
                             [] OTHER -> TheSingle
                  /\ Unlink(next)
  BY DEF Clean
<1>3. next # Target
  <2>1. Good(files, dir) /\ Named(dir) /\ Residue # {} /\ Residue = DOMAIN dir \ {Target}
    BY <1>1, Led, Seen DEF Good, Inv, Recovers
  <2>2. CASE DOMAIN dir \subseteq BundleNames
    <3>1. Candidate \in DOMAIN dir \/ JournalTemp \in DOMAIN dir \/ Journal \in DOMAIN dir
      BY <2>1, <2>2 DEF BundleNames
    <3>. QED  BY <1>2, <3>1, Names DEF Exists
  <2>3. ASSUME NEW n \in SingleNames, DOMAIN dir = {Target, n}, Candidate \notin DOMAIN dir,
               JournalTemp \notin DOMAIN dir, Journal \notin DOMAIN dir, n # Target
        PROVE  next # Target
    <3>1. next = TheSingle
      BY <1>2, <2>3 DEF Exists
    <3>. QED  BY <2>1, <2>3, <3>1, Seen
  <2>. QED  BY <2>1, <2>2, <2>3, Either
<1>4. Still
  BY <1>2, <1>3, StillUnlinked
<1>. QED  BY <1>1, <1>4, MendsOn DEF RecoverySteps

LEMMA SyncCleanedRefines == ASSUME Inv, Inv', Refines, SyncCleaned PROVE Refined
<1>1. pc = "syncCleaned" /\ SyncDirectory /\ Recovered(job.took) /\ UNCHANGED bounds
  BY DEF SyncCleaned
<1>2. job.why \in {"write", "replace"} => (job.took <=> Made)
  BY <1>1 DEF Refines, Answers, WriteFailed, ReplaceFailed
<1>3. job.took \in BOOLEAN
  BY Asked
<1>. QED  BY <1>1, <1>2, <1>3, StillSettled, Resumes

-----------------------------------------------------------------------------

LEMMA BeginRefines == ASSUME Inv, Inv', Refines, NEW c \in Calls, Begin(c) PROVE Refined
<1>1. /\ pc = "idle" /\ answer[c] = "none" /\ pc' = "recover"
      /\ job' = [Idle EXCEPT !.call = c, !.why = "append"]
      /\ UNCHANGED disk /\ UNCHANGED told /\ UNCHANGED bounds
  BY DEF Begin
<1>2. Kept /\ Answers /\ Faulty /\ answer' = answer /\ firm' = firm /\ faults' = faults
  BY <1>1 DEF Refines, told, bounds
<1>3. job.call = NoCall /\ job'.call = c /\ job'.why = "append" /\ NoCall \notin Calls
  BY <1>1, <1>2, IdleIs, JobTypes, CallAssumption DEF Answers
<1>4. Visible' = Visible /\ Drawn
  BY <1>1, StillUnchanged DEF Still
<1>5. Kept'
  BY <1>2, <1>4, KeptOn, Looking, PrefixLaws
<1>6. \A b \in ToSet(Visible) : b \in Calls /\ answer[b] # "none"
  BY <1>2, <1>3, InLog DEF Answers
<1>7. ~Made'
  BY <1>1, <1>3, <1>4, <1>6 DEF Made
<1>8. Answers'
  BY <1>1, <1>2, <1>3, <1>4, <1>6, <1>7 DEF Answers, Done
<1>9. Faulty'
  BY <1>2 DEF Faulty
<1>10. Promise!Begin(c)
  BY <1>1, <1>2, <1>3, <1>4 DEF Promise!Begin
<1>. QED  BY <1>5, <1>8, <1>9, <1>10 DEF Refined, Refines, Promise!Next

LEMMA BeginReadRefines == ASSUME Inv, Inv', Refines, BeginRead PROVE Refined
<1>1. /\ pc = "idle" /\ pc' = "recover" /\ job' = [Idle EXCEPT !.why = "read"]
      /\ UNCHANGED disk /\ UNCHANGED told /\ faults' = faults
  BY DEF BeginRead
<1>2. Kept /\ Answers /\ Faulty /\ answer' = answer /\ firm' = firm
  BY <1>1 DEF Refines, told
<1>3. job.call = NoCall /\ job'.call = NoCall /\ job'.why = "read"
  BY <1>1, <1>2, IdleIs DEF Answers, Idle
<1>4. Visible' = Visible /\ Drawn
  BY <1>1, StillUnchanged DEF Still
<1>5. Kept'
  BY <1>2, <1>4, KeptOn, Looking, PrefixLaws
<1>6. Answers'
  BY <1>1, <1>2, <1>3, <1>4, CallAssumption DEF Answers
<1>7. Faulty'
  BY <1>1, <1>2 DEF Faulty
<1>8. UNCHANGED Promise!vars
  BY <1>2, <1>3, <1>4, Silent
<1>. QED  BY <1>5, <1>6, <1>7, <1>8 DEF Refined, Refines

\* A failing call is answered with what is known. Only a replacement that took
\* place is misreported, when the recovery after it fails as well.
LEMMA CallFailsRefines == ASSUME Inv, Inv', Refines, CallFails PROVE Refined
<1>1. Kept /\ Answers /\ Faulty /\ Fault /\ UNCHANGED disk
  BY DEF Refines, CallFails
<1>2. Faulty'
  BY <1>1, BoundAssumption DEF Faulty, Fault
<1>3. Visible' = Visible /\ Drawn /\ Still
  BY <1>1, StillUnchanged DEF Still
<1>4. ASSUME NEW a \in {"failed", "committed"}, Tell(a)
      PROVE  Kept'
  <2>1. firm' = firm
    BY <1>4 DEF Tell
  <2>. QED  BY <1>1, <1>3, <2>1, KeptOn, Looking, PrefixLaws
<1>5. ASSUME NEW a \in {"failed", "committed"}, Tell(a), job.call \in Calls, a = "committed" <=> Made
      PROVE  Refined
  <2>1. a # "failed" <=> Made
    BY <1>5
  <2>2. Kept'
    BY <1>4, <1>5
  <2>. QED  BY <1>2, <1>3, <1>5, <2>1, <2>2, Answered
<1>6. CASE pc \in {"createJournal", "writeJournal", "syncJournal", "syncJournalName",
                   "fillCandidate", "syncRenamed"} \cup Preparing /\ Tell("failed")
  <2>1. pc \in AppendSteps /\ pc \notin Done
    BY <1>6 DEF AppendSteps, Preparing, Done
  <2>2. ~Made /\ job.call \in Calls
    BY <1>1, <2>1, Asked DEF Answers
  <2>. QED  BY <1>5, <1>6, <2>2
<1>7. CASE pc \in {"syncTail", "dropSingle", "syncReplaced", "dropJournal"} /\ Tell("committed")
  <2>1. pc \in AppendSteps /\ pc \in Done
    BY <1>7 DEF AppendSteps, Done
  <2>2. Made /\ job.call \in Calls
    BY <1>1, <2>1, Asked DEF Answers
  <2>. QED  BY <1>5, <1>7, <2>2
<1>8. CASE pc \in {"truncateTail", "syncTarget", "clean", "syncCleaned"} /\ Unrecovered(job.took)
  <2>1. pc \notin Done /\ pc # "idle" /\ pc # "recover"
    BY <1>8 DEF Done
  <2>2. CASE job.why = "read"
    <3>1. pc' = "idle" /\ job' = Idle /\ UNCHANGED told
      BY <1>8, <2>2 DEF Unrecovered
    <3>. QED  BY <1>2, <1>3, <2>2, <3>1, ReadEnds
  <2>3. CASE job.why \in {"append", "write", "replace"}
    <3>1. Tell(IF job.took /\ job.why = "write" THEN "committed" ELSE "failed")
      BY <1>8, <2>3 DEF Unrecovered
    <3>2. job.why = "write" => ~job.took
      BY <1>1, <2>1 DEF Answers, WriteFailed
    <3>3. Tell("failed") /\ job.call \in Calls
      BY <2>3, <3>1, <3>2, Asked
    <3>4. CASE ~Made
      BY <1>5, <3>3, <3>4
    <3>5. CASE Made
      <4>1. job.why = "replace" /\ faults # 0
        BY <1>1, <2>1, <2>3, <3>5 DEF Answers, WriteFailed
      <4>2. Misreports
        BY <1>1, <1>3, <3>3, <3>5, <4>1 DEF Misreports
      <4>3. Kept'
        BY <1>4, <3>3
      <4>4. Refines'
        BY <1>2, <1>3, <3>3, <4>3, Told
      <4>. QED  BY <4>2, <4>4 DEF Refined
    <3>. QED  BY <3>4, <3>5
  <2>. QED  BY <2>1, <2>2, <2>3, Asked
<1>. QED  BY <1>6, <1>7, <1>8 DEF CallFails

LEMMA CrashRefines == ASSUME Inv, Inv', Refines, Crash PROVE Refined
<1>1. Interrupted /\ UNCHANGED disk /\ faults' = faults
  BY DEF Crash
<1>2. Visible' = Visible /\ Drawn
  BY <1>1, StillUnchanged DEF Still
<1>3. /\ Answers' /\ job'.call = NoCall /\ firm' = firm
      /\ answer' = IF job.call = NoCall THEN answer ELSE [answer EXCEPT ![job.call] = "lost"]
  BY <1>1, <1>2, Halts
<1>4. Kept'
  BY <1>2, <1>3, KeptOn, Looking, PrefixLaws DEF Refines
<1>5. Faulty'
  BY <1>1 DEF Refines, Faulty
<1>6. Promise!Crash
  BY <1>2, <1>3 DEF Promise!Crash
<1>. QED  BY <1>3, <1>4, <1>5, <1>6 DEF Refined, Refines, Promise!Next

LEMMA PowerLossRefines == ASSUME Inv, Inv', Refines, PowerLoss PROVE Refined
<1>1. Interrupted /\ faults' = faults
  BY DEF PowerLoss
<1>2. PICK d \in medium : Visible' \in Views(files, d)
  BY Left
<1>3. IsPrefix(Visible', Visible) /\ firm <= Len(Visible')
  BY <1>2 DEF Refines, Kept
<1>4. PICK s \in Seq(Calls) : s = Visible'
  BY LookingNext
<1>5. PICK t \in Seq(Calls) : t = Visible
  BY Looking
<1>6. s = SubSeq(t, 1, Len(s)) /\ Len(s) <= Len(t) /\ \A i \in 1 .. Len(s) : s[i] = t[i]
  BY <1>3, <1>4, <1>5, PrefixIs
<1>7. ToSet(s) \subseteq ToSet(t)
  BY <1>6 DEF ToSet
<1>8. /\ Answers' /\ job'.call = NoCall /\ firm' = firm
      /\ answer' = IF job.call = NoCall THEN answer ELSE [answer EXCEPT ![job.call] = "lost"]
  BY <1>1, <1>4, <1>5, <1>7, Halts
<1>9. Kept'
  BY <1>3, <1>8, Left, KeptFirm
<1>10. Faulty'
  BY <1>1 DEF Refines, Faulty
<1>11. Len(s) \in firm .. Len(t)
  BY <1>3, <1>4, <1>6 DEF Inv, Typed
<1>12. Promise!PowerLoss
  BY <1>4, <1>5, <1>6, <1>8, <1>11 DEF Promise!PowerLoss
<1>. QED  BY <1>8, <1>9, <1>10, <1>12 DEF Refined, Refines, Promise!Next

LEMMA StutterRefines == ASSUME Inv, Inv', Refines, UNCHANGED vars PROVE Refined
<1>1. UNCHANGED disk /\ pc' = pc /\ job' = job /\ answer' = answer /\ firm' = firm /\ faults' = faults
  BY DEF vars, told, bounds
<1>2. files' = files /\ dir' = dir /\ medium' = medium
  BY <1>1 DEF disk
<1>3. Kept /\ Answers /\ Faulty
  BY DEF Refines
<1>4. Visible' = Visible /\ Drawn
  BY <1>1, StillUnchanged DEF Still
<1>5. Kept'
  BY <1>1, <1>3, <1>4, KeptOn, Looking, PrefixLaws
<1>6. (Made' <=> Made) /\ Frontier' = Frontier /\ Content(Journal)' = Content(Journal)
  BY <1>1, <1>2, <1>4 DEF Made, Frontier, Exists, Content
<1>7. WriteFailed => WriteFailed'
  BY <1>1, <1>2, <1>6 DEF WriteFailed
<1>8. ReplaceFailed => ReplaceFailed'
  BY <1>1, <1>2, <1>6 DEF ReplaceFailed, Undecided
<1>9. Answers'
  BY <1>1, <1>3, <1>4, <1>6, <1>7, <1>8 DEF Answers
<1>10. Faulty'
  BY <1>1, <1>3 DEF Faulty
<1>11. UNCHANGED Promise!vars
  BY <1>1, <1>4, Silent
<1>. QED  BY <1>5, <1>9, <1>10, <1>11 DEF Refined, Refines

LEMMA NextRefines == ASSUME Inv, Inv', Refines, [Next]_vars PROVE Refined
<1>1. ASSUME Append1 PROVE Refined
  BY <1>1, CreateJournalRefines, WriteJournalRefines, SyncJournalRefines, SyncJournalNameRefines,
     WriteTailRefines, ShortWriteRefines, SyncTailRefines, DropSingleRefines DEF Append1
<1>2. ASSUME AppendBundle PROVE Refined
  BY <1>2, FillCandidateRefines, SyncCandidateRefines, WriteJournalTempRefines,
     SyncJournalTempRefines, RenameJournalRefines, SyncRenamedRefines, ReplaceTargetRefines,
     ReplaceFailsRefines, SyncReplacedRefines, DropJournalRefines DEF AppendBundle
<1>3. ASSUME Recovery PROVE Refined
  BY <1>3, RecoverAtOnceRefines, RecoverSingleRefines, TruncateTailRefines, SyncTargetRefines,
     RecoverBundleRefines, CleanRefines, SyncCleanedRefines DEF Recovery
<1>. QED  BY <1>1, <1>2, <1>3, BeginRefines, BeginReadRefines, CallFailsRefines, CrashRefines,
             PowerLossRefines, StutterRefines DEF Next

LEMMA InitRefines == Init => Refines /\ Promise!Init
<1>. SUFFICES ASSUME Init PROVE Refines /\ Promise!Init
  OBVIOUS
<1>1. DOMAIN dir = {} /\ medium = {dir} /\ pc = "idle" /\ job = Idle /\ firm = 0 /\ faults = 0
      /\ answer = [c \in Calls |-> "none"]
  BY EmptySeq DEF Init
<1>2. Frontier = <<>> /\ Visible = <<>>
  BY <1>1, ShownEmpty DEF Frontier, Exists, Visible, Shown
<1>3. job.call = NoCall /\ job.why = "none"
  BY <1>1, IdleIs
<1>4. Kept
  <2>1. Views(files, dir) = {<<>>}
    BY <1>1 DEF Views
  <2>2. PICK s \in Seq(Calls) : s = <<>> /\ Len(s) = 0
    BY EmptySeq
  <2>3. IsPrefix(s, s)
    BY PrefixLaws
  <2>. QED  BY <1>1, <1>2, <2>1, <2>2, <2>3 DEF Kept
<1>5. ToSet(Visible) = {}
  BY <1>2, Members
<1>6. Answers
  BY <1>1, <1>3, <1>5, CallAssumption DEF Answers
<1>7. Faulty
  BY <1>1, BoundAssumption DEF Faulty
<1>8. Promise!Init
  BY <1>1, <1>2, <1>3 DEF Promise!Init
<1>. QED  BY <1>4, <1>6, <1>7, <1>8 DEF Refines

\* However many system calls fail, every step of the store is a step of the
\* promise, or none, but for the one misreport: a success outlives every crash
\* and power loss, and what is answered with success or as committed is in the
\* log (appendAtomicSingle, appendAtomicBundle).
THEOREM StoreKeepsPromise ==
  Spec => Promise!Init /\ [][Promise!Next \/ Misreports]_(Promise!vars)
<1>1. Inv /\ Inv' /\ Refines /\ [Next]_vars =>
        Refines' /\ [Promise!Next \/ Misreports]_(Promise!vars)
  BY NextRefines DEF Refined
<1>. QED  BY Invariance, InitRefines, <1>1, PTL DEF Spec

\* Where no two system calls fail the store implements the abstract log: a batch
\* appears whole or not at all, the answer says whether it is there, what was
\* reported failed never appears, and a success outlives every stop.
THEOREM StoreImplementsLog == ASSUME OneFault PROVE Spec => ImplementsLog
<1>1. ~Misreports \/ ~Faulty
  BY BoundAssumption DEF OneFault, Misreports, Fault, Faulty
<1>2. Inv /\ Inv' /\ Refines /\ [Next]_vars => Refines' /\ [Promise!Next]_(Promise!vars)
  BY <1>1, NextRefines DEF Refined, Refines
<1>. QED  BY Invariance, InitRefines, <1>2, PTL DEF Spec, ImplementsLog, Promise!Spec
=============================================================================
