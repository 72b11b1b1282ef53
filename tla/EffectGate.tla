------------------------------ MODULE EffectGate ------------------------------
(***************************************************************************)
(* The effect gate of the Go runtime (internal/app/effectgate/gate.go).    *)
(*                                                                         *)
(* An effect (a provider call, a tool batch, a publication) takes READ     *)
(* leases on its workspace and its thread; a context transition takes      *)
(* WRITE leases.  One element of Req is one call of the gate: the          *)
(* goroutine that makes it, the locks it has so far, and, for an effect,   *)
(* the lease object the call creates.  A call happens at most once.        *)
(*                                                                         *)
(* Every critical section of the code (Gate.mu, scopeLock.mu,              *)
(* effectLease.mu) is one action, so that the calls interleave between     *)
(* any two of them.  A refused call changes nothing and is a call whose    *)
(* action is not enabled.                                                  *)
(***************************************************************************)
EXTENDS Integers, FiniteSets

CONSTANTS
  ReadReq,         \* calls that ask for a read lease
  WriteReq,        \* calls that ask for a write lease
  Executions,      \* read calls a registered turn execution makes, under its context
  NoReq,           \* no call: the context carries no live lease
  Threads,         \* thread identities
  Workspaces,      \* canonical workspaces of one tenant and user
  WorkspaceOrder,  \* sort.Strings on workspace keys: [Workspaces -> Nat]
  Contexts,        \* turn security contexts: thread, workspace, authority, digest
  StrictContexts,  \* those that pass ValidateTurnSecurityContextForExecution
  OrdinaryContexts, \* those that pass ValidateTurnSecurityContextForOrdinaryEffect
  MetadataContexts, \* those whose scope a host route reads metadata of
  ChildOf,         \* <<parent thread, host-created child thread>> pairs
  Discipline       \* TRUE: callers keep the host's preconditions for progress

Req == ReadReq \cup WriteReq

ASSUME ReqAssumption ==
  /\ IsFiniteSet(ReadReq) /\ IsFiniteSet(WriteReq)
  /\ ReadReq \cap WriteReq = {} /\ NoReq \notin Req
  /\ Executions \subseteq ReadReq
ASSUME OrderAssumption ==
  /\ WorkspaceOrder \in [Workspaces -> Nat]
  /\ \A v, w \in Workspaces : WorkspaceOrder[v] = WorkspaceOrder[w] => v = w
ASSUME ContextAssumption ==
  /\ \A c \in Contexts : c.thread \in Threads /\ c.workspace \in Workspaces
  /\ StrictContexts \subseteq Contexts /\ OrdinaryContexts \subseteq Contexts
  /\ MetadataContexts \subseteq Contexts
  /\ Contexts # {}
ASSUME DisciplineAssumption == Discipline \in BOOLEAN

(***************************************************************************)
(* Lock keys.  Every caller lists its keys in one global order: workspaces *)
(* (sorted), then the child-minting key, then the thread.                  *)
(***************************************************************************)
WorkspaceKey(w) == <<"workspace", w>>
ChildTransitionKey(w) == <<"child-transition", w>>
ThreadKey(t) == <<"thread", t>>

Key == { WorkspaceKey(w) : w \in Workspaces }
         \cup { ChildTransitionKey(w) : w \in Workspaces }
         \cup { ThreadKey(t) : t \in Threads }

\* gateContextScope / gateTransitionScope: the keys of a full acquisition.
gateScope(c) == {WorkspaceKey(c.workspace), ThreadKey(c.thread)}

\* Mutant: the thread is locked before the workspace.
BeforeReversed(j, k) ==
  \/ j[1] = "thread" /\ k[1] # "thread"
  \/ j[1] = "workspace" /\ k[1] = "workspace" /\ WorkspaceOrder[j[2]] < WorkspaceOrder[k[2]]
  \/ j[1] = "workspace" /\ k[1] = "child-transition"

\* uniqueSortedKeys and the key lists of each call: j is locked before k.
Before(j, k) ==
  \/ j[1] = "workspace" /\ k[1] # "workspace"
  \/ j[1] = "workspace" /\ k[1] = "workspace"
       /\ WorkspaceOrder[j[2]] < WorkspaceOrder[k[2]]
  \/ j[1] = "child-transition" /\ k[1] = "thread"

IsFirst(k, S) == k \in S /\ \A j \in S \ {k} : Before(k, j)
IsLast(k, S) == k \in S /\ \A j \in S \ {k} : Before(j, k)

-------------------------------------------------------------------------------
VARIABLES
  \* scopeLock, one per key of Gate.scopes (absent iff scopeRefs is 0)
  scopeRefs, readers, writer, waitingWriters,
  \* effectLease.references of the lease a call created
  references,
  \* the calls
  pc, op, cx, ordinary, scope, todo, held, resv, parent,
  cancelled  \* waiting effects whose turn a barrier has cancelled

lockVars == <<scopeRefs, readers, writer, waitingWriters>>
callVars == <<op, cx, ordinary, scope, parent>>
vars == <<scopeRefs, readers, writer, waitingWriters, references, pc, op, cx,
          ordinary, scope, todo, held, resv, parent, cancelled>>

NoContext == CHOOSE c \in Contexts : TRUE

Ops == {"none", "effect", "retain", "metadata", "transition", "barrier", "rebind"}
PCs == {"new", "locking", "reserving", "barrier", "draining", "held",
        "retained", "unwinding", "detaching", "done"}

IsWriter(r) == op[r] \in {"transition", "barrier", "rebind"}
Active(r) == pc[r] \notin {"new", "done"}

\* An effectLease that has not been released.
Live(r) == op[r] = "effect" /\ pc[r] \in {"held", "retained"}

Init ==
  /\ scopeRefs = [k \in Key |-> 0]
  /\ readers = [k \in Key |-> 0]
  /\ writer = [k \in Key |-> FALSE]
  /\ waitingWriters = [k \in Key |-> 0]
  /\ references = [r \in Req |-> 0]
  /\ pc = [r \in Req |-> "new"]
  /\ op = [r \in Req |-> "none"]
  /\ cx = [r \in Req |-> NoContext]
  /\ ordinary = [r \in Req |-> FALSE]
  /\ scope = [r \in Req |-> {}]
  /\ todo = [r \in Req |-> {}]
  /\ held = [r \in Req |-> {}]
  /\ resv = [r \in Req |-> {}]
  /\ parent = [r \in Req |-> NoReq]
  /\ cancelled = {}

-------------------------------------------------------------------------------
(***************************************************************************)
(* The host's preconditions.  The gate's safety does not need them; its    *)
(* progress does, and the runtime keeps them: a reserved thread transition *)
(* admits no new turn, so once a barrier has cancelled the turns of its    *)
(* thread no execution of that thread starts an effect with a live         *)
(* context; nesting follows the tree of host-created child threads; a      *)
(* delegated child transition is for a thread that runs no effect yet.     *)
(***************************************************************************)
Quiesced(t) ==
  \E s \in Req : /\ op[s] = "barrier" /\ cx[s].thread = t
                 /\ pc[s] \in {"draining", "locking", "held", "unwinding"}
Minting(t) ==
  \E s \in Req : /\ op[s] = "transition" /\ Active(s) /\ cx[s].thread = t
                 /\ ChildTransitionKey(cx[s].workspace) \in scope[s]
Running(t) ==
  \E s \in Req : op[s] = "effect" /\ Active(s) /\ cx[s].thread = t

HostAdmitsEffect(r, c) ==
  Discipline => /\ r \in Executions => ~Quiesced(c.thread)
                /\ ~Minting(c.thread)
HostNests(l, c) == Discipline => <<cx[l].thread, c.thread>> \in ChildOf
HostMints(c) == Discipline => ~Running(c.thread) /\ ~Quiesced(c.thread)

-------------------------------------------------------------------------------
(***************************************************************************)
(* Call prologues: the conditions under which a call is not refused, then  *)
(* retain() on a borrowed parent lease and scopeLocks() on the keys.       *)
(***************************************************************************)
scopeLocks(S) == [k \in Key |-> IF k \in S THEN scopeRefs[k] + 1 ELSE scopeRefs[k]]
\* Mutant: the nested call does not count its reference.
retainNothing(l) == references
retain(l) == IF l = NoReq THEN references
             ELSE [references EXCEPT ![l] = @ + 1]

Begin(r, o, c, ord, S, l, first) ==
  /\ pc[r] = "new"
  /\ pc' = [pc EXCEPT ![r] = first]
  /\ op' = [op EXCEPT ![r] = o]
  /\ cx' = [cx EXCEPT ![r] = c]
  /\ ordinary' = [ordinary EXCEPT ![r] = ord]
  /\ scope' = [scope EXCEPT ![r] = S]
  /\ todo' = [todo EXCEPT ![r] = S]
  /\ parent' = [parent EXCEPT ![r] = l]
  /\ scopeRefs' = scopeLocks(S)
  /\ references' = retain(l)
  /\ UNCHANGED <<readers, writer, waitingWriters, held, resv, cancelled>>

\* The validation of an ordinary or a strict effect's context.
Validated(c, ord) == IF ord THEN c \in OrdinaryContexts ELSE c \in StrictContexts

\* AcquireEffect / AcquireOrdinaryEffect without a live lease in the context.
AcquireEffect(r) ==
  \E c \in Contexts, ord \in BOOLEAN :
    /\ Validated(c, ord)
    /\ HostAdmitsEffect(r, c)
    /\ Begin(r, "effect", c, ord, gateScope(c), NoReq, "locking")

\* acquireEffect inside the exact live lease: one more reference, no lock.
RetainEffect(r) ==
  \E l \in Req, ord \in BOOLEAN :
    /\ Live(l)
    /\ Validated(cx[l], ord) /\ (~ord => ~ordinary[l])
    /\ Begin(r, "retain", cx[l], ordinary[l], {}, l, "held")

\* Mutant: the nested effect does not keep its parent's lease.
AcquireNestedEffectUnpinned(r) ==
  \E l \in Req, c \in Contexts, ord \in BOOLEAN :
    /\ Live(l) /\ Validated(c, ord)
    /\ c.thread # cx[l].thread /\ c.workspace = cx[l].workspace
    /\ Begin(r, "effect", c, ordinary[l] \/ ord, {ThreadKey(c.thread)}, NoReq, "locking")

\* acquireEffect for another thread of the live lease's workspace authority.
AcquireNestedEffect(r) ==
  \E l \in Req, c \in Contexts, ord \in BOOLEAN :
    /\ Live(l)
    /\ Validated(c, ord) /\ (~ord => ~ordinary[l])
    /\ c.thread # cx[l].thread
    /\ c.workspace = cx[l].workspace /\ c.authority = cx[l].authority
    /\ HostAdmitsEffect(r, c) /\ HostNests(l, c)
    /\ Begin(r, "effect", c, ordinary[l] \/ ord, {ThreadKey(c.thread)}, l, "locking")

\* AcquireTransitionScopeRead with no live lease on the exact scope.
AcquireTransitionScopeRead(r) ==
  \E c \in MetadataContexts : Begin(r, "metadata", c, FALSE, gateScope(c), NoReq, "locking")

\* AcquireTransitionScopeRead inside a live lease on the exact scope.
RetainScopeRead(r) ==
  \E l \in Req :
    /\ Live(l)
    /\ Begin(r, "retain", cx[l], TRUE, {}, l, "held")

\* AcquireTransition, and AcquireTransitionScope without a barrier, with no
\* live lease in the context: workspace writer, then thread writer.
AcquireTransition(r) ==
  \E c \in Contexts : Begin(r, "transition", c, FALSE, gateScope(c), NoReq, "locking")

\* AcquireTransition inside a live lease of another thread of its workspace
\* authority: the parent is retained and only the thread writer is taken.
AcquireNestedTransition(r) ==
  \E l \in Req, c \in Contexts :
    /\ Live(l)
    /\ c.thread # cx[l].thread
    /\ c.workspace = cx[l].workspace /\ c.authority = cx[l].authority
    /\ HostNests(l, c)
    /\ Begin(r, "transition", c, FALSE, {ThreadKey(c.thread)}, l, "locking")

\* AcquireDelegatedChildTransitionScope: the child-minting writer of the
\* workspace, then the child's thread writer, under the parent's lease.
AcquireDelegatedChildTransitionScope(r) ==
  \E l \in Req, c \in Contexts :
    /\ Live(l)
    /\ c.thread # cx[l].thread /\ c.workspace = cx[l].workspace
    /\ HostNests(l, c) /\ HostMints(c)
    /\ Begin(r, "transition", c, FALSE,
             {ChildTransitionKey(c.workspace), ThreadKey(c.thread)}, l, "locking")

\* AcquireTransitionScopeWithBarrier: reserve every writer before the barrier.
AcquireTransitionScopeWithBarrier(r) ==
  \E c \in Contexts : Begin(r, "barrier", c, FALSE, gateScope(c), NoReq, "reserving")

\* acquireWorkspaceRebindScopeTransition: both workspaces and the thread.
AcquireWorkspaceRebind(r, o) ==
  \E c \in Contexts, w \in Workspaces :
    /\ w # c.workspace
    /\ Begin(r, o, c, FALSE, gateScope(c) \cup {WorkspaceKey(w)}, NoReq, "reserving")
AcquireWorkspaceRebindWithBarrier(r) == AcquireWorkspaceRebind(r, "barrier")
AcquireWorkspaceRebindNoBarrier(r) == ~Discipline /\ AcquireWorkspaceRebind(r, "rebind")

-------------------------------------------------------------------------------
(***************************************************************************)
(* The lock loops.                                                         *)
(***************************************************************************)
Granted(r, k) ==
  /\ held' = [held EXCEPT ![r] = @ \cup {k}]
  /\ todo' = [todo EXCEPT ![r] = @ \ {k}]
  /\ pc' = [pc EXCEPT ![r] = IF todo[r] = {k} THEN "held" ELSE "locking"]

\* scopeLock.acquireRead admits: no writer, and no writer waiting.
\* Mutant: a reader overtakes the queued writers.
readAdmittedPastQueue(k) == ~writer[k]
readAdmitted(k) == ~writer[k] /\ waitingWriters[k] = 0
\* scopeLock.acquireReservedWrite admits: no writer and no reader.
\* Mutant: the writer does not wait for the readers.
writeAdmittedPastReaders(k) == ~writer[k]
writeAdmitted(k) == ~writer[k] /\ readers[k] = 0

acquireRead(r, k) ==
  /\ pc[r] = "locking" /\ ~IsWriter(r) /\ r \notin cancelled
  /\ IsFirst(k, todo[r])
  /\ readAdmitted(k)
  /\ readers' = [readers EXCEPT ![k] = @ + 1]
  /\ Granted(r, k)
  /\ references' = IF op[r] = "effect" /\ todo[r] = {k}
                     THEN [references EXCEPT ![r] = 1] ELSE references
  /\ UNCHANGED <<scopeRefs, writer, waitingWriters, callVars, resv, cancelled>>

\* scopeLock.reserveWrite: in the loop that reserves every key first, or as
\* the first half of acquireWrite.
reserveWrite(r, k) ==
  /\ r \notin cancelled /\ IsWriter(r)
  /\ \/ pc[r] = "reserving" /\ IsFirst(k, todo[r] \ resv[r])
     \/ pc[r] = "locking" /\ IsFirst(k, todo[r]) /\ k \notin resv[r]
  /\ waitingWriters' = [waitingWriters EXCEPT ![k] = @ + 1]
  /\ resv' = [resv EXCEPT ![r] = @ \cup {k}]
  /\ pc' = [pc EXCEPT ![r] =
              CASE pc[r] = "locking" -> "locking"
                [] pc[r] # "locking" /\ todo[r] \ resv[r] # {k} -> "reserving"
                [] OTHER -> IF op[r] = "barrier" THEN "barrier" ELSE "locking"]
  /\ UNCHANGED <<scopeRefs, readers, writer, references, callVars, todo, held, cancelled>>

acquireReservedWrite(r, k) ==
  /\ pc[r] = "locking" /\ IsWriter(r) /\ r \notin cancelled
  /\ IsFirst(k, todo[r]) /\ k \in resv[r]
  /\ writeAdmitted(k)
  /\ waitingWriters' = [waitingWriters EXCEPT ![k] = @ - 1]
  /\ writer' = [writer EXCEPT ![k] = TRUE]
  /\ resv' = [resv EXCEPT ![r] = @ \ {k}]
  /\ Granted(r, k)
  /\ UNCHANGED <<scopeRefs, readers, references, callVars, cancelled>>

\* The call finds its context done, cancelled by its caller at any time or by
\* a barrier: acquireRead and reserveWrite return the error; before it does,
\* acquireReservedWrite gives up the reservation it was waiting with.
GiveUp(r) ==
  LET mine == { k \in resv[r] : pc[r] = "locking" /\ IsFirst(k, todo[r]) }
  IN  /\ pc[r] \in {"locking", "reserving"}
      /\ waitingWriters' = [k \in Key |-> IF k \in mine THEN waitingWriters[k] - 1
                                                        ELSE waitingWriters[k]]
      /\ resv' = [resv EXCEPT ![r] = @ \ mine]
      /\ pc' = [pc EXCEPT ![r] = "unwinding"]
      /\ UNCHANGED <<scopeRefs, readers, writer, references, callVars, todo, held, cancelled>>

-------------------------------------------------------------------------------
(***************************************************************************)
(* The barrier callback (quiesceRuntimeThread in the server): it cancels   *)
(* the registered executions of the thread, waits for them to end, and may *)
(* fail.  Every other read call is neither cancelled nor waited for: a     *)
(* metadata read, the effect a steering request leases on its own context  *)
(* before it is admitted, an effect of an auxiliary operation.             *)
(***************************************************************************)
\* The effects of the executions that CancelThreadTurnsAndWait ends.
Covered(t) == { s \in Executions : op[s] = "effect" /\ Active(s) /\ cx[s].thread = t }

BarrierCancel(r) ==
  /\ pc[r] = "barrier"
  /\ pc' = [pc EXCEPT ![r] = "draining"]
  /\ cancelled' = cancelled \cup { s \in Covered(cx[r].thread) : pc[s] = "locking" }
  /\ UNCHANGED <<lockVars, references, callVars, todo, held, resv>>

BarrierReturn(r) ==
  /\ pc[r] = "draining"
  /\ Covered(cx[r].thread) = {}
  /\ pc' = [pc EXCEPT ![r] = "locking"]
  /\ UNCHANGED <<lockVars, references, callVars, todo, held, resv, cancelled>>

BarrierFail(r) ==
  /\ pc[r] \in {"barrier", "draining"}
  /\ pc' = [pc EXCEPT ![r] = "unwinding"]
  /\ UNCHANGED <<lockVars, references, callVars, todo, held, resv, cancelled>>

-------------------------------------------------------------------------------
(***************************************************************************)
(* Release: the caller's once-guarded release, the unlock loop (last key   *)
(* first), releaseScopeLocks, and the borrowed parent's reference.         *)
(***************************************************************************)
\* effectLease.releaseReference unlocks with the last reference.
\* Mutant: the owner's release unlocks although the lease is borrowed.
lastReferenceAny(l) == references[l] <= 2
lastReference(l) == references[l] = 1

Release(r) ==
  /\ pc[r] = "held"
  /\ IF op[r] = "effect"
       THEN /\ references' = [references EXCEPT ![r] = @ - 1]
            /\ pc' = [pc EXCEPT ![r] = IF lastReference(r) THEN "unwinding" ELSE "retained"]
       ELSE /\ pc' = [pc EXCEPT ![r] = "unwinding"]
            /\ UNCHANGED references
  /\ UNCHANGED <<lockVars, callVars, todo, held, resv, cancelled>>

\* scopeLock.releaseRead / releaseWrite
releaseLock(r, k) ==
  /\ pc[r] = "unwinding" /\ IsLast(k, held[r])
  /\ held' = [held EXCEPT ![r] = @ \ {k}]
  /\ IF IsWriter(r)
       THEN writer' = [writer EXCEPT ![k] = FALSE] /\ UNCHANGED readers
       ELSE readers' = [readers EXCEPT ![k] = @ - 1] /\ UNCHANGED writer
  /\ UNCHANGED <<scopeRefs, waitingWriters, references, callVars, pc, todo, resv, cancelled>>

\* scopeLock.cancelReservedWrite
cancelReservedWrite(r, k) ==
  /\ pc[r] = "unwinding" /\ held[r] = {} /\ k \in resv[r]
  /\ waitingWriters' = [waitingWriters EXCEPT ![k] = @ - 1]
  /\ resv' = [resv EXCEPT ![r] = @ \ {k}]
  /\ UNCHANGED <<scopeRefs, readers, writer, references, callVars, pc, todo, held, cancelled>>

\* A call that has ended leaves nothing behind in its goroutine.
Forget(r) ==
  /\ op' = [op EXCEPT ![r] = "none"]
  /\ cx' = [cx EXCEPT ![r] = NoContext]
  /\ ordinary' = [ordinary EXCEPT ![r] = FALSE]
  /\ cancelled' = cancelled \ {r}

\* Gate.releaseScopeLocks: a lock nobody refers to leaves the map, and the
\* next caller of its key gets a fresh one.
\* Mutant: the first caller to leave deletes the lock.
FreedAlways(S) == S
Freed(S) == { k \in S : scopeRefs[k] = 1 }
releaseScopeLocks(r) ==
  /\ pc[r] = "unwinding" /\ held[r] = {} /\ resv[r] = {}
  /\ scopeRefs' = [k \in Key |-> IF k \in scope[r] THEN scopeRefs[k] - 1 ELSE scopeRefs[k]]
  /\ readers' = [k \in Key |-> IF k \in Freed(scope[r]) THEN 0 ELSE readers[k]]
  /\ writer' = [k \in Key |-> IF k \in Freed(scope[r]) THEN FALSE ELSE writer[k]]
  /\ waitingWriters' = [k \in Key |-> IF k \in Freed(scope[r]) THEN 0 ELSE waitingWriters[k]]
  /\ todo' = [todo EXCEPT ![r] = {}]
  /\ scope' = [scope EXCEPT ![r] = {}]
  /\ IF parent[r] = NoReq
       THEN Forget(r) /\ pc' = [pc EXCEPT ![r] = "done"]
       ELSE /\ pc' = [pc EXCEPT ![r] = "detaching"]
            /\ UNCHANGED <<op, cx, ordinary, cancelled>>
  /\ UNCHANGED <<references, parent, held, resv>>

\* effectLease.releaseReference on the borrowed parent lease.
releaseReference(r) ==
  /\ pc[r] = "detaching"
  /\ LET l == parent[r]
     IN  /\ references' = [references EXCEPT ![l] = @ - 1]
         /\ pc' = [pc EXCEPT ![r] = "done",
                             ![l] = IF lastReference(l) THEN "unwinding" ELSE @]
  /\ parent' = [parent EXCEPT ![r] = NoReq]
  /\ Forget(r)
  /\ UNCHANGED <<lockVars, scope, todo, held, resv>>

-------------------------------------------------------------------------------
ReadCall(r) ==
  \/ AcquireEffect(r) \/ RetainEffect(r) \/ AcquireNestedEffect(r)
  \/ AcquireTransitionScopeRead(r) \/ RetainScopeRead(r)

WriteCall(r) ==
  \/ AcquireTransition(r) \/ AcquireNestedTransition(r)
  \/ AcquireDelegatedChildTransitionScope(r)
  \/ AcquireTransitionScopeWithBarrier(r)
  \/ AcquireWorkspaceRebindWithBarrier(r)
  \/ AcquireWorkspaceRebindNoBarrier(r)

\* The steps a started call takes by itself.
Proceed(r) ==
  \/ \E k \in Key : \/ acquireRead(r, k) \/ reserveWrite(r, k)
                    \/ acquireReservedWrite(r, k)
                    \/ releaseLock(r, k) \/ cancelReservedWrite(r, k)
  \/ r \in cancelled /\ GiveUp(r)
  \/ BarrierCancel(r) \/ BarrierReturn(r)
  \/ releaseScopeLocks(r) \/ releaseReference(r)

\* Nobody calls any more and every call has ended.
Finished == (\A r \in Req : ~Active(r)) /\ UNCHANGED vars

Next ==
  \/ \E r \in ReadReq : ReadCall(r)
  \/ \E r \in WriteReq : WriteCall(r)
  \/ \E r \in Req : Proceed(r) \/ GiveUp(r) \/ Release(r) \/ BarrierFail(r)
  \/ Finished

Spec == Init /\ [][Next]_vars

\* A goroutine inside the gate runs on, and a caller releases what it holds.
FairSpec == Spec /\ \A r \in Req : WF_vars(Proceed(r)) /\ WF_vars(Release(r))

-------------------------------------------------------------------------------
TypeOK ==
  /\ scopeRefs \in [Key -> Nat] /\ readers \in [Key -> Nat]
  /\ writer \in [Key -> BOOLEAN] /\ waitingWriters \in [Key -> Nat]
  /\ references \in [Req -> Nat]
  /\ pc \in [Req -> PCs] /\ op \in [Req -> Ops]
  /\ cx \in [Req -> Contexts] /\ ordinary \in [Req -> BOOLEAN]
  /\ scope \in [Req -> SUBSET Key] /\ todo \in [Req -> SUBSET Key]
  /\ held \in [Req -> SUBSET Key] /\ resv \in [Req -> SUBSET Key]
  /\ parent \in [Req -> Req \cup {NoReq}] /\ cancelled \in SUBSET Req

ReadHolders(k) == { r \in Req : ~IsWriter(r) /\ k \in held[r] }
WriteHolders(k) == { r \in Req : IsWriter(r) /\ k \in held[r] }
Reservers(k) == { r \in Req : k \in resv[r] }
Users(k) == { r \in Req : k \in scope[r] }
Borrowers(l) == { r \in Req : parent[r] = l }

\* The counters of every scopeLock say exactly who holds, waits for and refers
\* to it, whatever was cancelled, failed or unwound on the way (acquireRead ..
\* releaseScopeLocks): no leaked reader, writer, reservation or map entry.
CountersExact ==
  \A k \in Key :
    /\ readers[k] = Cardinality(ReadHolders(k))
    /\ waitingWriters[k] = Cardinality(Reservers(k))
    /\ writer[k] = (WriteHolders(k) # {})
    /\ scopeRefs[k] = Cardinality(Users(k))

\* A lease has one reference per borrower, plus its owner's until the owner
\* releases it, so it is unlocked exactly when the last of them is gone.
ReferencesExact ==
  \A r \in Req :
    references[r] = Cardinality(Borrowers(r))
                      + (IF op[r] = "effect" /\ pc[r] = "held" THEN 1 ELSE 0)

\* Readers and writers of one key exclude each other, writers are alone.
LockExclusion ==
  \A k \in Key :
    /\ WriteHolders(k) # {} => ReadHolders(k) = {}
    /\ \A r, s \in WriteHolders(k) : r = s

\* While an effect is live, also one that only borrowed its parent's workspace
\* lease, no transition owns the writer of its workspace or of its thread.
EffectExcludesTransition ==
  \A r \in Req : Live(r) =>
    /\ WriteHolders(WorkspaceKey(cx[r].workspace)) = {}
    /\ WriteHolders(ThreadKey(cx[r].thread)) = {}

\* A call that borrowed a lease keeps it live, in its own workspace, until it
\* gives the reference back; and no borrowed lease is stricter than its lender.
BorrowedLeaseLive ==
  \A r \in Req : parent[r] # NoReq =>
    /\ Live(parent[r])
    /\ cx[parent[r]].workspace = cx[r].workspace
    /\ op[r] = "effect" /\ ordinary[parent[r]] => ordinary[r]

\* What the locks promise: a table of shared and exclusive holders.
Table == INSTANCE ScopeLockTable WITH
  shared <- [k \in Key |-> ReadHolders(k)],
  exclusive <- [k \in Key |-> WriteHolders(k)],
  queued <- [k \in Key |-> Reservers(k)]

\* The counters and the lock objects that come and go implement the table.
ImplementsTable == Table!Spec

\* Once a barrier call has reserved its writers, and until it releases or
\* abandons them, no effect or metadata read gains any of its keys, so nothing
\* enters behind the barrier's cancellation (AcquireTransitionScopeWithBarrier:
\* "New effects are excluded immediately").
BarrierFence ==
  [][\A b, r \in Req :
       op[b] = "barrier" /\ pc[b] \in {"barrier", "draining", "locking", "held"}
         /\ ~IsWriter(r)
       => (held'[r] \ held[r]) \cap scope[b] = {}]_vars

\* A reader that nothing cancels and a barrier call whose barrier has returned
\* never wait for each other: taking the workspace before the thread is there
\* so that no call holds one while it waits for the other.
WaitsFor(r, k) == pc[r] = "locking" /\ IsFirst(k, todo[r])
NoCircularWait ==
  ~ \E r \in ReadReq \ cancelled, s \in WriteReq, j, k \in Key :
      /\ op[s] = "barrier"
      /\ WaitsFor(r, j) /\ j \in resv[s]
      /\ WaitsFor(s, k) /\ k \in held[r]

\* A read call no barrier covers holds a workspace, itself or through the lease
\* it borrowed, and waits for a thread that a barrier call has reserved, while
\* this call waits for the workspace.
Uncovered(r) == r \in ReadReq /\ (op[r] = "metadata" \/ r \notin Executions)
CircularWait ==
  \E r \in Req, s \in WriteReq :
    LET w == WorkspaceKey(cx[r].workspace)
        t == ThreadKey(cx[r].thread)
    IN  /\ Uncovered(r) /\ op[s] = "barrier"
        /\ WaitsFor(r, t) /\ t \in resv[s]
        /\ WaitsFor(s, w) /\ (w \in held[r] \/ parent[r] # NoReq)

\* Every call that starts is granted or gives up, and every lease is finally
\* unlocked, unless a call that no barrier covers waits in that circle: nothing
\* else, not the order of the locks, the queueing of writers or the nesting of
\* calls, keeps a call of the gate waiting.
CallsSettle ==
  \A r \in Req :
    pc[r] \in PCs \ {"new", "held", "done"}
      ~> pc[r] \in {"held", "done"} \/ CircularWait
===============================================================================
