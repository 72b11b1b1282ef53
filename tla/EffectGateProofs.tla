--------------------------- MODULE EffectGateProofs ---------------------------
(***************************************************************************)
(* Proofs about EffectGate for every set of calls, threads, workspaces and *)
(* contexts.  Inv is the inductive invariant: the exact accounting of the  *)
(* scope locks and leases, the shape of one call, and the fact that        *)
(* borrowing is well founded, from which a live effect is shown to exclude *)
(* every transition of its workspace however deeply it is nested.          *)
(***************************************************************************)
EXTENDS EffectGate, FiniteSetTheorems, TLAPS

\* The shape of one call between its prologue and its end.
Shape(r) ==
  /\ pc[r] \in {"new", "done", "detaching"} => scope[r] = {}
  /\ held[r] \subseteq scope[r] /\ todo[r] \subseteq scope[r] /\ resv[r] \subseteq todo[r]
  /\ held[r] \cap todo[r] = {}
  /\ resv[r] # {} => IsWriter(r)
  /\ pc[r] \in {"held", "retained"} => todo[r] = {}
  /\ pc[r] \in {"reserving", "barrier", "draining"} => IsWriter(r)
  /\ pc[r] = "retained" => op[r] = "effect"
  /\ pc[r] \in {"new", "done"} => parent[r] = NoReq
  /\ pc[r] = "detaching" => parent[r] # NoReq
  /\ op[r] = "effect" /\ pc[r] \in {"locking", "held", "retained"} =>
       held[r] \cup todo[r] = IF parent[r] = NoReq THEN gateScope(cx[r])
                                                   ELSE {ThreadKey(cx[r].thread)}
Shapes == \A r \in Req : Shape(r)

\* Following parents never comes back: every set of calls has a member whose
\* lender is outside it.
BorrowingWellFounded ==
  \A S \in SUBSET Req : S # {} => \E r \in S : parent[r] \notin S

Inv ==
  /\ TypeOK /\ Shapes /\ CountersExact /\ ReferencesExact
  /\ LockExclusion /\ BorrowedLeaseLive /\ BorrowingWellFounded

-------------------------------------------------------------------------------
\* Finite sets of calls: one in, one out.
LEMMA CallSets ==
  ASSUME NEW S \in SUBSET Req
  PROVE  /\ Cardinality(S) \in Nat
         /\ Cardinality(S) = 0 <=> S = {}
         /\ \A r \in Req \ S : Cardinality(S \cup {r}) = Cardinality(S) + 1
         /\ \A r \in S : Cardinality(S \ {r}) = Cardinality(S) - 1
<1>1. IsFiniteSet(Req)
  BY ReqAssumption, FS_Union DEF Req
<1>2. IsFiniteSet(S)
  BY <1>1, FS_Subset
<1>3. Cardinality(S) \in Nat
  BY <1>2, FS_CardinalityType
<1>4. Cardinality(S) = 0 <=> S = {}
  BY <1>2, FS_EmptySet
<1>5. \A r \in Req \ S : Cardinality(S \cup {r}) = Cardinality(S) + 1
  BY <1>2, FS_AddElement
<1>6. \A r \in S : Cardinality(S \ {r}) = Cardinality(S) - 1
  BY <1>2, FS_RemoveElement
<1>. QED  BY <1>3, <1>4, <1>5, <1>6

\* The keys of a context and of a rebind are lock keys.
LEMMA ContextKeys ==
  \A c \in Contexts :
    /\ c.thread \in Threads /\ c.workspace \in Workspaces
    /\ WorkspaceKey(c.workspace) \in Key /\ ChildTransitionKey(c.workspace) \in Key
    /\ ThreadKey(c.thread) \in Key /\ gateScope(c) \subseteq Key
BY ContextAssumption DEF Key, gateScope

\* The key of a workspace scope is a lock key.
LEMMA WorkspaceKeys == \A w \in Workspaces : WorkspaceKey(w) \in Key
BY DEF Key

\* What the prologue of every call has made sure of before it begins.
Admitted(r, o, c, ord, S, l, first) ==
  /\ o \in Ops \ {"none"} /\ c \in Contexts /\ ord \in BOOLEAN /\ S \subseteq Key
  /\ first \in {"locking", "reserving", "held"}
  /\ l # NoReq => /\ l \in Req /\ Live(l) /\ cx[l].workspace = c.workspace
                  /\ o = "effect" /\ ordinary[l] => ord
  /\ o = "effect" => /\ first = "locking"
                     /\ S = IF l = NoReq THEN gateScope(c) ELSE {ThreadKey(c.thread)}
  /\ first = "reserving" => o \in {"transition", "barrier", "rebind"}
  /\ first = "held" => S = {} /\ o = "retain"

\* beginCall: a call that starts borrows nothing and holds nothing, and is the
\* only one the step touches.
LEMMA CallBegins ==
  ASSUME NEW r \in Req, TypeOK, ReadCall(r) \/ WriteCall(r)
  PROVE  \E o, c, ord, S, l, first :
           Begin(r, o, c, ord, S, l, first) /\ Admitted(r, o, c, ord, S, l, first)
<1>0. NoReq \notin Req
  BY ReqAssumption
<1>1. CASE AcquireEffect(r)
  <2>1. PICK c \in Contexts, ord \in BOOLEAN :
          Begin(r, "effect", c, ord, gateScope(c), NoReq, "locking")
    BY <1>1 DEF AcquireEffect
  <2>2. Admitted(r, "effect", c, ord, gateScope(c), NoReq, "locking")
    BY ContextKeys DEF Admitted, Ops
  <2>. QED  BY <2>1, <2>2
<1>2. CASE RetainEffect(r)
  <2>1. PICK l \in Req :
          Live(l) /\ Begin(r, "retain", cx[l], ordinary[l], {}, l, "held")
    BY <1>2 DEF RetainEffect
  <2>2. Admitted(r, "retain", cx[l], ordinary[l], {}, l, "held")
    BY <2>1 DEF Admitted, Ops, TypeOK
  <2>. QED  BY <2>1, <2>2
<1>3. CASE AcquireNestedEffect(r)
  <2>1. PICK l \in Req, c \in Contexts, ord \in BOOLEAN :
          /\ Live(l) /\ c.workspace = cx[l].workspace
          /\ Begin(r, "effect", c, ordinary[l] \/ ord, {ThreadKey(c.thread)}, l, "locking")
    BY <1>3 DEF AcquireNestedEffect
  <2>2. (ordinary[l] \/ ord) \in BOOLEAN /\ (ordinary[l] => (ordinary[l] \/ ord))
    OBVIOUS
  <2>3. Admitted(r, "effect", c, ordinary[l] \/ ord, {ThreadKey(c.thread)}, l, "locking")
    BY <1>0, <2>1, <2>2, ContextKeys DEF Admitted, Ops
  <2>. QED  BY <2>1, <2>3
<1>4. CASE AcquireTransitionScopeRead(r)
  <2>1. PICK c \in MetadataContexts :
          Begin(r, "metadata", c, FALSE, gateScope(c), NoReq, "locking")
    BY <1>4 DEF AcquireTransitionScopeRead
  <2>2. Admitted(r, "metadata", c, FALSE, gateScope(c), NoReq, "locking")
    BY ContextKeys, ContextAssumption DEF Admitted, Ops
  <2>. QED  BY <2>1, <2>2
<1>5. CASE RetainScopeRead(r)
  <2>1. PICK l \in Req : Live(l) /\ Begin(r, "retain", cx[l], TRUE, {}, l, "held")
    BY <1>5 DEF RetainScopeRead
  <2>2. Admitted(r, "retain", cx[l], TRUE, {}, l, "held")
    BY <2>1 DEF Admitted, Ops, TypeOK
  <2>. QED  BY <2>1, <2>2
<1>6. CASE AcquireTransition(r)
  <2>1. PICK c \in Contexts : Begin(r, "transition", c, FALSE, gateScope(c), NoReq, "locking")
    BY <1>6 DEF AcquireTransition
  <2>2. Admitted(r, "transition", c, FALSE, gateScope(c), NoReq, "locking")
    BY ContextKeys DEF Admitted, Ops
  <2>. QED  BY <2>1, <2>2
<1>7. CASE AcquireNestedTransition(r)
  <2>1. PICK l \in Req, c \in Contexts :
          /\ Live(l) /\ c.workspace = cx[l].workspace
          /\ Begin(r, "transition", c, FALSE, {ThreadKey(c.thread)}, l, "locking")
    BY <1>7 DEF AcquireNestedTransition
  <2>2. Admitted(r, "transition", c, FALSE, {ThreadKey(c.thread)}, l, "locking")
    BY <2>1, ContextKeys DEF Admitted, Ops
  <2>. QED  BY <2>1, <2>2
<1>8. CASE AcquireDelegatedChildTransitionScope(r)
  <2>1. PICK l \in Req, c \in Contexts :
          /\ Live(l) /\ c.workspace = cx[l].workspace
          /\ Begin(r, "transition", c, FALSE,
                   {ChildTransitionKey(c.workspace), ThreadKey(c.thread)}, l, "locking")
    BY <1>8 DEF AcquireDelegatedChildTransitionScope
  <2>2. Admitted(r, "transition", c, FALSE,
                 {ChildTransitionKey(c.workspace), ThreadKey(c.thread)}, l, "locking")
    BY <2>1, ContextKeys DEF Admitted, Ops
  <2>. QED  BY <2>1, <2>2
<1>9. CASE AcquireTransitionScopeWithBarrier(r)
  <2>1. PICK c \in Contexts : Begin(r, "barrier", c, FALSE, gateScope(c), NoReq, "reserving")
    BY <1>9 DEF AcquireTransitionScopeWithBarrier
  <2>2. Admitted(r, "barrier", c, FALSE, gateScope(c), NoReq, "reserving")
    BY ContextKeys DEF Admitted, Ops
  <2>. QED  BY <2>1, <2>2
<1>10. CASE AcquireWorkspaceRebindWithBarrier(r) \/ AcquireWorkspaceRebindNoBarrier(r)
  <2>1. PICK o \in {"barrier", "rebind"} : AcquireWorkspaceRebind(r, o)
    BY <1>10 DEF AcquireWorkspaceRebindWithBarrier, AcquireWorkspaceRebindNoBarrier
  <2>2. PICK c \in Contexts, w \in Workspaces :
          Begin(r, o, c, FALSE, gateScope(c) \cup {WorkspaceKey(w)}, NoReq, "reserving")
    BY <2>1 DEF AcquireWorkspaceRebind
  <2>3. gateScope(c) \cup {WorkspaceKey(w)} \subseteq Key
    BY ContextKeys, WorkspaceKeys
  <2>4. Admitted(r, o, c, FALSE, gateScope(c) \cup {WorkspaceKey(w)}, NoReq, "reserving")
    BY <2>3 DEF Admitted, Ops
  <2>. QED  BY <2>2, <2>4
<1>. QED
  BY <1>1, <1>2, <1>3, <1>4, <1>5, <1>6, <1>7, <1>8, <1>9, <1>10
     DEF ReadCall, WriteCall

-------------------------------------------------------------------------------
\* Inv from its parts, and in the initial state.
LEMMA Initially == Init => Inv
<1>. SUFFICES ASSUME Init PROVE Inv
  OBVIOUS
<1>1. TypeOK
  BY ContextAssumption DEF Init, TypeOK, NoContext, PCs, Ops
<1>2. Shapes
  BY DEF Init, Shapes, Shape, IsWriter
<1>3. \A k \in Key : ReadHolders(k) = {} /\ WriteHolders(k) = {}
                       /\ Reservers(k) = {} /\ Users(k) = {}
  BY DEF Init, ReadHolders, WriteHolders, Reservers, Users
<1>4. \A r \in Req : Borrowers(r) = {}
  BY ReqAssumption DEF Init, Borrowers
<1>5. CountersExact
  BY <1>3, FS_EmptySet DEF Init, CountersExact
<1>6. ReferencesExact
  <2>1. Cardinality({}) = 0
    BY FS_EmptySet
  <2>2. \A r \in Req : references[r] = 0 /\ op[r] # "effect"
    BY DEF Init
  <2>. QED  BY <1>4, <2>1, <2>2 DEF ReferencesExact
<1>7. LockExclusion
  BY <1>3 DEF LockExclusion
<1>8. BorrowedLeaseLive
  BY DEF Init, BorrowedLeaseLive
<1>9. BorrowingWellFounded
  BY ReqAssumption DEF Init, BorrowingWellFounded
<1>. QED  BY <1>1, <1>2, <1>5, <1>6, <1>7, <1>8, <1>9 DEF Inv

\* A step that moves no key between calls moves no holder.
LEMMA HoldersFrame ==
  ASSUME held' = held, \A s \in Req : held[s] # {} => op'[s] = op[s]
  PROVE  \A k : ReadHolders(k)' = ReadHolders(k) /\ WriteHolders(k)' = WriteHolders(k)
BY DEF ReadHolders, WriteHolders, IsWriter

\* Nobody has borrowed from a call that is not a live effect.
LEMMA OnlyLiveLends ==
  ASSUME BorrowedLeaseLive, NEW r \in Req, ~Live(r)
  PROVE  \A s \in Req : parent[s] # r
BY ReqAssumption DEF BorrowedLeaseLive

-------------------------------------------------------------------------------
\* One lemma per action of a call: the invariant is kept.
LEMMA BeginKeeps ==
  ASSUME Inv, NEW r \in Req, NEW o, NEW c, NEW ord, NEW S, NEW l, NEW first,
         Begin(r, o, c, ord, S, l, first), Admitted(r, o, c, ord, S, l, first)
  PROVE  Inv'
<1>. USE ReqAssumption DEF Inv
<1>1. pc[r] = "new" /\ held[r] = {} /\ resv[r] = {} /\ scope[r] = {} /\ parent[r] = NoReq
  BY DEF Begin, Shapes, Shape
<1>2. ~Live(r) /\ l # r /\ \A s \in Req : parent[s] # r
  BY <1>1, OnlyLiveLends DEF Live, Admitted
<1>3. TypeOK'
  BY DEF TypeOK, Begin, Admitted, PCs, scopeLocks, retain
<1>4. \A k : ReadHolders(k)' = ReadHolders(k) /\ WriteHolders(k)' = WriteHolders(k)
              /\ Reservers(k)' = Reservers(k)
  <2>1. held' = held /\ resv' = resv /\ \A s \in Req : held[s] # {} => op'[s] = op[s]
    BY <1>1 DEF Begin, TypeOK
  <2>. QED  BY <2>1, HoldersFrame DEF Reservers
<1>5. \A k : Users(k)' = IF k \in S THEN Users(k) \cup {r} ELSE Users(k)
  BY <1>1 DEF Begin, TypeOK, Users
<1>6. \A s \in Req : Borrowers(s)' = IF s = l THEN Borrowers(s) \cup {r} ELSE Borrowers(s)
  BY <1>1 DEF Begin, TypeOK, Borrowers
<1>7. Shapes'
  <2>1. Shape(r)'
    BY <1>1 DEF Shape, TypeOK, Begin, Admitted, IsWriter
  <2>2. \A s \in Req \ {r} : Shape(s)'
    BY DEF Shapes, Shape, TypeOK, Begin, IsWriter
  <2>. QED  BY <2>1, <2>2 DEF Shapes
<1>8. CountersExact'
  <2>1. \A k \in Key : r \notin Users(k) /\ Users(k) \in SUBSET Req
    BY <1>1 DEF Users
  <2>2. \A k \in Key : Cardinality(Users(k))' =
          IF k \in S THEN Cardinality(Users(k)) + 1 ELSE Cardinality(Users(k))
    BY <2>1, <1>5, CallSets
  <2>. QED  BY <1>4, <2>2 DEF CountersExact, Begin, TypeOK, scopeLocks
<1>9. ReferencesExact'
  <2>1. \A s \in Req : r \notin Borrowers(s) /\ Borrowers(s) \in SUBSET Req
    BY <1>1 DEF Borrowers
  <2>2. \A s \in Req : Cardinality(Borrowers(s))' =
          IF s = l THEN Cardinality(Borrowers(s)) + 1 ELSE Cardinality(Borrowers(s))
    BY <2>1, <1>6, CallSets
  <2>3. \A s \in Req : Cardinality(Borrowers(s)) \in Nat
    BY <2>1, CallSets
  <2>. QED  BY <1>1, <1>2, <2>2, <2>3 DEF ReferencesExact, Begin, Admitted, TypeOK, retain
<1>10. LockExclusion'
  BY <1>4 DEF LockExclusion
<1>11. BorrowedLeaseLive'
  BY <1>1, <1>2 DEF BorrowedLeaseLive, Begin, Admitted, TypeOK, Live
<1>12. BorrowingWellFounded'
  <2>. SUFFICES ASSUME NEW T \in SUBSET Req, T # {}
                PROVE  \E s \in T : parent'[s] \notin T
    BY DEF BorrowingWellFounded
  <2>1. parent' = [parent EXCEPT ![r] = l] /\ parent \in [Req -> Req \cup {NoReq}]
    BY DEF Begin, TypeOK
  <2>2. CASE T \ {r} = {}
    BY <1>2, <2>1, <2>2
  <2>3. CASE T \ {r} # {}
    <3>1. PICK s \in T \ {r} : parent[s] \notin T \ {r}
      BY <2>3 DEF BorrowingWellFounded
    <3>. QED  BY <3>1, <1>2, <2>1
  <2>. QED  BY <2>2, <2>3
<1>. QED  BY <1>3, <1>7, <1>8, <1>9, <1>10, <1>11, <1>12

\* The parts of the invariant about leases and borrowing do not look at locks:
\* a step that changes none of their variables keeps them.
LEMMA BorrowingFrame ==
  ASSUME Inv, parent' = parent, op' = op, cx' = cx, ordinary' = ordinary,
         references' = references,
         \A s \in Req : op[s] = "effect" =>
           /\ pc'[s] = "held" <=> pc[s] = "held"
           /\ pc'[s] = "retained" <=> pc[s] = "retained"
  PROVE  ReferencesExact' /\ BorrowedLeaseLive' /\ BorrowingWellFounded'
<1>1. \A s : Borrowers(s)' = Borrowers(s)
  BY DEF Borrowers
<1>2. ReferencesExact'
  BY <1>1 DEF Inv, ReferencesExact
<1>3. \A s \in Req : Live(s)' <=> Live(s)
  BY DEF Live
<1>4. BorrowedLeaseLive'
  BY <1>3, ReqAssumption DEF Inv, BorrowedLeaseLive, TypeOK
<1>5. BorrowingWellFounded'
  BY DEF Inv, BorrowingWellFounded
<1>. QED  BY <1>2, <1>4, <1>5

\* acquireRead: a reader enters only past writers and writer reservations.
LEMMA AcquireReadKeeps ==
  ASSUME Inv, NEW r \in Req, NEW k \in Key, acquireRead(r, k)
  PROVE  Inv'
<1>. USE DEF Inv
<1>1. /\ pc[r] = "locking" /\ ~IsWriter(r) /\ k \in todo[r] /\ k \notin held[r]
      /\ ~writer[k] /\ waitingWriters[k] = 0 /\ k \in scope[r] /\ resv[r] = {}
  BY DEF acquireRead, IsFirst, readAdmitted, Shapes, Shape
<1>2. ~Live(r) /\ \A s \in Req : parent[s] # r
  BY <1>1, OnlyLiveLends DEF Live
<1>3. TypeOK'
  BY DEF TypeOK, acquireRead, Granted, PCs, callVars
<1>4. \A j : /\ ReadHolders(j)' = IF j = k THEN ReadHolders(j) \cup {r} ELSE ReadHolders(j)
             /\ WriteHolders(j)' = WriteHolders(j)
             /\ Reservers(j)' = Reservers(j) /\ Users(j)' = Users(j)
  BY <1>1 DEF acquireRead, Granted, TypeOK, callVars, ReadHolders, WriteHolders,
              Reservers, Users, IsWriter
<1>5. Shapes'
  <2>1. Shape(r)'
    BY <1>1 DEF Shapes, Shape, TypeOK, acquireRead, Granted, callVars, IsWriter
  <2>2. \A s \in Req \ {r} : Shape(s)'
    BY DEF Shapes, Shape, TypeOK, acquireRead, Granted, callVars, IsWriter
  <2>. QED  BY <2>1, <2>2 DEF Shapes
<1>6. CountersExact'
  <2>1. \A j \in Key : ReadHolders(j) \in SUBSET Req
    BY DEF ReadHolders
  <2>2. r \notin ReadHolders(k)
    BY <1>1 DEF ReadHolders
  <2>3. Cardinality(ReadHolders(k) \cup {r}) = Cardinality(ReadHolders(k)) + 1
    BY <2>1, <2>2, CallSets
  <2>. QED  BY <1>4, <2>3 DEF CountersExact, acquireRead, TypeOK
<1>7. ReferencesExact'
  <2>1. Borrowers(r) = {} /\ \A s : Borrowers(s)' = Borrowers(s)
    BY <1>2 DEF Borrowers, acquireRead, callVars
  <2>2. Cardinality({}) = 0
    BY FS_EmptySet
  <2>3. references[r] = 0 /\ Cardinality(Borrowers(r)) = 0
    BY <1>1, <2>1, <2>2 DEF ReferencesExact
  <2>4. \A s \in Req \ {r} : references'[s] = references[s] /\ pc'[s] = pc[s] /\ op'[s] = op[s]
    BY DEF acquireRead, Granted, TypeOK, callVars
  <2>5. references'[r] = IF op'[r] = "effect" /\ pc'[r] = "held" THEN 1 ELSE 0
    BY <2>3 DEF acquireRead, Granted, TypeOK, callVars
  <2>6. \A s \in Req \ {r} :
          references'[s] = Cardinality(Borrowers(s)')
                             + (IF op'[s] = "effect" /\ pc'[s] = "held" THEN 1 ELSE 0)
    BY <2>1, <2>4 DEF ReferencesExact
  <2>7. references'[r] = Cardinality(Borrowers(r)')
                             + (IF op'[r] = "effect" /\ pc'[r] = "held" THEN 1 ELSE 0)
    BY <2>1, <2>3, <2>5
  <2>. QED  BY <2>6, <2>7 DEF ReferencesExact
<1>8. LockExclusion'
  <2>1. WriteHolders(k) = {}
    BY <1>1 DEF CountersExact
  <2>. QED  BY <1>4, <2>1 DEF LockExclusion
<1>9. BorrowedLeaseLive'
  BY <1>2, ReqAssumption DEF BorrowedLeaseLive, acquireRead, Granted, TypeOK, callVars, Live
<1>10. BorrowingWellFounded'
  BY DEF BorrowingWellFounded, acquireRead, callVars
<1>. QED  BY <1>3, <1>5, <1>6, <1>7, <1>8, <1>9, <1>10

\* reserveWrite: a reservation counts one waiting writer and one reference.
LEMMA ReserveWriteKeeps ==
  ASSUME Inv, NEW r \in Req, NEW k \in Key, reserveWrite(r, k)
  PROVE  Inv'
<1>. USE DEF Inv
<1>1. /\ pc[r] \in {"reserving", "locking"} /\ IsWriter(r)
      /\ k \in todo[r] /\ k \notin resv[r]
  BY DEF reserveWrite, IsFirst
<1>2. op[r] # "effect"
  BY <1>1 DEF IsWriter
<1>3. pc' = [pc EXCEPT ![r] = pc'[r]] /\ pc'[r] \in {"locking", "reserving", "barrier"}
  BY <1>1 DEF reserveWrite, TypeOK
<1>4. TypeOK'
  BY <1>3 DEF TypeOK, reserveWrite, PCs, callVars
<1>5. \A j : /\ ReadHolders(j)' = ReadHolders(j) /\ WriteHolders(j)' = WriteHolders(j)
             /\ Users(j)' = Users(j)
             /\ Reservers(j)' = IF j = k THEN Reservers(j) \cup {r} ELSE Reservers(j)
  BY DEF reserveWrite, TypeOK, callVars, ReadHolders, WriteHolders, Reservers, Users, IsWriter
<1>6. Shapes'
  <2>1. Shape(r)'
    BY <1>1, <1>2, <1>3 DEF Shapes, Shape, TypeOK, reserveWrite, callVars, IsWriter
  <2>2. \A s \in Req \ {r} : Shape(s)'
    BY <1>3 DEF Shapes, Shape, TypeOK, reserveWrite, callVars, IsWriter
  <2>. QED  BY <2>1, <2>2 DEF Shapes
<1>7. CountersExact'
  <2>1. Reservers(k) \in SUBSET Req /\ r \notin Reservers(k)
    BY <1>1 DEF Reservers
  <2>2. Cardinality(Reservers(k) \cup {r}) = Cardinality(Reservers(k)) + 1
    BY <2>1, CallSets
  <2>. QED  BY <1>5, <2>2 DEF CountersExact, reserveWrite, TypeOK
<1>8. LockExclusion'
  BY <1>5 DEF LockExclusion
<1>9. ReferencesExact' /\ BorrowedLeaseLive' /\ BorrowingWellFounded'
  BY <1>2, <1>3, BorrowingFrame DEF reserveWrite, callVars, TypeOK
<1>. QED  BY <1>4, <1>6, <1>7, <1>8, <1>9

\* acquireReservedWrite: the waiting writer becomes the one writer of its key.
LEMMA AcquireReservedWriteKeeps ==
  ASSUME Inv, NEW r \in Req, NEW k \in Key, acquireReservedWrite(r, k)
  PROVE  Inv'
<1>. USE DEF Inv
<1>1. /\ pc[r] = "locking" /\ IsWriter(r) /\ k \in todo[r] /\ k \in resv[r]
      /\ k \notin held[r] /\ k \in scope[r] /\ ~writer[k] /\ readers[k] = 0
  BY DEF acquireReservedWrite, IsFirst, writeAdmitted, Shapes, Shape
<1>2. op[r] # "effect"
  BY <1>1 DEF IsWriter
<1>3. ReadHolders(k) = {} /\ WriteHolders(k) = {}
  <2>1. ReadHolders(k) \in SUBSET Req
    BY DEF ReadHolders
  <2>. QED  BY <1>1, <2>1, CallSets DEF CountersExact
<1>4. \A j : /\ ReadHolders(j)' = ReadHolders(j)
             /\ WriteHolders(j)' = IF j = k THEN WriteHolders(j) \cup {r} ELSE WriteHolders(j)
             /\ Users(j)' = Users(j)
             /\ Reservers(j)' = IF j = k THEN Reservers(j) \ {r} ELSE Reservers(j)
  BY <1>1 DEF acquireReservedWrite, Granted, TypeOK, callVars, ReadHolders, WriteHolders,
              Reservers, Users, IsWriter
<1>5. Shapes'
  <2>1. Shape(r)'
    BY <1>1, <1>2 DEF Shapes, Shape, TypeOK, acquireReservedWrite, Granted, callVars, IsWriter
  <2>2. \A s \in Req \ {r} : Shape(s)'
    BY DEF Shapes, Shape, TypeOK, acquireReservedWrite, Granted, callVars, IsWriter
  <2>. QED  BY <2>1, <2>2 DEF Shapes
<1>6. Cardinality(Reservers(k) \ {r}) = Cardinality(Reservers(k)) - 1
      /\ Cardinality(Reservers(k) \ {r}) \in Nat
  <2>1. Reservers(k) \in SUBSET Req /\ r \in Reservers(k) /\ Reservers(k) \ {r} \in SUBSET Req
    BY <1>1 DEF Reservers
  <2>. QED  BY <2>1, CallSets
<1>7. CountersExact'
  BY <1>4, <1>6 DEF CountersExact, acquireReservedWrite, TypeOK
<1>8. TypeOK'
  <2>1. waitingWriters[k] - 1 \in Nat
    BY <1>6 DEF CountersExact
  <2>. QED  BY <2>1 DEF TypeOK, acquireReservedWrite, Granted, PCs, callVars
<1>9. LockExclusion'
  BY <1>3, <1>4 DEF LockExclusion
<1>10. ReferencesExact' /\ BorrowedLeaseLive' /\ BorrowingWellFounded'
  BY <1>2, BorrowingFrame DEF acquireReservedWrite, Granted, callVars, TypeOK
<1>. QED  BY <1>5, <1>7, <1>8, <1>9, <1>10

\* A cancelled or failed wait: the call goes on to unwind what it holds.
LEMMA GiveUpKeeps ==
  ASSUME Inv, NEW r \in Req, GiveUp(r)
  PROVE  Inv'
<1>. USE DEF Inv
<1>. DEFINE mine == { k \in resv[r] : pc[r] = "locking" /\ IsFirst(k, todo[r]) }
<1>1. /\ pc[r] \in {"locking", "reserving"} /\ ~Live(r)
      /\ mine \subseteq resv[r] /\ mine \subseteq Key
  BY DEF GiveUp, Live, TypeOK
<1>2. /\ waitingWriters' = [k \in Key |-> IF k \in mine THEN waitingWriters[k] - 1
                                                        ELSE waitingWriters[k]]
      /\ resv' = [resv EXCEPT ![r] = @ \ mine]
      /\ pc' = [pc EXCEPT ![r] = "unwinding"]
      /\ UNCHANGED <<scopeRefs, readers, writer, references, op, cx, ordinary, scope,
                     parent, todo, held, cancelled>>
  BY DEF GiveUp, callVars
<1>. HIDE DEF mine
<1>3. \A j : /\ ReadHolders(j)' = ReadHolders(j) /\ WriteHolders(j)' = WriteHolders(j)
             /\ Users(j)' = Users(j)
             /\ Reservers(j)' = IF j \in mine THEN Reservers(j) \ {r} ELSE Reservers(j)
  BY <1>1, <1>2 DEF TypeOK, ReadHolders, WriteHolders, Reservers, Users, IsWriter
<1>4. Shapes'
  <2>1. Shape(r)'
    BY <1>1, <1>2 DEF Shapes, Shape, TypeOK, IsWriter
  <2>2. \A s \in Req \ {r} : Shape(s)'
    BY <1>2 DEF Shapes, Shape, TypeOK, IsWriter
  <2>. QED  BY <2>1, <2>2 DEF Shapes
<1>5. \A j \in mine : /\ Cardinality(Reservers(j) \ {r}) = Cardinality(Reservers(j)) - 1
                      /\ Cardinality(Reservers(j) \ {r}) \in Nat
  <2>1. \A j \in mine : /\ r \in Reservers(j) /\ Reservers(j) \in SUBSET Req
                        /\ Reservers(j) \ {r} \in SUBSET Req
    BY <1>1 DEF Reservers
  <2>. QED  BY <2>1, CallSets
<1>6. CountersExact'
  BY <1>1, <1>2, <1>3, <1>5 DEF CountersExact, TypeOK
<1>7. TypeOK'
  <2>1. \A j \in mine : waitingWriters[j] - 1 \in Nat
    BY <1>1, <1>5 DEF CountersExact
  <2>. QED  BY <1>1, <1>2, <2>1 DEF TypeOK, PCs
<1>8. LockExclusion'
  BY <1>3 DEF LockExclusion
<1>9. ReferencesExact' /\ BorrowedLeaseLive' /\ BorrowingWellFounded'
  BY <1>1, <1>2, BorrowingFrame DEF TypeOK, Live
<1>. QED  BY <1>4, <1>6, <1>7, <1>8, <1>9

\* releaseRead and releaseWrite: the counter loses exactly the holder that left.
LEMMA ReleaseLockKeeps ==
  ASSUME Inv, NEW r \in Req, NEW k \in Key, releaseLock(r, k)
  PROVE  Inv'
<1>. USE DEF Inv
<1>1. pc[r] = "unwinding" /\ k \in held[r] /\ k \in scope[r] /\ k \notin todo[r]
  BY DEF releaseLock, IsLast, Shapes, Shape
<1>2. \A j : /\ Users(j)' = Users(j) /\ Reservers(j)' = Reservers(j)
             /\ ReadHolders(j)' =
                  IF j = k /\ ~IsWriter(r) THEN ReadHolders(j) \ {r} ELSE ReadHolders(j)
             /\ WriteHolders(j)' =
                  IF j = k /\ IsWriter(r) THEN WriteHolders(j) \ {r} ELSE WriteHolders(j)
  BY <1>1 DEF releaseLock, TypeOK, callVars, ReadHolders, WriteHolders, Reservers, Users, IsWriter
<1>3. Shapes'
  <2>1. Shape(r)'
    BY <1>1 DEF Shapes, Shape, TypeOK, releaseLock, callVars, IsWriter
  <2>2. \A s \in Req \ {r} : Shape(s)'
    BY DEF Shapes, Shape, TypeOK, releaseLock, callVars, IsWriter
  <2>. QED  BY <2>1, <2>2 DEF Shapes
<1>4. ~IsWriter(r) => /\ Cardinality(ReadHolders(k) \ {r}) = Cardinality(ReadHolders(k)) - 1
                      /\ Cardinality(ReadHolders(k) \ {r}) \in Nat
  <2>1. ~IsWriter(r) => r \in ReadHolders(k)
    BY <1>1 DEF ReadHolders
  <2>2. ReadHolders(k) \in SUBSET Req /\ ReadHolders(k) \ {r} \in SUBSET Req
    BY DEF ReadHolders
  <2>. QED  BY <2>1, <2>2, CallSets
<1>5. IsWriter(r) => WriteHolders(k) \ {r} = {}
  <2>1. IsWriter(r) => r \in WriteHolders(k)
    BY <1>1 DEF WriteHolders
  <2>. QED  BY <2>1 DEF LockExclusion
<1>6. CountersExact'
  BY <1>2, <1>4, <1>5 DEF CountersExact, releaseLock, TypeOK
<1>7. TypeOK'
  <2>1. ~IsWriter(r) => readers[k] - 1 \in Nat
    BY <1>4 DEF CountersExact
  <2>. QED  BY <2>1 DEF TypeOK, releaseLock, callVars
<1>8. LockExclusion'
  BY <1>2 DEF LockExclusion
<1>9. ReferencesExact' /\ BorrowedLeaseLive' /\ BorrowingWellFounded'
  BY BorrowingFrame DEF releaseLock, callVars
<1>. QED  BY <1>3, <1>6, <1>7, <1>8, <1>9

\* cancelReservedWrite: an unused reservation stops blocking readers.
LEMMA CancelReservedWriteKeeps ==
  ASSUME Inv, NEW r \in Req, NEW k \in Key, cancelReservedWrite(r, k)
  PROVE  Inv'
<1>. USE DEF Inv
<1>1. k \in resv[r]
  BY DEF cancelReservedWrite
<1>2. \A j : /\ ReadHolders(j)' = ReadHolders(j) /\ WriteHolders(j)' = WriteHolders(j)
             /\ Users(j)' = Users(j)
             /\ Reservers(j)' = IF j = k THEN Reservers(j) \ {r} ELSE Reservers(j)
  BY DEF cancelReservedWrite, TypeOK, callVars, ReadHolders, WriteHolders, Reservers,
         Users, IsWriter
<1>3. Shapes'
  BY DEF Shapes, Shape, TypeOK, cancelReservedWrite, callVars, IsWriter
<1>4. /\ Cardinality(Reservers(k) \ {r}) = Cardinality(Reservers(k)) - 1
      /\ Cardinality(Reservers(k) \ {r}) \in Nat
  <2>1. Reservers(k) \in SUBSET Req /\ r \in Reservers(k) /\ Reservers(k) \ {r} \in SUBSET Req
    BY <1>1 DEF Reservers
  <2>. QED  BY <2>1, CallSets
<1>5. CountersExact'
  BY <1>2, <1>4 DEF CountersExact, cancelReservedWrite, TypeOK
<1>6. TypeOK'
  <2>1. waitingWriters[k] - 1 \in Nat
    BY <1>4 DEF CountersExact
  <2>. QED  BY <2>1 DEF TypeOK, cancelReservedWrite, callVars
<1>7. LockExclusion'
  BY <1>2 DEF LockExclusion
<1>8. ReferencesExact' /\ BorrowedLeaseLive' /\ BorrowingWellFounded'
  BY BorrowingFrame DEF cancelReservedWrite, callVars
<1>. QED  BY <1>3, <1>5, <1>6, <1>7, <1>8

\* The barrier callback of a call moves that call on and cancels waiting effects.
LEMMA BarrierKeeps ==
  ASSUME Inv, NEW r \in Req, BarrierCancel(r) \/ BarrierReturn(r) \/ BarrierFail(r)
  PROVE  Inv'
<1>. USE DEF Inv
<1>1. /\ pc[r] \in {"barrier", "draining"} /\ op[r] # "effect"
      /\ pc' = [pc EXCEPT ![r] = pc'[r]] /\ pc'[r] \in {"draining", "locking", "unwinding"}
      /\ UNCHANGED <<lockVars, references, callVars, todo, held, resv>>
  BY DEF BarrierCancel, BarrierReturn, BarrierFail, Shapes, Shape, IsWriter, TypeOK
<1>2. cancelled' \in SUBSET Req
  BY ReqAssumption DEF BarrierCancel, BarrierReturn, BarrierFail, TypeOK, Covered, Req
<1>3. TypeOK'
  BY <1>1, <1>2 DEF TypeOK, PCs, lockVars, callVars
<1>4. Shapes'
  BY <1>1 DEF Shapes, Shape, TypeOK, lockVars, callVars, IsWriter
<1>5. \A k : /\ ReadHolders(k)' = ReadHolders(k) /\ WriteHolders(k)' = WriteHolders(k)
             /\ Reservers(k)' = Reservers(k) /\ Users(k)' = Users(k)
  BY <1>1 DEF ReadHolders, WriteHolders, Reservers, Users, IsWriter, callVars
<1>6. CountersExact'
  BY <1>1, <1>5 DEF CountersExact, lockVars
<1>7. LockExclusion'
  BY <1>5 DEF LockExclusion
<1>8. ReferencesExact' /\ BorrowedLeaseLive' /\ BorrowingWellFounded'
  BY <1>1, BorrowingFrame DEF callVars, TypeOK
<1>. QED  BY <1>3, <1>4, <1>6, <1>7, <1>8

\* The owner releases: its locks go unless somebody still borrows the lease.
LEMMA ReleaseKeeps ==
  ASSUME Inv, NEW r \in Req, Release(r)
  PROVE  Inv'
<1>. USE DEF Inv
<1>1. /\ pc[r] = "held" /\ pc' = [pc EXCEPT ![r] = pc'[r]]
      /\ pc'[r] \in {"unwinding", "retained"} /\ (pc'[r] = "retained" => op[r] = "effect")
      /\ UNCHANGED <<lockVars, callVars, todo, held, resv, cancelled>>
  BY DEF Release, TypeOK
<1>2. \A s : Borrowers(s)' = Borrowers(s)
  BY <1>1 DEF Borrowers, callVars
<1>3. Borrowers(r) \in SUBSET Req
  BY DEF Borrowers
<1>4. ASSUME op[r] = "effect"
      PROVE  TypeOK' /\ ReferencesExact' /\ BorrowedLeaseLive'
  <2>1. /\ references[r] = Cardinality(Borrowers(r)) + 1
        /\ references' = [references EXCEPT ![r] = @ - 1]
        /\ pc'[r] = IF references[r] = 1 THEN "unwinding" ELSE "retained"
    BY <1>1, <1>4 DEF Release, lastReference, ReferencesExact, TypeOK
  <2>2. /\ references'[r] = Cardinality(Borrowers(r)) /\ references'[r] \in Nat
        /\ pc'[r] = "unwinding" <=> Borrowers(r) = {}
    BY <2>1, <1>3, CallSets DEF TypeOK
  <2>3. ReferencesExact'
    BY <1>1, <1>2, <2>1, <2>2 DEF ReferencesExact, TypeOK, callVars
  <2>4. BorrowedLeaseLive'
    <3>1. pc'[r] = "unwinding" => \A s \in Req : parent[s] # r
      BY <2>2 DEF Borrowers
    <3>2. \A s \in Req : Live(s) /\ (s # r \/ pc'[r] # "unwinding") => Live(s)'
      BY <1>1, <1>4 DEF Live, TypeOK, callVars
    <3>. QED  BY <1>1, <3>1, <3>2, ReqAssumption DEF BorrowedLeaseLive, TypeOK, callVars
  <2>5. TypeOK'
    BY <1>1, <2>1, <2>2 DEF TypeOK, PCs, lockVars, callVars
  <2>. QED  BY <2>3, <2>4, <2>5
<1>5. ASSUME op[r] # "effect"
      PROVE  TypeOK' /\ ReferencesExact' /\ BorrowedLeaseLive'
  <2>1. UNCHANGED references
    BY <1>5 DEF Release
  <2>2. ReferencesExact' /\ BorrowedLeaseLive'
    BY <1>1, <1>5, <2>1, BorrowingFrame DEF TypeOK, callVars
  <2>3. TypeOK'
    BY <1>1, <2>1 DEF TypeOK, PCs, lockVars, callVars
  <2>. QED  BY <2>2, <2>3
<1>6. TypeOK' /\ ReferencesExact' /\ BorrowedLeaseLive'
  BY <1>4, <1>5
<1>7. Shapes'
  <2>1. Shape(r)'
    BY <1>1 DEF Shapes, Shape, TypeOK, callVars, IsWriter
  <2>2. \A s \in Req \ {r} : Shape(s)'
    BY <1>1 DEF Shapes, Shape, TypeOK, callVars, IsWriter
  <2>. QED  BY <2>1, <2>2 DEF Shapes
<1>8. \A k : /\ ReadHolders(k)' = ReadHolders(k) /\ WriteHolders(k)' = WriteHolders(k)
             /\ Reservers(k)' = Reservers(k) /\ Users(k)' = Users(k)
  BY <1>1 DEF ReadHolders, WriteHolders, Reservers, Users, IsWriter, callVars
<1>9. CountersExact'
  BY <1>1, <1>8 DEF CountersExact, lockVars
<1>10. LockExclusion'
  BY <1>8 DEF LockExclusion
<1>11. BorrowingWellFounded'
  BY <1>1 DEF BorrowingWellFounded, callVars
<1>. QED  BY <1>6, <1>7, <1>9, <1>10, <1>11

\* The deleted scope lock is one that nobody holds or waits for.
LEMMA ReleaseScopeLocksKeeps ==
  ASSUME Inv, NEW r \in Req, releaseScopeLocks(r)
  PROVE  Inv'
<1>. USE DEF Inv
<1>1. pc[r] = "unwinding" /\ held[r] = {} /\ resv[r] = {} /\ ~Live(r)
  BY DEF releaseScopeLocks, Live
<1>2. \A s \in Req : parent[s] # r
  BY <1>1, OnlyLiveLends
<1>3. /\ \A j : /\ ReadHolders(j)' = ReadHolders(j) /\ WriteHolders(j)' = WriteHolders(j)
                /\ Reservers(j)' = Reservers(j)
      /\ \A j : Users(j)' = Users(j) \ {r}
  <2>1. /\ held' = held /\ resv' = resv /\ scope' = [scope EXCEPT ![r] = {}]
        /\ \A s \in Req : held[s] # {} => op'[s] = op[s]
    BY <1>1 DEF releaseScopeLocks, Forget, TypeOK
  <2>2. \A j : ReadHolders(j)' = ReadHolders(j) /\ WriteHolders(j)' = WriteHolders(j)
    BY <2>1, HoldersFrame
  <2>3. \A j : Reservers(j)' = Reservers(j) /\ Users(j)' = Users(j) \ {r}
    BY <2>1 DEF Reservers, Users, TypeOK
  <2>. QED  BY <2>2, <2>3
<1>4. /\ \A s \in Req \ {r} : /\ pc'[s] = pc[s] /\ op'[s] = op[s] /\ cx'[s] = cx[s]
                              /\ ordinary'[s] = ordinary[s] /\ scope'[s] = scope[s]
                              /\ todo'[s] = todo[s]
      /\ parent' = parent /\ references' = references /\ held' = held /\ resv' = resv
      /\ scope'[r] = {} /\ todo'[r] = {}
      /\ pc'[r] = IF parent[r] = NoReq THEN "done" ELSE "detaching"
      /\ parent[r] # NoReq => op'[r] = op[r] /\ cx'[r] = cx[r] /\ ordinary'[r] = ordinary[r]
  BY DEF releaseScopeLocks, Forget, TypeOK
<1>5. Shapes'
  <2>1. Shape(r)'
    BY <1>1, <1>4 DEF Shape
  <2>2. \A s \in Req \ {r} : Shape(s)'
    BY <1>4 DEF Shapes, Shape, IsWriter
  <2>. QED  BY <2>1, <2>2 DEF Shapes
<1>6. \A j \in Key : Users(j) \in SUBSET Req /\ Users(j) \ {r} \in SUBSET Req
  BY DEF Users
<1>7. \A j \in scope[r] : /\ j \in Key /\ r \in Users(j)
                          /\ Cardinality(Users(j) \ {r}) = Cardinality(Users(j)) - 1
                          /\ Cardinality(Users(j) \ {r}) \in Nat
  <2>1. \A j \in scope[r] : j \in Key /\ r \in Users(j)
    BY DEF Users, TypeOK
  <2>. QED  BY <2>1, <1>6, CallSets
<1>8. \A j \in Freed(scope[r]) :
        ReadHolders(j) = {} /\ WriteHolders(j) = {} /\ Reservers(j) = {}
  <2>1. \A j \in Freed(scope[r]) : Users(j) \ {r} = {}
    <3>1. \A j \in Freed(scope[r]) : j \in scope[r] /\ scopeRefs[j] = 1
      BY DEF Freed
    <3>2. \A j \in Freed(scope[r]) : Cardinality(Users(j) \ {r}) = 0
      BY <3>1, <1>7 DEF CountersExact
    <3>. QED  BY <3>1, <3>2, <1>6, <1>7, CallSets
  <2>2. \A j \in Freed(scope[r]), s \in Req : j \in scope[s] => s = r
    BY <2>1 DEF Users
  <2>3. \A j \in Freed(scope[r]), s \in Req : j \notin held[s] /\ j \notin resv[s]
    BY <2>2, <1>1 DEF Shapes, Shape
  <2>. QED  BY <2>3 DEF ReadHolders, WriteHolders, Reservers
<1>9. /\ readers' = readers /\ writer' = writer /\ waitingWriters' = waitingWriters
  <2>1. Freed(scope[r]) \subseteq Key /\ Cardinality({}) = 0
    BY FS_EmptySet DEF Freed, TypeOK
  <2>2. \A j \in Freed(scope[r]) : readers[j] = 0 /\ writer[j] = FALSE /\ waitingWriters[j] = 0
    BY <1>8, <2>1 DEF CountersExact, TypeOK
  <2>. QED  BY <2>1, <2>2 DEF releaseScopeLocks, TypeOK
<1>10. CountersExact'
  <2>1. \A j \in Key : j \notin scope[r] => Users(j) \ {r} = Users(j)
    BY DEF Users
  <2>2. \A j \in Key : scopeRefs'[j] = Cardinality(Users(j)')
    BY <1>3, <1>7, <2>1 DEF releaseScopeLocks, CountersExact, TypeOK
  <2>. QED  BY <1>3, <1>9, <2>2 DEF CountersExact
<1>11. TypeOK'
  <2>1. \A j \in scope[r] : scopeRefs[j] - 1 \in Nat
    BY <1>7 DEF CountersExact
  <2>2. NoContext \in Contexts
    BY ContextAssumption DEF NoContext
  <2>3. scopeRefs' \in [Key -> Nat]
    BY <2>1 DEF TypeOK, releaseScopeLocks
  <2>4. /\ pc' \in [Req -> PCs] /\ op' \in [Req -> Ops] /\ cx' \in [Req -> Contexts]
        /\ ordinary' \in [Req -> BOOLEAN] /\ cancelled' \in SUBSET Req
    <3>1. CASE parent[r] = NoReq
      <4>1. Forget(r) /\ pc' = [pc EXCEPT ![r] = "done"]
        BY <3>1 DEF releaseScopeLocks
      <4>2. pc' \in [Req -> PCs]
        BY <4>1 DEF TypeOK, PCs
      <4>3. /\ op' \in [Req -> Ops] /\ cx' \in [Req -> Contexts]
            /\ ordinary' \in [Req -> BOOLEAN] /\ cancelled' \in SUBSET Req
        BY <2>2, <4>1 DEF Forget, TypeOK, Ops
      <4>. QED  BY <4>2, <4>3
    <3>2. CASE parent[r] # NoReq
      BY <3>2 DEF TypeOK, releaseScopeLocks, PCs, Ops
    <3>. QED  BY <3>1, <3>2
  <2>5. scope' \in [Req -> SUBSET Key] /\ todo' \in [Req -> SUBSET Key]
    BY DEF TypeOK, releaseScopeLocks
  <2>. QED  BY <2>3, <2>4, <2>5, <1>4, <1>9 DEF TypeOK
<1>12. ReferencesExact'
  <2>1. \A s : Borrowers(s)' = Borrowers(s)
    BY <1>4 DEF Borrowers
  <2>. QED  BY <1>1, <1>4, <2>1 DEF ReferencesExact
<1>13. LockExclusion'
  BY <1>3 DEF LockExclusion
<1>14. BorrowedLeaseLive'
  BY <1>1, <1>2, <1>4, ReqAssumption DEF BorrowedLeaseLive, Live, TypeOK
<1>15. BorrowingWellFounded'
  BY <1>4 DEF BorrowingWellFounded
<1>. QED  BY <1>5, <1>10, <1>11, <1>12, <1>13, <1>14, <1>15

\* releaseReference: the lender unlocks with the last reference and no earlier.
LEMMA ReleaseReferenceKeeps ==
  ASSUME Inv, NEW r \in Req, releaseReference(r)
  PROVE  Inv'
<1>. USE ReqAssumption DEF Inv
<1>0. PICK l \in Req : l = parent[r]
  BY DEF releaseReference, Shapes, Shape, TypeOK
<1>1. /\ pc[r] = "detaching" /\ ~Live(r) /\ l # r /\ Live(l)
      /\ scope[r] = {} /\ held[r] = {} /\ resv[r] = {} /\ todo[r] = {}
  BY <1>0 DEF releaseReference, Shapes, Shape, Live, TypeOK, BorrowedLeaseLive
<1>2. /\ parent' = [parent EXCEPT ![r] = NoReq]
      /\ references' = [references EXCEPT ![l] = @ - 1]
      /\ \A s \in Req \ {r} : /\ op'[s] = op[s] /\ cx'[s] = cx[s]
                              /\ ordinary'[s] = ordinary[s] /\ (s # l => pc'[s] = pc[s])
      /\ pc'[r] = "done" /\ pc'[l] = IF references[l] = 1 THEN "unwinding" ELSE pc[l]
      /\ op'[r] = "none"
      /\ UNCHANGED <<scopeRefs, readers, writer, waitingWriters, scope, todo, held, resv>>
  BY <1>0, <1>1 DEF releaseReference, Forget, TypeOK, lastReference, lockVars
<1>3. /\ Borrowers(l)' = Borrowers(l) \ {r} /\ r \in Borrowers(l)
      /\ \A s \in Req \ {l} : Borrowers(s)' = Borrowers(s)
      /\ Borrowers(l) \in SUBSET Req /\ Borrowers(l) \ {r} \in SUBSET Req
  BY <1>0, <1>1, <1>2 DEF Borrowers, TypeOK
<1>4. /\ Cardinality(Borrowers(l) \ {r}) = Cardinality(Borrowers(l)) - 1
      /\ Cardinality(Borrowers(l) \ {r}) \in Nat /\ Cardinality(Borrowers(l)) \in Nat
      /\ Cardinality(Borrowers(l) \ {r}) = 0 <=> Borrowers(l) \ {r} = {}
  BY <1>3, CallSets
<1>5. /\ op[l] = "effect" /\ pc[l] \in {"held", "retained"}
      /\ references[l] = Cardinality(Borrowers(l)) + (IF pc[l] = "held" THEN 1 ELSE 0)
  BY <1>1 DEF Live, ReferencesExact
<1>6. pc'[l] = "unwinding" <=> pc[l] = "retained" /\ Borrowers(l) \ {r} = {}
  BY <1>2, <1>4, <1>5 DEF TypeOK
<1>7. TypeOK'
  <2>1. references[l] - 1 \in Nat
    BY <1>4, <1>5 DEF TypeOK
  <2>2. NoContext \in Contexts
    BY ContextAssumption DEF NoContext
  <2>3. references' \in [Req -> Nat] /\ parent' \in [Req -> Req \cup {NoReq}]
    BY <1>1, <1>2, <2>1 DEF TypeOK
  <2>4. pc' \in [Req -> PCs]
    BY <1>0, <1>1, <1>5 DEF releaseReference, TypeOK, PCs
  <2>. QED  BY <1>2, <2>2, <2>3, <2>4 DEF releaseReference, Forget, TypeOK, Ops
<1>8. Shapes'
  <2>1. Shape(r)' /\ Shape(l)'
    BY <1>1, <1>2, <1>5 DEF Shapes, Shape, TypeOK, IsWriter
  <2>2. \A s \in Req \ {r, l} : Shape(s)'
    BY <1>2 DEF Shapes, Shape, TypeOK, IsWriter
  <2>. QED  BY <2>1, <2>2 DEF Shapes
<1>9. \A k : /\ ReadHolders(k)' = ReadHolders(k) /\ WriteHolders(k)' = WriteHolders(k)
             /\ Reservers(k)' = Reservers(k) /\ Users(k)' = Users(k)
  BY <1>1, <1>2, HoldersFrame DEF Reservers, Users
<1>10. CountersExact'
  BY <1>2, <1>9 DEF CountersExact
<1>11. LockExclusion'
  BY <1>9 DEF LockExclusion
<1>12. ReferencesExact'
  <2>1. \A s \in Req \ {l, r} :
          references'[s] = Cardinality(Borrowers(s)')
                             + (IF op'[s] = "effect" /\ pc'[s] = "held" THEN 1 ELSE 0)
    BY <1>2, <1>3 DEF ReferencesExact, TypeOK
  <2>2. references'[l] = Cardinality(Borrowers(l)')
                             + (IF op'[l] = "effect" /\ pc'[l] = "held" THEN 1 ELSE 0)
    BY <1>1, <1>2, <1>3, <1>4, <1>5, <1>6 DEF TypeOK
  <2>3. references'[r] = Cardinality(Borrowers(r)')
                             + (IF op'[r] = "effect" /\ pc'[r] = "held" THEN 1 ELSE 0)
    BY <1>1, <1>2, <1>3 DEF ReferencesExact, TypeOK
  <2>. QED  BY <2>1, <2>2, <2>3 DEF ReferencesExact
<1>13. BorrowedLeaseLive'
  <2>1. \A s \in Req : parent'[s] # NoReq => s # r /\ parent'[s] = parent[s] /\ Live(parent[s])
    BY <1>1, <1>2 DEF TypeOK, BorrowedLeaseLive
  <2>2. \A s \in Req : parent'[s] = l => pc'[l] # "unwinding"
    BY <1>6, <2>1 DEF Borrowers
  <2>3. \A s \in Req \ {r} : Live(s) /\ (s = l => pc'[l] # "unwinding") => Live(s)'
    BY <1>2, <1>5 DEF Live
  <2>4. \A s \in Req : parent'[s] # NoReq => parent'[s] # r /\ parent'[s] \in Req
    BY <1>1, <2>1 DEF TypeOK
  <2>5. \A s \in Req : parent'[s] # NoReq => Live(parent[s])'
    <3>. SUFFICES ASSUME NEW s \in Req, NEW m \in Req, parent'[s] # NoReq, parent'[s] = m
                  PROVE  Live(m)'
      BY <2>4
    <3>1. Live(m) /\ m # r
      BY <2>1, <2>4
    <3>. QED  BY <3>1, <2>2, <2>3
  <2>. QED  BY <1>2, <2>1, <2>4, <2>5 DEF BorrowedLeaseLive
<1>14. BorrowingWellFounded'
  BY <1>2 DEF BorrowingWellFounded, TypeOK
<1>. QED  BY <1>7, <1>8, <1>10, <1>11, <1>12, <1>13, <1>14

-------------------------------------------------------------------------------
\* Every step of the gate, whoever takes it, keeps the inductive invariant.
LEMMA StepKeeps == Inv /\ [Next]_vars => Inv'
<1>. SUFFICES ASSUME Inv, [Next]_vars PROVE Inv'
  OBVIOUS
<1>1. CASE \E r \in Req : ReadCall(r) \/ WriteCall(r)
  BY <1>1, CallBegins, BeginKeeps DEF Inv
<1>2. CASE \E r \in Req : Proceed(r) \/ GiveUp(r) \/ Release(r) \/ BarrierFail(r)
  BY <1>2, AcquireReadKeeps, ReserveWriteKeeps, AcquireReservedWriteKeeps, GiveUpKeeps,
     ReleaseLockKeeps, CancelReservedWriteKeeps, BarrierKeeps, ReleaseKeeps,
     ReleaseScopeLocksKeeps, ReleaseReferenceKeeps DEF Proceed
<1>3. CASE UNCHANGED vars
  <2>1. \A k : /\ ReadHolders(k)' = ReadHolders(k) /\ WriteHolders(k)' = WriteHolders(k)
               /\ Reservers(k)' = Reservers(k) /\ Users(k)' = Users(k)
    BY <1>3 DEF vars, ReadHolders, WriteHolders, Reservers, Users, IsWriter
  <2>2. CountersExact' /\ LockExclusion'
    BY <1>3, <2>1 DEF vars, Inv, CountersExact, LockExclusion
  <2>3. ReferencesExact' /\ BorrowedLeaseLive' /\ BorrowingWellFounded'
    BY <1>3, BorrowingFrame DEF vars
  <2>4. TypeOK' /\ Shapes'
    BY <1>3 DEF vars, Inv, TypeOK, Shapes, Shape, IsWriter
  <2>. QED  BY <2>2, <2>3, <2>4 DEF Inv
<1>. QED  BY <1>1, <1>2, <1>3 DEF Next, Finished, Req

\* The inductive invariant holds in every reachable state of gate.go's gate.
THEOREM Invariant == Spec => []Inv
BY Initially, StepKeeps, PTL DEF Spec


\* The state of every call and lock is well formed in every reachable state,
\* for any number of calls, threads and workspaces (gate.go as a whole).
THEOREM TypeCorrect == Spec => []TypeOK
BY Invariant, PTL DEF Inv

\* scopeLock: readers and writers of a key exclude each other, and no key ever
\* has two writers, whatever is cancelled or fails on the way.
THEOREM Exclusion == Spec => []LockExclusion
BY Invariant, PTL DEF Inv

\* No reader, writer, reservation or reference of a scopeLock leaks: the four
\* counters say exactly who holds, waits for and refers to it.
THEOREM Accounting == Spec => []CountersExact
BY Invariant, PTL DEF Inv

\* A borrowed effectLease is live for as long as somebody borrows it, and its
\* reference count is exact: it is unlocked neither early nor never.
THEOREM Borrowing == Spec => [](BorrowedLeaseLive /\ ReferencesExact)
BY Invariant, PTL DEF Inv

-------------------------------------------------------------------------------
\* A live effect without a lender holds its workspace and its thread to read;
\* one with a lender holds its thread.
LEMMA LiveEffectHolds ==
  ASSUME Inv, NEW r \in Req, Live(r)
  PROVE  /\ r \in ReadHolders(ThreadKey(cx[r].thread))
         /\ parent[r] = NoReq => r \in ReadHolders(WorkspaceKey(cx[r].workspace))
BY DEF Inv, Live, Shapes, Shape, gateScope, ReadHolders, IsWriter

\* Among the live effects of one workspace some one has no lender: its lender
\* would be a live effect of that workspace too, and borrowing is well founded.
LEMMA WorkspaceRoot ==
  ASSUME Inv, NEW r \in Req, Live(r)
  PROVE  \E s \in Req : /\ Live(s) /\ parent[s] = NoReq
                        /\ cx[s].workspace = cx[r].workspace
<1>. DEFINE S == { s \in Req : Live(s) /\ cx[s].workspace = cx[r].workspace }
<1>1. S \in SUBSET Req /\ r \in S
  OBVIOUS
<1>2. PICK s \in S : parent[s] \notin S
  BY <1>1 DEF Inv, BorrowingWellFounded
<1>3. parent[s] # NoReq => parent[s] \in S
  BY <1>2 DEF Inv, BorrowedLeaseLive, TypeOK
<1>. QED  BY <1>2, <1>3

\* A live effect holds, itself or through its lenders, a reader of its workspace
\* and one of its thread, and a key with a reader has no writer.
LEMMA LiveEffectExcludes == Inv => EffectExcludesTransition
<1>. SUFFICES ASSUME Inv, NEW r \in Req, Live(r)
              PROVE  /\ WriteHolders(WorkspaceKey(cx[r].workspace)) = {}
                     /\ WriteHolders(ThreadKey(cx[r].thread)) = {}
  BY DEF EffectExcludesTransition
<1>1. /\ WorkspaceKey(cx[r].workspace) \in Key /\ ThreadKey(cx[r].thread) \in Key
  BY ContextKeys DEF Inv, TypeOK
<1>2. PICK s \in Req : Live(s) /\ parent[s] = NoReq /\ cx[s].workspace = cx[r].workspace
  BY WorkspaceRoot
<1>3. /\ ReadHolders(WorkspaceKey(cx[r].workspace)) # {}
      /\ ReadHolders(ThreadKey(cx[r].thread)) # {}
  BY <1>2, LiveEffectHolds
<1>. QED  BY <1>1, <1>3 DEF Inv, LockExclusion

\* AcquireEffect's promise, however deeply effects are nested and in whatever
\* order owners and borrowers release: no transition owns the workspace or the
\* thread of an effect that is live.
THEOREM EffectSafety == Spec => []EffectExcludesTransition
BY Invariant, LiveEffectExcludes, PTL

-------------------------------------------------------------------------------
(***************************************************************************)
(* The fence of a barrier.                                                 *)
(***************************************************************************)
\* From its last reservation on, a barrier call holds or reserves its whole
\* scope, whatever the barrier does meanwhile.
Fencing(b) ==
  op[b] = "barrier" /\ pc[b] \in {"reserving", "barrier", "draining", "locking", "held"} =>
    /\ scope[b] \subseteq held[b] \cup todo[b]
    /\ pc[b] # "reserving" => todo[b] \subseteq resv[b]
Fences == \A b \in Req : Fencing(b)

\* A step that leaves the keys of a call alone and does not put it back behind
\* a fence keeps its fence.
LEMMA FencingFrame ==
  ASSUME NEW b \in Req, Fencing(b), op'[b] = op[b], scope'[b] = scope[b],
         held'[b] = held[b], todo'[b] = todo[b], resv'[b] = resv[b],
         \/ pc'[b] = pc[b]
         \/ pc'[b] \in {"retained", "unwinding", "detaching", "done"}
         \/ pc[b] \in {"barrier", "draining"} /\ pc'[b] \in {"draining", "locking"}
  PROVE  Fencing(b)'
BY DEF Fencing

\* Every step keeps every fence: only the call itself moves its keys, and its
\* loops add a reservation before they drop a key from what is still to do.
LEMMA FencesKept == Inv /\ Fences /\ [Next]_vars => Fences'
<1>. SUFFICES ASSUME Inv, Fences, [Next]_vars, NEW b \in Req
              PROVE  Fencing(b)'
  BY DEF Fences
<1>. USE DEF Inv
<1>1. ASSUME NEW r \in Req, ReadCall(r) \/ WriteCall(r)
      PROVE  Fencing(b)'
  <2>1. PICK o, c, ord, S, l, first :
          Begin(r, o, c, ord, S, l, first) /\ Admitted(r, o, c, ord, S, l, first)
    BY <1>1, CallBegins
  <2>2. CASE b = r
    <3>1. /\ op'[r] = o /\ pc'[r] = first /\ scope'[r] = S /\ todo'[r] = S
      BY <2>1 DEF Begin, TypeOK
    <3>2. o = "barrier" => first = "reserving"
      BY ZenonT(60), <1>1, <2>1, <3>1 DEF ReadCall, WriteCall, AcquireEffect, RetainEffect,
         AcquireNestedEffect, AcquireTransitionScopeRead, RetainScopeRead, AcquireTransition,
         AcquireNestedTransition, AcquireDelegatedChildTransitionScope,
         AcquireTransitionScopeWithBarrier, AcquireWorkspaceRebindWithBarrier,
         AcquireWorkspaceRebindNoBarrier, AcquireWorkspaceRebind, Begin, TypeOK
    <3>. QED  BY <2>2, <3>1, <3>2 DEF Fencing
  <2>3. CASE b # r
    <3>1. /\ op'[b] = op[b] /\ pc'[b] = pc[b] /\ scope'[b] = scope[b]
          /\ held'[b] = held[b] /\ todo'[b] = todo[b] /\ resv'[b] = resv[b]
      BY <2>1, <2>3 DEF Begin, TypeOK
    <3>. QED  BY <3>1, FencingFrame DEF Fences
  <2>. QED  BY <2>2, <2>3
<1>2. ASSUME NEW r \in Req, NEW k \in Key,
             acquireRead(r, k) \/ reserveWrite(r, k) \/ acquireReservedWrite(r, k)
      PROVE  Fencing(b)'
  <2>1. CASE b # r
    <3>1. /\ op'[b] = op[b] /\ pc'[b] = pc[b] /\ scope'[b] = scope[b]
          /\ held'[b] = held[b] /\ todo'[b] = todo[b] /\ resv'[b] = resv[b]
      BY <1>2, <2>1 DEF acquireRead, reserveWrite, acquireReservedWrite, Granted, callVars, TypeOK
    <3>. QED  BY <3>1, FencingFrame DEF Fences
  <2>2. CASE b = r /\ acquireRead(r, k)
    <3>1. op'[b] # "barrier"
      BY <2>2 DEF acquireRead, callVars, IsWriter
    <3>. QED  BY <3>1 DEF Fencing
  <2>3. CASE b = r /\ reserveWrite(r, k)
    <3>1. /\ op'[b] = op[b] /\ scope'[b] = scope[b] /\ held'[b] = held[b] /\ todo'[b] = todo[b]
          /\ resv'[b] = resv[b] \cup {k} /\ pc[b] \in {"locking", "reserving"}
      BY <2>3 DEF reserveWrite, callVars, TypeOK
    <3>2. /\ pc[b] = "locking" => pc'[b] = "locking"
          /\ pc[b] = "reserving" /\ pc'[b] # "reserving" => todo[b] \subseteq resv[b] \cup {k}
      BY <2>3 DEF reserveWrite, TypeOK
    <3>. QED  BY <3>1, <3>2 DEF Fences, Fencing
  <2>4. CASE b = r /\ acquireReservedWrite(r, k)
    <3>1. /\ op'[b] = op[b] /\ scope'[b] = scope[b] /\ pc[b] = "locking"
          /\ held'[b] = held[b] \cup {k} /\ todo'[b] = todo[b] \ {k} /\ resv'[b] = resv[b] \ {k}
      BY <2>4 DEF acquireReservedWrite, Granted, callVars, TypeOK
    <3>. QED  BY <3>1 DEF Fences, Fencing
  <2>. QED  BY <1>2, <2>1, <2>2, <2>3, <2>4
<1>3. ASSUME NEW r \in Req, NEW k \in Key, releaseLock(r, k) \/ cancelReservedWrite(r, k)
      PROVE  Fencing(b)'
  <2>1. pc[r] = "unwinding" /\ UNCHANGED <<pc, op, scope>>
    BY <1>3 DEF releaseLock, cancelReservedWrite, callVars
  <2>2. b # r => held'[b] = held[b] /\ todo'[b] = todo[b] /\ resv'[b] = resv[b]
    BY <1>3 DEF releaseLock, cancelReservedWrite, TypeOK
  <2>. QED  BY <2>1, <2>2, FencingFrame DEF Fences, Fencing
<1>4. ASSUME NEW r \in Req, GiveUp(r) \/ releaseScopeLocks(r)
      PROVE  Fencing(b)'
  <2>1. pc'[r] \in {"unwinding", "detaching", "done"}
    <3>1. CASE GiveUp(r)
      BY <3>1 DEF GiveUp, TypeOK
    <3>2. CASE releaseScopeLocks(r)
      BY <3>2 DEF releaseScopeLocks, TypeOK
    <3>. QED  BY <1>4, <3>1, <3>2
  <2>2. b # r => /\ op'[b] = op[b] /\ scope'[b] = scope[b] /\ held'[b] = held[b]
                 /\ todo'[b] = todo[b] /\ resv'[b] = resv[b] /\ pc'[b] = pc[b]
    <3>1. CASE GiveUp(r)
      BY <3>1 DEF GiveUp, TypeOK, callVars
    <3>2. CASE releaseScopeLocks(r)
      BY <3>2 DEF releaseScopeLocks, Forget, TypeOK
    <3>. QED  BY <1>4, <3>1, <3>2
  <2>. QED  BY <2>1, <2>2, FencingFrame DEF Fences, Fencing
<1>5. ASSUME NEW r \in Req, releaseReference(r)
      PROVE  Fencing(b)'
  <2>1. PICK l \in Req : l = parent[r] /\ Live(l)
    BY <1>5 DEF releaseReference, Shapes, Shape, TypeOK, BorrowedLeaseLive
  <2>2. /\ r # l /\ pc'[r] = "done" /\ pc'[l] \in {pc[l], "unwinding"}
        /\ \A s \in Req \ {r} : op'[s] = op[s] /\ (s # l => pc'[s] = pc[s])
        /\ UNCHANGED <<scope, held, todo, resv>>
    BY <1>5, <2>1 DEF releaseReference, Forget, Live, TypeOK
  <2>. QED  BY <2>2, FencingFrame DEF Fences, Fencing
<1>6. ASSUME NEW r \in Req, BarrierCancel(r) \/ BarrierReturn(r) \/ BarrierFail(r) \/ Release(r)
      PROVE  Fencing(b)'
  <2>1. /\ op'[b] = op[b] /\ scope'[b] = scope[b] /\ held'[b] = held[b]
        /\ todo'[b] = todo[b] /\ resv'[b] = resv[b]
    BY <1>6 DEF BarrierCancel, BarrierReturn, BarrierFail, Release, callVars
  <2>2. \/ pc'[b] = pc[b] \/ pc'[b] \in {"retained", "unwinding"}
        \/ pc[b] \in {"barrier", "draining"} /\ pc'[b] \in {"draining", "locking"}
    BY <1>6 DEF BarrierCancel, BarrierReturn, BarrierFail, Release, TypeOK
  <2>. QED  BY <2>1, <2>2, FencingFrame DEF Fences
<1>7. CASE UNCHANGED vars
  BY <1>7, FencingFrame DEF Fences, vars
<1>. QED  BY <1>1, <1>2, <1>3, <1>4, <1>5, <1>6, <1>7 DEF Next, Proceed, Finished, Req

\* A reader enters a key only past a lock that nobody holds to write and nobody
\* waits for: the fence is there, so no step lets a reader through it.
LEMMA FenceHolds ==
  ASSUME Inv, Fences, [Next]_vars, NEW b \in Req, NEW r \in Req,
         op[b] = "barrier", pc[b] \in {"barrier", "draining", "locking", "held"}, ~IsWriter(r)
  PROVE  (held'[r] \ held[r]) \cap scope[b] = {}
<1>. SUFFICES ASSUME NEW k \in held'[r] \ held[r]
              PROVE  k \notin scope[b]
  OBVIOUS
<1>. USE DEF Inv
<1>1. k \in Key /\ acquireRead(r, k)
  <2>1. ASSUME NEW s \in Req, NEW j \in Key, acquireRead(s, j)
        PROVE  k \in Key /\ acquireRead(r, k)
    <3>1. held' = [held EXCEPT ![s] = @ \cup {j}]
      BY <2>1 DEF acquireRead, Granted
    <3>2. s = r /\ j = k
      BY <3>1 DEF TypeOK
    <3>. QED  BY <2>1, <3>2
  <2>2. CASE \E s \in Req, j \in Key : acquireReservedWrite(s, j)
    BY <2>2 DEF acquireReservedWrite, Granted, TypeOK
  <2>3. CASE \E s \in Req, j \in Key : releaseLock(s, j)
    BY <2>3 DEF releaseLock, TypeOK
  <2>4. CASE \E s \in Req, j \in Key : reserveWrite(s, j) \/ cancelReservedWrite(s, j)
    BY <2>4 DEF reserveWrite, cancelReservedWrite
  <2>5. CASE \E s \in Req : ReadCall(s) \/ WriteCall(s)
    BY <2>5, CallBegins DEF Begin
  <2>6. CASE \E s \in Req : GiveUp(s) \/ BarrierCancel(s) \/ BarrierReturn(s) \/ BarrierFail(s)
    BY <2>6 DEF GiveUp, BarrierCancel, BarrierReturn, BarrierFail
  <2>7. CASE \E s \in Req : Release(s) \/ releaseScopeLocks(s) \/ releaseReference(s)
    BY <2>7 DEF Release, releaseScopeLocks, releaseReference
  <2>8. CASE UNCHANGED vars
    BY <2>8 DEF vars
  <2>. QED  BY <2>1, <2>2, <2>3, <2>4, <2>5, <2>6, <2>7, <2>8 DEF Next, Proceed, Finished, Req
<1>2. writer[k] = FALSE /\ waitingWriters[k] = 0
  BY <1>1 DEF acquireRead, readAdmitted, TypeOK
<1>3. WriteHolders(k) = {} /\ Reservers(k) = {}
  <2>1. Reservers(k) \in SUBSET Req
    BY DEF Reservers
  <2>. QED  BY <1>1, <1>2, <2>1, CallSets DEF CountersExact
<1>4. k \notin held[b] /\ k \notin resv[b]
  BY <1>3 DEF WriteHolders, Reservers, IsWriter
<1>5. scope[b] \subseteq held[b] \cup resv[b]
  BY DEF Fences, Fencing
<1>. QED  BY <1>4, <1>5

\* AcquireTransitionScopeWithBarrier: "New effects are excluded immediately".
\* No effect and no metadata read gains a key of a barrier call between its last
\* reservation and its release, for any number of calls.
THEOREM Fence == Spec => BarrierFence
<1>1. Init => Fences
  BY DEF Init, Fences, Fencing
<1>2. Inv /\ Fences /\ [Next]_vars =>
        [\A b, r \in Req :
           op[b] = "barrier" /\ pc[b] \in {"barrier", "draining", "locking", "held"}
             /\ ~IsWriter(r)
           => (held'[r] \ held[r]) \cap scope[b] = {}]_vars
  BY FenceHolds
<1>. QED  BY <1>1, <1>2, FencesKept, Invariant, PTL DEF Spec, BarrierFence

-------------------------------------------------------------------------------
(***************************************************************************)
(* The locks implement the table of holders.                               *)
(***************************************************************************)
\* A step that moves no holder and no waiting writer is a step of no lock.
LEMMA TableFrame ==
  ASSUME held' = held, resv' = resv, \A s \in Req : held[s] # {} => op'[s] = op[s]
  PROVE  UNCHANGED Table!tableVars
<1>1. \A k : /\ ReadHolders(k)' = ReadHolders(k) /\ WriteHolders(k)' = WriteHolders(k)
             /\ Reservers(k)' = Reservers(k)
  BY HoldersFrame DEF Reservers
<1>. QED  BY <1>1 DEF Table!tableVars

\* Of two keys one call could wait for first, there is only one.
LEMMA FirstUnique ==
  ASSUME NEW S \in SUBSET Key, NEW j, NEW k, IsFirst(j, S), IsFirst(k, S)
  PROVE  j = k
<1>1. j \in Key /\ k \in Key /\ (j # k => Before(j, k) /\ Before(k, j))
  BY DEF IsFirst
<1>2. \A v, w \in Workspaces : ~(WorkspaceOrder[v] < WorkspaceOrder[w] /\ WorkspaceOrder[w] < WorkspaceOrder[v])
  BY OrderAssumption
<1>3. \A i \in Key : i[1] = "workspace" => i[2] \in Workspaces
  BY DEF Key, WorkspaceKey, ChildTransitionKey, ThreadKey
<1>. QED  BY <1>1, <1>2, <1>3 DEF Before

\* A reader that is admitted shares the key.
LEMMA AcquireReadShares ==
  ASSUME Inv, NEW r \in Req, NEW k \in Key, acquireRead(r, k)
  PROVE  Table!Share(r, k)
<1>. USE DEF Inv
<1>1. WriteHolders(k) = {} /\ Reservers(k) = {}
  <2>1. Reservers(k) \in SUBSET Req /\ writer[k] = FALSE /\ waitingWriters[k] = 0
    BY DEF Reservers, acquireRead, readAdmitted, TypeOK
  <2>. QED  BY <2>1, CallSets DEF CountersExact
<1>2. /\ ~IsWriter(r) /\ held' = [held EXCEPT ![r] = @ \cup {k}] /\ resv' = resv /\ op' = op
  BY DEF acquireRead, Granted, callVars
<1>3. \A j : /\ ReadHolders(j)' = IF j = k THEN ReadHolders(j) \cup {r} ELSE ReadHolders(j)
             /\ WriteHolders(j)' = WriteHolders(j) /\ Reservers(j)' = Reservers(j)
  BY <1>2 DEF TypeOK, ReadHolders, WriteHolders, Reservers, IsWriter
<1>. QED  BY <1>1, <1>3 DEF Table!Share

\* A reservation queues its writer.
LEMMA ReserveWriteQueues ==
  ASSUME Inv, NEW r \in Req, NEW k \in Key, reserveWrite(r, k)
  PROVE  Table!Queue(r, k)
<1>1. held' = held /\ op' = op /\ resv' = [resv EXCEPT ![r] = @ \cup {k}]
  BY DEF reserveWrite, callVars
<1>2. \A j : /\ ReadHolders(j)' = ReadHolders(j) /\ WriteHolders(j)' = WriteHolders(j)
             /\ Reservers(j)' = IF j = k THEN Reservers(j) \cup {r} ELSE Reservers(j)
  BY <1>1 DEF Inv, TypeOK, ReadHolders, WriteHolders, Reservers, IsWriter
<1>. QED  BY <1>2 DEF Table!Queue

\* A writer that is admitted owns the key it queued for.
LEMMA AcquireReservedWriteOwns ==
  ASSUME Inv, NEW r \in Req, NEW k \in Key, acquireReservedWrite(r, k)
  PROVE  Table!Own(r, k)
<1>. USE DEF Inv
<1>1. ReadHolders(k) = {} /\ WriteHolders(k) = {} /\ r \in Reservers(k)
  <2>1. /\ ReadHolders(k) \in SUBSET Req /\ writer[k] = FALSE /\ readers[k] = 0 /\ k \in resv[r]
    BY DEF ReadHolders, acquireReservedWrite, writeAdmitted, TypeOK
  <2>. QED  BY <2>1, CallSets DEF CountersExact, Reservers
<1>2. /\ IsWriter(r) /\ op' = op
      /\ held' = [held EXCEPT ![r] = @ \cup {k}] /\ resv' = [resv EXCEPT ![r] = @ \ {k}]
  BY DEF acquireReservedWrite, Granted, callVars
<1>3. \A j : /\ ReadHolders(j)' = ReadHolders(j)
             /\ WriteHolders(j)' = IF j = k THEN {r} ELSE WriteHolders(j)
             /\ Reservers(j)' = IF j = k THEN Reservers(j) \ {r} ELSE Reservers(j)
  <2>1. \A j : /\ ReadHolders(j)' = ReadHolders(j)
               /\ WriteHolders(j)' = IF j = k THEN WriteHolders(j) \cup {r} ELSE WriteHolders(j)
               /\ Reservers(j)' = IF j = k THEN Reservers(j) \ {r} ELSE Reservers(j)
    BY <1>2 DEF TypeOK, ReadHolders, WriteHolders, Reservers, IsWriter
  <2>. QED  BY <1>1, <2>1
<1>. QED  BY <1>1, <1>3 DEF Table!Own

\* A wait that is given up withdraws its one reservation, if it had made it, and
\* so does cancelReservedWrite.
LEMMA GiveUpWithdraws ==
  ASSUME Inv, NEW r \in Req, GiveUp(r)
  PROVE  (\E k \in Key : Table!Withdraw(r, k)) \/ UNCHANGED Table!tableVars
<1>. DEFINE mine == { k \in resv[r] : pc[r] = "locking" /\ IsFirst(k, todo[r]) }
<1>1. held' = held /\ op' = op /\ resv' = [resv EXCEPT ![r] = @ \ mine]
  BY DEF GiveUp, callVars
<1>2. \A j, k \in mine : j = k
  BY FirstUnique DEF Inv, TypeOK
<1>3. mine \subseteq Key /\ \A k \in mine : r \in Reservers(k)
  BY DEF Inv, TypeOK, Reservers
<1>. HIDE DEF mine
<1>4. CASE mine = {}
  <2>1. resv' = resv
    BY <1>1, <1>4 DEF Inv, TypeOK
  <2>. QED  BY <1>1, <2>1, TableFrame
<1>5. ASSUME NEW k \in mine
      PROVE  Table!Withdraw(r, k)
  <2>1. \A j : /\ ReadHolders(j)' = ReadHolders(j) /\ WriteHolders(j)' = WriteHolders(j)
               /\ Reservers(j)' = IF j = k THEN Reservers(j) \ {r} ELSE Reservers(j)
    BY <1>1, <1>2, <1>5 DEF Inv, TypeOK, ReadHolders, WriteHolders, Reservers, IsWriter
  <2>. QED  BY <1>3, <2>1 DEF Table!Withdraw
<1>. QED  BY <1>3, <1>4, <1>5

\* An unused reservation is withdrawn.
LEMMA CancelReservedWriteWithdraws ==
  ASSUME Inv, NEW r \in Req, NEW k \in Key, cancelReservedWrite(r, k)
  PROVE  Table!Withdraw(r, k)
<1>1. held' = held /\ op' = op /\ resv' = [resv EXCEPT ![r] = @ \ {k}] /\ r \in Reservers(k)
  BY DEF cancelReservedWrite, callVars, Reservers
<1>2. \A j : /\ ReadHolders(j)' = ReadHolders(j) /\ WriteHolders(j)' = WriteHolders(j)
             /\ Reservers(j)' = IF j = k THEN Reservers(j) \ {r} ELSE Reservers(j)
  BY <1>1 DEF Inv, TypeOK, ReadHolders, WriteHolders, Reservers, IsWriter
<1>. QED  BY <1>1, <1>2 DEF Table!Withdraw

\* A reader that unlocks leaves the key, a writer yields it.
LEMMA ReleaseLockLeaves ==
  ASSUME Inv, NEW r \in Req, NEW k \in Key, releaseLock(r, k)
  PROVE  Table!Leave(r, k) \/ Table!Yield(r, k)
<1>1. held' = [held EXCEPT ![r] = @ \ {k}] /\ op' = op /\ resv' = resv /\ k \in held[r]
  BY DEF releaseLock, callVars, IsLast
<1>2. \A j : /\ ReadHolders(j)' = IF j = k THEN ReadHolders(j) \ {r} ELSE ReadHolders(j)
             /\ WriteHolders(j)' = IF j = k THEN WriteHolders(j) \ {r} ELSE WriteHolders(j)
             /\ Reservers(j)' = Reservers(j)
  BY <1>1 DEF Inv, TypeOK, ReadHolders, WriteHolders, Reservers, IsWriter
<1>3. CASE IsWriter(r)
  <2>1. r \in WriteHolders(k) /\ r \notin ReadHolders(k) /\ ReadHolders(k) \ {r} = ReadHolders(k)
    BY <1>1, <1>3 DEF WriteHolders, ReadHolders
  <2>. QED  BY <1>2, <2>1 DEF Table!Yield
<1>4. CASE ~IsWriter(r)
  <2>1. r \in ReadHolders(k) /\ r \notin WriteHolders(k) /\ WriteHolders(k) \ {r} = WriteHolders(k)
    BY <1>1, <1>4 DEF WriteHolders, ReadHolders
  <2>. QED  BY <1>2, <2>1 DEF Table!Leave
<1>. QED  BY <1>3, <1>4

\* Every other step leaves the table as it is: a call that begins or ends holds
\* nothing, and a lock object that comes or goes is one that nobody holds.
LEMMA OthersStutter ==
  ASSUME Inv, NEW r \in Req,
         \/ ReadCall(r) \/ WriteCall(r) \/ BarrierCancel(r) \/ BarrierReturn(r) \/ BarrierFail(r)
         \/ Release(r) \/ releaseScopeLocks(r) \/ releaseReference(r)
  PROVE  UNCHANGED Table!tableVars
<1>. USE DEF Inv
<1>1. CASE ReadCall(r) \/ WriteCall(r)
  <2>1. held' = held /\ resv' = resv /\ pc[r] = "new" /\ \E o : op' = [op EXCEPT ![r] = o]
    BY <1>1, CallBegins DEF Begin
  <2>2. \A s \in Req : held[s] # {} => op'[s] = op[s]
    BY <2>1 DEF Shapes, Shape, TypeOK
  <2>. QED  BY <2>1, <2>2, TableFrame
<1>2. CASE BarrierCancel(r) \/ BarrierReturn(r) \/ BarrierFail(r) \/ Release(r)
  <2>1. held' = held /\ resv' = resv /\ op' = op
    BY <1>2 DEF BarrierCancel, BarrierReturn, BarrierFail, Release, callVars
  <2>. QED  BY <2>1, TableFrame
<1>3. CASE releaseScopeLocks(r)
  <2>1. held' = held /\ resv' = resv /\ \A s \in Req : held[s] # {} => op'[s] = op[s]
    BY <1>3 DEF releaseScopeLocks, Forget, TypeOK
  <2>. QED  BY <2>1, TableFrame
<1>4. CASE releaseReference(r)
  <2>1. held' = held /\ resv' = resv /\ op' = [op EXCEPT ![r] = "none"] /\ held[r] = {}
    BY <1>4 DEF releaseReference, Forget, Shapes, Shape
  <2>2. \A s \in Req : held[s] # {} => op'[s] = op[s]
    BY <2>1 DEF TypeOK
  <2>. QED  BY <2>1, <2>2, TableFrame
<1>. QED  BY <1>1, <1>2, <1>3, <1>4

\* Every step of the gate is one step of one lock of the table, or none.
LEMMA StepRefines == Inv /\ [Next]_vars => [Table!Next]_(Table!tableVars)
<1>. SUFFICES ASSUME Inv, [Next]_vars
              PROVE  Table!Next \/ UNCHANGED Table!tableVars
  OBVIOUS
<1>1. ASSUME NEW r \in Req, NEW k \in Key,
             \/ acquireRead(r, k) \/ reserveWrite(r, k) \/ acquireReservedWrite(r, k)
             \/ releaseLock(r, k) \/ cancelReservedWrite(r, k)
      PROVE  Table!Next
  BY <1>1, AcquireReadShares, ReserveWriteQueues, AcquireReservedWriteOwns, ReleaseLockLeaves,
     CancelReservedWriteWithdraws DEF Table!Next
<1>2. ASSUME NEW r \in Req, GiveUp(r)
      PROVE  Table!Next \/ UNCHANGED Table!tableVars
  BY <1>2, GiveUpWithdraws DEF Table!Next
<1>3. CASE UNCHANGED vars
  BY <1>3, TableFrame DEF vars
<1>. QED  BY <1>1, <1>2, <1>3, OthersStutter DEF Next, Proceed, Finished, Req

\* scopeLock: the counters, the waiting writers and the lock objects that come
\* and go with their users implement, key by key, a table in which readers share,
\* a queued writer lets no reader pass, and a writer is alone.
THEOREM GateImplementsTable == Spec => ImplementsTable
<1>1. Init => Table!Init
  BY DEF Init, Table!Init, ReadHolders, WriteHolders, Reservers
<1>. QED  BY <1>1, StepRefines, Invariant, PTL DEF Spec, ImplementsTable, Table!Spec
===============================================================================
