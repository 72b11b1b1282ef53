--------------------------- MODULE GateRegistryProofs ---------------------------
(***************************************************************************)
(* What the gate registry keeps, for any number of gates, records, tokens  *)
(* and reservations.  Inv is inductive: OneHolder is what makes the tokens *)
(* of ClaimsConserved survive a drain or a claim (a gate with a request    *)
(* has no claim to overwrite), and BindingsCurrent ties a private binding  *)
(* to the one reservation it was made for.                                 *)
(***************************************************************************)
EXTENDS GateRegistry, TLAPS

\* A binding is that of the request now staged or executable, and an admission
\* keeps the binding that the request it observed had.
BindingsCurrent ==
  /\ \A g \in Gates : producers[g] # Nil =>
       /\ producers[g].instance = born[g]
       /\ reserved["user_input"][g] # Nil \/ pending["user_input"][g] # Nil
  /\ \A o \in Observers : observed[o] # Nil /\ observed[o].binding # Nil =>
       observed[o].binding.instance = observed[o].born

Inv == TypeOK /\ OneHolder /\ ClaimsConserved /\ BindingsCurrent

USE DEF Kinds

--------------------------------------------------------------------------------
\* newTerminalClaimLocked: the tokens of a drain are new, one per gate, and all
\* of those counted are given.
LEMMA TokensOfADrain ==
  ASSUME NEW G, NEW last \in Nat, NEW f \in nextTokens(G, last)
  PROVE  /\ f \in [G -> (nextClaimToken + 1)..last]
         /\ \A g, h \in G : f[g] = f[h] => g = h
         /\ \A t \in (nextClaimToken + 1)..last : \E g \in G : f[g] = t
BY DEF nextTokens, Bijection, Injection, Surjection, IsInjective

\* An empty registry.
LEMMA Initially == Init => Inv
BY RegistryAssumption
   DEF Init, Inv, TypeOK, OneHolder, ClaimsConserved, BindingsCurrent, HeldBy, HasToken

\* A step that moves no claim conserves them.
LEMMA ClaimsFrame ==
  ASSUME ClaimsConserved, UNCHANGED <<continuation, terminal, nextClaimToken, committed, discarded>>
  PROVE  ClaimsConserved'
BY DEF ClaimsConserved, HeldBy, HasToken

\* reservePending: only an unknown id is reserved, so nothing is overwritten.
LEMMA ReserveKeeps ==
  ASSUME Inv, NEW k \in Kinds, NEW g \in Gates, NEW r \in Records, NEW p \in Payloads,
         NEW owner \in Owners \cup {Nil}, reservePending(k, g, r, p, owner)
  PROVE  Inv'
<1>. USE DEF Inv, reservePending, claimVars
<1>1. TypeOK'
  <2>1. born[g] + 1 \in 1..MaxBorn
    BY RegistryAssumption DEF TypeOK
  <2>2. producers' \in [Gates -> Binding \cup {Nil}]
    BY <2>1 DEF TypeOK, Binding
  <2>. QED  BY <2>1, <2>2 DEF TypeOK
<1>2. OneHolder'
  BY RegistryAssumption DEF TypeOK, OneHolder, gateIDExists, pendingIDExists
<1>3. ClaimsConserved'
  BY ClaimsFrame
<1>4. BindingsCurrent'
  BY RegistryAssumption DEF BindingsCurrent, TypeOK, gateIDExists, pendingIDExists, Binding
<1>. QED  BY <1>1, <1>2, <1>3, <1>4

\* activateReserved: the request moves from one map to the other.
LEMMA ActivateKeeps ==
  ASSUME Inv, NEW k \in Kinds, NEW g \in Gates, NEW p \in Payloads, activateReserved(k, g, p)
  PROVE  Inv'
<1>. USE DEF Inv, activateReserved, claimVars, auxVars
<1>0. p # Nil
  BY RegistryAssumption
<1>1. TypeOK'
  BY DEF TypeOK
<1>2. OneHolder'
  <2>. SUFFICES ASSUME NEW h \in Gates
                PROVE  OneHolder!(h)'
    BY DEF OneHolder
  <2>1. \A j \in Kinds : <<j, h>> # <<k, g>> =>
          reserved'[j][h] = reserved[j][h] /\ pending'[j][h] = pending[j][h]
    BY DEF TypeOK
  <2>2. reserved'[k][g] = Nil /\ pending'[k][g] = p
    BY DEF TypeOK
  <2>3. reserved[k][g] # Nil /\ continuation[g] = Nil /\ terminal[g] = Nil
          /\ records[k][g] # Nil
    BY <1>0 DEF OneHolder
  <2>. QED  BY <2>1, <2>2, <2>3 DEF OneHolder
<1>3. ClaimsConserved'
  BY ClaimsFrame
<1>4. BindingsCurrent'
  BY RegistryAssumption DEF BindingsCurrent, TypeOK
<1>. QED  BY <1>1, <1>2, <1>3, <1>4

\* RestoreApproval and RestoreUserInput: a record without a request.
LEMMA RestoreKeeps ==
  ASSUME Inv, NEW k \in Kinds, NEW g \in Gates, NEW r \in Records, Restore(k, g, r)
  PROVE  Inv'
<1>. USE DEF Inv, Restore, claimVars, auxVars
<1>1. TypeOK'
  BY DEF TypeOK
<1>2. OneHolder'
  BY RegistryAssumption DEF TypeOK, OneHolder, gateIDExists, pendingIDExists
<1>3. ClaimsConserved'
  BY ClaimsFrame
<1>4. BindingsCurrent'
  BY DEF BindingsCurrent
<1>. QED  BY <1>1, <1>2, <1>3, <1>4

\* DeleteApproval and DeleteUserInput: a claim of the gate is accounted for.
LEMMA DeleteKeeps ==
  ASSUME Inv, NEW k \in Kinds, NEW g \in Gates, Delete(k, g)
  PROVE  Inv'
<1>. USE DEF Inv, Delete
<1>. DEFINE gone == { c.token : c \in {continuation[g], terminal[g]} \ {Nil} }
<1>1. \A t : t \in gone <=> HeldBy(g, t)
  BY DEF HeldBy, HasToken
<1>0. gone \subseteq 1..MaxToken
  BY RegistryAssumption DEF TypeOK, Claim, DrainedGate
<1>2. \A h \in Gates, t \in Nat : HeldBy(h, t)' <=> h # g /\ HeldBy(h, t)
  BY DEF HeldBy, HasToken, TypeOK
<1>3. gone \subseteq 1..nextClaimToken
  BY <1>0, <1>1, RegistryAssumption DEF ClaimsConserved, TypeOK
<1>4. TypeOK'
  BY <1>3 DEF TypeOK
<1>5. OneHolder'
  BY DEF TypeOK, OneHolder
<1>6. ClaimsConserved'
  <2>1. (committed \cap discarded)' = {}
    BY <1>1, <1>0, <1>3 DEF ClaimsConserved
  <2>2. ASSUME NEW t \in 1..MaxToken
        PROVE  (\E h \in Gates : HeldBy(h, t)') <=>
                 t <= nextClaimToken' /\ t \notin (committed \cup discarded)'
    BY <1>1, <1>2 DEF ClaimsConserved
  <2>3. \A h, i \in Gates : \A t \in 1..MaxToken :
          HeldBy(h, t)' /\ HeldBy(i, t)' => h = i
    BY <1>2 DEF ClaimsConserved
  <2>. QED  BY <2>1, <2>2, <2>3 DEF ClaimsConserved
<1>7. BindingsCurrent'
  BY DEF BindingsCurrent, TypeOK
<1>. QED  BY <1>4, <1>5, <1>6, <1>7

\* The peeks only read the registry.
LEMMA PeekKeeps ==
  ASSUME Inv, NEW o \in Observers, NEW g \in Gates, NEW owned \in BOOLEAN, Peek(o, g, owned)
  PROVE  Inv'
<1>. USE DEF Inv, Peek, gateVars, claimVars, auxVars
<1>1. TypeOK'
  BY RegistryAssumption DEF TypeOK, Admission
<1>2. OneHolder'
  BY DEF OneHolder
<1>3. ClaimsConserved'
  BY ClaimsFrame
<1>4. BindingsCurrent'
  BY DEF BindingsCurrent, TypeOK
<1>. QED  BY <1>1, <1>2, <1>3, <1>4

\* claimContinuation: the new token is that of the one new claim, and the gate
\* had no claim that it could overwrite.
LEMMA ClaimContinuationKeeps ==
  ASSUME Inv, NEW k \in Kinds, NEW g \in Gates, claimContinuation(k, g),
         observed' \in [Observers -> Admission \cup {Nil}],
         \A o \in Observers : observed'[o] \in {observed[o], Nil}
  PROVE  Inv'
<1>. USE DEF Inv, claimContinuation, auxVars
<1>. DEFINE new == nextClaimToken + 1
<1>0. new \in 1..MaxToken /\ new \notin committed \cup discarded
  BY RegistryAssumption DEF TypeOK
<1>1. continuation'[g] \in Claim /\ continuation'[g] # Nil
  BY <1>0, RegistryAssumption DEF TypeOK, Claim
<1>2. continuation[g] = Nil /\ terminal[g] = Nil
  BY DEF OneHolder
<1>3. \A h \in Gates, t \in 1..MaxToken :
        HeldBy(h, t)' <=> IF h = g THEN t = new ELSE HeldBy(h, t)
  BY <1>1, <1>2 DEF HeldBy, HasToken, TypeOK
<1>4. \A h \in Gates : ~HeldBy(h, new)
  BY <1>0, RegistryAssumption DEF ClaimsConserved, TypeOK
<1>5. TypeOK'
  <2>1. committed \subseteq 1..new /\ discarded \subseteq 1..new
    BY <1>0, RegistryAssumption DEF TypeOK
  <2>. QED  BY <1>0, <1>1, <2>1 DEF TypeOK
<1>6. OneHolder'
  <2>1. continuation'[g].record = records[k][g] /\ continuation'[g].kind = k
    BY DEF TypeOK
  <2>2. reserved[k][g] = Nil /\ pending'[k][g] = Nil
    BY DEF OneHolder, TypeOK
  <2>3. \A j \in Kinds : j # k => reserved[j][g] = Nil /\ pending'[j][g] = Nil
    BY DEF OneHolder, TypeOK
  <2>4. \A h \in Gates \ {g} : continuation'[h] = continuation[h]
                               /\ \A j \in Kinds : pending'[j][h] = pending[j][h]
    BY DEF TypeOK
  <2>. QED  BY <1>1, <1>2, <2>1, <2>2, <2>3, <2>4 DEF OneHolder
<1>7. ClaimsConserved'
  <2>1. ASSUME NEW t \in 1..MaxToken
        PROVE  (\E h \in Gates : HeldBy(h, t)') <=>
                 t <= new /\ t \notin committed \cup discarded
    <3>1. CASE t = new
      BY <1>0, <1>3, <3>1 DEF TypeOK
    <3>2. CASE t # new
      <4>1. (\E h \in Gates : HeldBy(h, t)') <=> (\E h \in Gates : HeldBy(h, t))
        BY <1>2, <1>3, <3>2 DEF HeldBy, HasToken
      <4>2. t <= new <=> t <= nextClaimToken
        BY <3>2, RegistryAssumption DEF TypeOK
      <4>. QED  BY <4>1, <4>2 DEF ClaimsConserved
    <3>. QED  BY <3>1, <3>2
  <2>2. \A h, i \in Gates : \A t \in 1..MaxToken :
          HeldBy(h, t)' /\ HeldBy(i, t)' => h = i
    BY <1>3, <1>4 DEF ClaimsConserved
  <2>. QED  BY <2>1, <2>2 DEF ClaimsConserved
<1>8. BindingsCurrent'
  BY DEF BindingsCurrent, TypeOK, OneHolder
<1>. QED  BY <1>5, <1>6, <1>7, <1>8

\* MarkClaimDisposition: the claim keeps its token.
LEMMA MarkKeeps ==
  ASSUME Inv, NEW g \in Gates, NEW t \in 1..nextClaimToken, NEW r \in Resolutions,
         MarkClaimDisposition(g, t, r)
  PROVE  Inv'
<1>. USE DEF Inv, MarkClaimDisposition, holdsClaim, gateVars, auxVars
<1>0. continuation[g] \in Claim
  BY DEF TypeOK
<1>1. /\ continuation'[g] \in Claim /\ continuation'[g] # Nil
      /\ continuation'[g].token = continuation[g].token
      /\ continuation'[g].kind = continuation[g].kind
      /\ continuation'[g].record = continuation[g].record
  BY <1>0, RegistryAssumption DEF TypeOK, Claim
<1>2. \A h \in Gates : h # g => continuation'[h] = continuation[h]
  BY DEF TypeOK
<1>3. TypeOK'
  BY <1>1, <1>2 DEF TypeOK
<1>4. OneHolder'
  <2>. SUFFICES ASSUME NEW h \in Gates
                PROVE  OneHolder!(h)'
    BY DEF OneHolder
  <2>1. CASE h = g
    <3>1. terminal[g] = Nil /\ continuation[g] # Nil /\ terminal' = terminal
      BY DEF OneHolder
    <3>2. \A k \in Kinds : reserved[k][g] = Nil /\ pending[k][g] = Nil
      BY <3>1 DEF OneHolder
    <3>3. continuation[g].record = records[continuation[g].kind][g]
      BY <3>1 DEF OneHolder
    <3>4. \A c \in {continuation'[g], terminal'[g]} \ {Nil} : c.record = records'[c.kind][g]
      BY <1>1, <3>1, <3>3
    <3>5. \A j, k \in Kinds : records'[j][g] # Nil /\ records'[k][g] # Nil => j = k
      BY DEF OneHolder
    <3>. QED  BY <2>1, <3>1, <3>2, <3>4, <3>5
  <2>2. CASE h # g
    BY <1>2, <2>2 DEF OneHolder
  <2>. QED  BY <2>1, <2>2
<1>5. \A h \in Gates : \A u : HeldBy(h, u)' <=> HeldBy(h, u)
  BY <1>1, <1>2 DEF HeldBy, HasToken
<1>6. ClaimsConserved'
  BY <1>5 DEF ClaimsConserved
<1>7. BindingsCurrent'
  BY DEF BindingsCurrent
<1>. QED  BY <1>3, <1>4, <1>6, <1>7

\* PromoteClaimToTerminal and its form with an intent: the token moves with it.
LEMMA PromoteKeeps ==
  ASSUME Inv, NEW g \in Gates, NEW t \in 1..nextClaimToken,
         NEW r \in Resolutions \cup {Nil}, NEW i \in Intents \cup {Nil},
         PromoteClaimToTerminalWithIntent(g, t, r, i)
  PROVE  Inv'
<1>. USE DEF Inv, PromoteClaimToTerminalWithIntent, holdsClaim, gateVars, auxVars
<1>0. continuation[g] \in Claim /\ terminal[g] = Nil
  BY DEF TypeOK, OneHolder
<1>1. /\ terminal'[g] \in DrainedGate /\ terminal'[g] # Nil
      /\ terminal'[g].token = continuation[g].token
      /\ terminal'[g].kind = continuation[g].kind
      /\ terminal'[g].record = continuation[g].record
      /\ continuation'[g] = Nil
  BY <1>0, RegistryAssumption DEF TypeOK, Claim, DrainedGate, terminalClaimFromContinuation
<1>2. \A h \in Gates : h # g => continuation'[h] = continuation[h] /\ terminal'[h] = terminal[h]
  BY DEF TypeOK
<1>3. TypeOK'
  BY <1>1, <1>2 DEF TypeOK
<1>4. OneHolder'
  BY <1>0, <1>1, <1>2 DEF OneHolder
<1>5. \A h \in Gates : \A u : HeldBy(h, u)' <=> HeldBy(h, u)
  BY <1>0, <1>1, <1>2 DEF HeldBy, HasToken
<1>6. ClaimsConserved'
  BY <1>5 DEF ClaimsConserved
<1>7. BindingsCurrent'
  BY DEF BindingsCurrent
<1>. QED  BY <1>3, <1>4, <1>6, <1>7

\* CommitContinuationClaim: exactly the presented token ends.
LEMMA CommitContinuationKeeps ==
  ASSUME Inv, NEW g \in Gates, NEW t \in 1..nextClaimToken,
         NEW r \in Resolutions \cup {Nil}, CommitContinuationClaim(g, t, r)
  PROVE  Inv'
<1>. USE DEF Inv, CommitContinuationClaim, holdsClaim, gateVars
<1>0. terminal[g] = Nil /\ HeldBy(g, t) /\ t \in 1..MaxToken
  BY RegistryAssumption DEF OneHolder, HeldBy, HasToken, TypeOK
<1>1. \A h \in Gates, u \in 1..MaxToken : HeldBy(h, u)' <=> h # g /\ HeldBy(h, u)
  BY <1>0 DEF HeldBy, HasToken, TypeOK
<1>2. \A u \in 1..MaxToken : HeldBy(g, u) => u = t
  BY <1>0 DEF HeldBy, HasToken
<1>3. TypeOK'
  BY DEF TypeOK
<1>4. OneHolder'
  BY DEF TypeOK, OneHolder
<1>5. ClaimsConserved'
  <2>1. (committed \cap discarded)' = {}
    BY <1>0 DEF ClaimsConserved
  <2>2. ASSUME NEW u \in 1..MaxToken
        PROVE  (\E h \in Gates : HeldBy(h, u)') <=>
                 u <= nextClaimToken' /\ u \notin (committed \cup discarded)'
    BY <1>0, <1>1, <1>2 DEF ClaimsConserved
  <2>3. \A h, i \in Gates : \A u \in 1..MaxToken :
          HeldBy(h, u)' /\ HeldBy(i, u)' => h = i
    BY <1>1 DEF ClaimsConserved
  <2>. QED  BY <2>1, <2>2, <2>3 DEF ClaimsConserved
<1>6. BindingsCurrent'
  BY DEF BindingsCurrent
<1>. QED  BY <1>3, <1>4, <1>5, <1>6

\* No entry of the gate changes.
Untouched(g) ==
  /\ continuation'[g] = continuation[g] /\ terminal'[g] = terminal[g]
  /\ \A k \in Kinds : /\ records'[k][g] = records[k][g]
                       /\ reserved'[k][g] = reserved[k][g]
                       /\ pending'[k][g] = pending[k][g]

\* The drains: a gate with a request has no claim, so a new token overwrites
\* nothing; a continuation claim keeps its token; and all that is taken over
\* is neither staged nor executable afterwards.
LEMMA DrainKeeps ==
  ASSUME Inv, NEW S \in SUBSET Records, Drain(S)
  PROVE  /\ Inv'
         /\ \A g \in Gates :
              \/ Untouched(g)
              \/ /\ terminal[g] = Nil /\ terminal'[g] # Nil
                 /\ \/ continuation[g] # Nil
                    \/ \E k \in Kinds : reserved[k][g] # Nil \/ pending[k][g] # Nil
<1>. USE DEF Inv
<1>. DEFINE A == Drainable("approval", S)
            U == Drainable("user_input", S)
            C == { g \in Gates : continuation[g] # Nil /\ continuation[g].record \in S }
            D == UNION { Drainable(k, S) : k \in Kinds }
<1>0. PICK last \in nextClaimToken..MaxToken :
        \E f \in nextTokens(D, last) : drainedWith(S, last, f)
  BY DEF Drain
<1>1. PICK f \in nextTokens(D, last) : drainedWith(S, last, f)
  BY <1>0
<1>2. nextClaimToken \in Nat /\ MaxToken \in Nat /\ last \in Nat /\ last <= MaxToken
      /\ nextClaimToken <= last /\ Nil \notin Claim \cup DrainedGate /\ Nil \notin Payloads
  BY RegistryAssumption DEF TypeOK
<1>3. /\ f \in [D -> (nextClaimToken + 1)..last]
      /\ \A g, h \in D : f[g] = f[h] => g = h
      /\ \A t \in (nextClaimToken + 1)..last : \E g \in D : f[g] = t
  BY <1>2, TokensOfADrain
<1>4. D = A \cup U /\ D \subseteq Gates
  BY DEF Drainable
<1>5. A \cap U = {}
  BY DEF Drainable, OneHolder
<1>6. D \cap C = {} /\ \A g \in D : continuation[g] = Nil /\ terminal[g] = Nil
  BY DEF Drainable, OneHolder
<1>7. \A g \in C : terminal[g] = Nil /\ continuation[g] \in Claim
  BY DEF OneHolder, TypeOK
<1>8. \A g \in Gates :
        /\ g \in A => terminal'[g] = newTerminalClaim("approval", g, f[g])
        /\ g \in U => terminal'[g] = newTerminalClaim("user_input", g, f[g])
        /\ g \in C => terminal'[g] = terminalClaimFromContinuation(continuation[g], Nil)
        /\ g \notin D \cup C => terminal'[g] = terminal[g]
        /\ continuation'[g] = IF g \in C THEN Nil ELSE continuation[g]
  <2>. HIDE DEF A, U, C, D
  <2>1. drainedWith(S, last, f) =>
          /\ terminal' = [g \in Gates |->
               IF g \in A THEN newTerminalClaim("approval", g, f[g])
               ELSE IF g \in U THEN newTerminalClaim("user_input", g, f[g])
               ELSE IF g \in C THEN terminalClaimFromContinuation(continuation[g], Nil)
               ELSE terminal[g]]
          /\ continuation' = [g \in Gates |-> IF g \in C THEN Nil ELSE continuation[g]]
    BY DEF drainedWith, A, U, C
  <2>. QED  BY <1>1, <1>4, <1>5, <1>6, <2>1
<1>9. Nil \notin S
  BY RegistryAssumption
<1>10. ASSUME NEW k \in Kinds, NEW g \in Drainable(k, S)
       PROVE  newTerminalClaim(k, g, f[g]) \in
                [kind : {k}, token : {f[g]}, record : {records[k][g]}, payload : Payloads,
                 resolution : {Nil}, intent : {Nil}]
  <2>1. (IF reserved[k][g] # Nil THEN reserved[k][g] ELSE pending[k][g]) \in Payloads
    BY DEF Drainable, TypeOK
  <2>. QED  BY <2>1 DEF newTerminalClaim
<1>11. \A k \in Kinds : \A g \in Drainable(k, S) : records[k][g] \in Records
  BY DEF Drainable
<1>12. ASSUME NEW g \in D
       PROVE  /\ terminal'[g] \in DrainedGate /\ terminal'[g].token = f[g]
              /\ terminal'[g].record = records[terminal'[g].kind][g]
  <2>1. PICK k \in Kinds : g \in Drainable(k, S) /\ terminal'[g] = newTerminalClaim(k, g, f[g])
    BY <1>4, <1>8
  <2>2. f[g] \in 1..MaxToken
    BY <1>2, <1>3
  <2>. QED  BY <1>10, <1>11, <2>1, <2>2 DEF DrainedGate
<1>13. ASSUME NEW g \in C
       PROVE  /\ terminal'[g] \in DrainedGate
              /\ terminal'[g].token = continuation[g].token
              /\ terminal'[g].record = records[terminal'[g].kind][g]
  <2>1. continuation[g].record = records[continuation[g].kind][g]
    BY DEF OneHolder
  <2>2. continuation[g] \in Claim
    BY <1>7
  <2>3. terminal'[g] = terminalClaimFromContinuation(continuation[g], Nil)
    BY <1>8
  <2>. HIDE DEF C
  <2>. QED  BY <2>1, <2>2, <2>3 DEF terminalClaimFromContinuation, Claim, DrainedGate
<1>14. \A g \in Gates \ (D \cup C) :
         terminal'[g] = terminal[g] /\ continuation'[g] = continuation[g]
  BY <1>8
<1>15. /\ reserved' \in [Kinds -> [Gates -> Payloads \cup {Nil}]]
       /\ pending' \in [Kinds -> [Gates -> Payloads \cup {Nil}]]
       /\ producers' \in [Gates -> Binding \cup {Nil}]
       /\ \A k \in Kinds, g \in Gates :
            /\ reserved'[k][g] \in {reserved[k][g], Nil} /\ pending'[k][g] \in {pending[k][g], Nil}
            /\ g \in Drainable(k, S) => reserved'[k][g] = Nil /\ pending'[k][g] = Nil
            /\ g \notin Drainable(k, S) =>
                 reserved'[k][g] = reserved[k][g] /\ pending'[k][g] = pending[k][g]
       /\ \A g \in Gates : producers'[g] = IF g \in U THEN Nil ELSE producers[g]
  BY <1>1 DEF drainedWith, TypeOK
<1>16. UNCHANGED <<records, observed, born, committed, discarded>> /\ nextClaimToken' = last
  BY <1>1 DEF drainedWith, auxVars
<1>17. TypeOK'
  <2>1. \A g \in Gates : /\ terminal'[g] \in DrainedGate \cup {Nil}
                          /\ continuation'[g] \in Claim \cup {Nil}
    <3>. HIDE DEF D, C
    <3>. QED  BY <1>8, <1>12, <1>13, <1>14 DEF TypeOK
  <2>2. terminal' \in [Gates -> DrainedGate \cup {Nil}]
        /\ continuation' \in [Gates -> Claim \cup {Nil}]
    BY <1>1, <2>1 DEF drainedWith
  <2>3. committed \subseteq 1..last /\ discarded \subseteq 1..last
    BY <1>2 DEF TypeOK
  <2>. QED  BY <1>2, <1>15, <1>16, <2>2, <2>3 DEF TypeOK
<1>18. OneHolder'
  <2>. SUFFICES ASSUME NEW g \in Gates
                PROVE  OneHolder!(g)'
    BY DEF OneHolder
  <2>1. \A j, k \in Kinds : records'[j][g] # Nil /\ records'[k][g] # Nil => j = k
    BY <1>16 DEF OneHolder
  <2>2. \A k \in Kinds : reserved'[k][g] = Nil \/ pending'[k][g] = Nil
    BY <1>15 DEF OneHolder
  <2>3. ASSUME NEW k \in Kinds, reserved'[k][g] # Nil \/ pending'[k][g] # Nil
        PROVE  records'[k][g] # Nil /\ continuation'[g] = Nil /\ terminal'[g] = Nil
    <3>1. g \notin Drainable(k, S) /\ (reserved[k][g] # Nil \/ pending[k][g] # Nil)
      BY <1>15, <2>3
    <3>2. records[k][g] # Nil /\ continuation[g] = Nil /\ terminal[g] = Nil
      BY <3>1 DEF OneHolder
    <3>3. \A j \in Kinds : j # k => records[j][g] = Nil
      BY <3>2 DEF OneHolder
    <3>4. g \notin D \cup C
      BY <1>9, <3>1, <3>2, <3>3 DEF Drainable
    <3>. QED  BY <1>14, <1>16, <3>2, <3>4
  <2>4. continuation'[g] = Nil \/ terminal'[g] = Nil
    <3>. HIDE DEF D, C
    <3>. QED  BY <1>6, <1>8, <1>14 DEF OneHolder
  <2>5. \A c \in {continuation'[g], terminal'[g]} \ {Nil} : c.record = records'[c.kind][g]
    <3>. HIDE DEF D, C
    <3>1. CASE g \in D
      BY <1>6, <1>8, <1>12, <1>16, <3>1
    <3>2. CASE g \in C
      BY <1>8, <1>13, <1>16, <3>2
    <3>3. CASE g \notin D \cup C
      BY <1>14, <1>16, <3>3 DEF OneHolder
    <3>. QED  BY <3>1, <3>2, <3>3
  <2>. QED  BY <2>1, <2>2, <2>3, <2>4, <2>5
<1>19. ASSUME NEW g \in Gates, NEW t \in 1..MaxToken
       PROVE  HeldBy(g, t)' <=> IF g \in D THEN t = f[g] ELSE HeldBy(g, t)
  <2>1. terminal'[g] \in DrainedGate => terminal'[g] # Nil
    BY <1>2
  <2>. HIDE DEF D, C
  <2>2. CASE g \in D
    BY <1>6, <1>8, <1>12, <2>1, <2>2 DEF HeldBy, HasToken
  <2>3. CASE g \in C
    <3>1. g \notin D /\ continuation[g] # Nil /\ terminal[g] = Nil
      BY <1>2, <1>6, <1>7, <2>3
    <3>. QED  BY <1>8, <1>13, <2>1, <2>3, <3>1 DEF HeldBy, HasToken
  <2>4. CASE g \notin D \cup C
    BY <1>14, <2>4 DEF HeldBy, HasToken
  <2>. QED  BY <2>2, <2>3, <2>4
<1>20. ClaimsConserved'
  <2>. HIDE DEF D, C
  <2>1. (committed \cap discarded)' = {}
    BY <1>16 DEF ClaimsConserved
  <2>2. \A g \in D : \A t \in 1..MaxToken : ~HeldBy(g, t)
    BY <1>6 DEF HeldBy, HasToken
  <2>3. ASSUME NEW t \in 1..MaxToken
        PROVE  (\E h \in Gates : HeldBy(h, t)') <=>
                 t <= last /\ t \notin committed \cup discarded
    <3>1. CASE t <= nextClaimToken
      <4>1. \A g \in D : t # f[g]
        BY <1>2, <1>3, <3>1
      <4>2. \A h \in Gates : HeldBy(h, t)' <=> HeldBy(h, t)
        BY <1>19, <2>2, <4>1
      <4>. QED  BY <1>2, <3>1, <4>2 DEF ClaimsConserved
    <3>2. CASE t > nextClaimToken /\ t <= last
      <4>1. PICK g \in D : t = f[g]
        BY <1>2, <1>3, <3>2
      <4>2. HeldBy(g, t)'
        BY <1>4, <1>19, <4>1
      <4>3. t \notin committed \cup discarded
        BY <1>2, <3>2 DEF TypeOK
      <4>. QED  BY <1>4, <3>2, <4>2, <4>3
    <3>3. CASE t > last
      <4>1. \A g \in D : t # f[g]
        BY <1>2, <1>3, <3>3
      <4>2. \A h \in Gates : HeldBy(h, t)' <=> HeldBy(h, t)
        BY <1>19, <2>2, <4>1
      <4>. QED  BY <1>2, <3>3, <4>2 DEF ClaimsConserved
    <3>. QED  BY <1>2, <3>1, <3>2, <3>3
  <2>4. ASSUME NEW g \in Gates, NEW h \in Gates, NEW t \in 1..MaxToken,
               HeldBy(g, t)', HeldBy(h, t)'
        PROVE  g = h
    <3>1. \A i \in D : f[i] > nextClaimToken
      BY <1>2, <1>3
    <3>2. \A i \in Gates : HeldBy(i, t) => t <= nextClaimToken
      BY DEF ClaimsConserved
    <3>3. g \in D <=> h \in D
      BY <1>2, <1>19, <2>4, <3>1, <3>2
    <3>. QED  BY <1>3, <1>19, <2>4, <3>3 DEF ClaimsConserved
  <2>. QED  BY <1>16, <2>1, <2>3, <2>4 DEF ClaimsConserved
<1>21. BindingsCurrent'
  <2>1. ASSUME NEW g \in Gates, producers'[g] # Nil
        PROVE  /\ producers'[g].instance = born'[g]
               /\ reserved'["user_input"][g] # Nil \/ pending'["user_input"][g] # Nil
    BY <1>15, <1>16, <2>1 DEF BindingsCurrent
  <2>. QED  BY <1>16, <2>1 DEF BindingsCurrent
<1>22. ASSUME NEW g \in D
       PROVE  /\ terminal[g] = Nil /\ terminal'[g] # Nil
              /\ \E k \in Kinds : reserved[k][g] # Nil \/ pending[k][g] # Nil
  BY <1>2, <1>6, <1>12 DEF Drainable
<1>23. ASSUME NEW g \in C
       PROVE  terminal[g] = Nil /\ terminal'[g] # Nil /\ continuation[g] # Nil
  BY <1>2, <1>7, <1>13
<1>24. ASSUME NEW g \in Gates, g \notin D \cup C
       PROVE  Untouched(g)
  <2>1. \A k \in Kinds : g \notin Drainable(k, S)
    BY <1>24
  <2>. HIDE DEF C, D
  <2>. QED  BY <1>14, <1>15, <1>16, <1>24, <2>1 DEF Untouched
<1>. HIDE DEF C, D
<1>25. \A g \in Gates :
         \/ Untouched(g)
         \/ /\ terminal[g] = Nil /\ terminal'[g] # Nil
            /\ \/ continuation[g] # Nil
               \/ \E k \in Kinds : reserved[k][g] # Nil \/ pending[k][g] # Nil
  BY <1>22, <1>23, <1>24
<1>. QED  BY <1>17, <1>18, <1>20, <1>21, <1>25

\* terminalClaimMatches: an intent is bound to a live terminal claim.
LEMMA BoundAreHeld ==
  ASSUME NEW batch \in Batches
  PROVE  \A g \in DOMAIN batch :
           (\A h \in DOMAIN batch : h <= g => terminalClaimMatches(h, batch[h]))
             => terminal[g] # Nil
<1>1. DOMAIN batch \subseteq Gates
  BY DEF Batches
<1>2. \A g \in Gates : g <= g
  BY RegistryAssumption
<1>. QED  BY <1>1, <1>2 DEF terminalClaimMatches

\* BindTerminalIntent: an intent is bound in place.
LEMMA BindKeeps ==
  ASSUME Inv, NEW batch \in Batches, NEW i \in Intents, BindTerminalIntent(batch, i)
  PROVE  Inv' /\ \A g \in Gates : terminal'[g] = Nil <=> terminal[g] = Nil
<1>. USE DEF Inv, gateVars, auxVars
<1>. DEFINE M == { g \in DOMAIN batch : \A h \in DOMAIN batch :
                     h <= g => terminalClaimMatches(h, batch[h]) }
<1>0. UNCHANGED <<gateVars, continuation, nextClaimToken, observed, auxVars>>
  BY DEF BindTerminalIntent
<1>2. \A g \in M : terminal[g] # Nil
  BY BoundAreHeld
<1>3. terminal' = [g \in Gates |->
        IF g \in M THEN [terminal[g] EXCEPT !.intent = boundIntent(g, i)] ELSE terminal[g]]
  BY DEF BindTerminalIntent
<1>. HIDE DEF M
<1>4. ASSUME NEW g \in Gates
      PROVE  \/ terminal'[g] = terminal[g]
             \/ /\ terminal[g] # Nil /\ terminal'[g] # Nil /\ terminal'[g] \in DrainedGate
                /\ terminal'[g].token = terminal[g].token
                /\ terminal'[g].kind = terminal[g].kind
                /\ terminal'[g].record = terminal[g].record
  <2>1. CASE g \in M
    <3>1. terminal[g] \in DrainedGate /\ terminal[g] # Nil
      BY <1>2, <2>1 DEF TypeOK
    <3>2. boundIntent(g, i) \in Intents \cup {Nil}
      BY <3>1 DEF boundIntent, DrainedGate
    <3>3. terminal'[g] = [terminal[g] EXCEPT !.intent = boundIntent(g, i)]
      BY <1>3, <2>1
    <3>. QED  BY <3>1, <3>2, <3>3, RegistryAssumption DEF DrainedGate
  <2>. QED  BY <1>3, <2>1
<1>5. terminal' \in [Gates -> DrainedGate \cup {Nil}]
  BY <1>3, <1>4 DEF TypeOK
<1>6. TypeOK'
  BY <1>0, <1>5 DEF TypeOK
<1>7. OneHolder'
  <2>. SUFFICES ASSUME NEW g \in Gates
                PROVE  OneHolder!(g)'
    BY DEF OneHolder
  <2>1. terminal'[g] = Nil <=> terminal[g] = Nil
    BY <1>4
  <2>2. \A c \in {continuation'[g], terminal'[g]} \ {Nil} : c.record = records'[c.kind][g]
    BY <1>0, <1>4 DEF OneHolder
  <2>. QED  BY <1>0, <2>1, <2>2 DEF OneHolder
<1>8. \A g \in Gates : \A u : HeldBy(g, u)' <=> HeldBy(g, u)
  BY <1>0, <1>4 DEF HeldBy, HasToken
<1>9. ClaimsConserved'
  BY <1>0, <1>8 DEF ClaimsConserved
<1>10. BindingsCurrent'
  BY <1>0 DEF BindingsCurrent
<1>11. \A g \in Gates : terminal'[g] = Nil <=> terminal[g] = Nil
  BY <1>4
<1>. QED  BY <1>6, <1>7, <1>9, <1>10, <1>11

\* CommitDrained: exactly the tokens of the batch end.
LEMMA CommitDrainedKeeps ==
  ASSUME Inv, NEW batch \in Batches, CommitDrained(batch)
  PROVE  Inv'
<1>. USE DEF Inv
<1>. DEFINE B == DOMAIN batch
            T == { batch[g].token : g \in B }
<1>0. UNCHANGED <<gateVars, continuation, nextClaimToken, observed, born, discarded>>
  BY DEF CommitDrained
<1>1. B \subseteq Gates /\ \A g \in B : batch[g].token \in 1..nextClaimToken
  BY DEF Batches
<1>2. \A g \in B : /\ terminal[g] # Nil /\ terminal[g].token = batch[g].token
                    /\ continuation[g] = Nil
  BY <1>1 DEF CommitDrained, terminalClaimMatches, OneHolder
<1>3. terminal' = [g \in Gates |-> IF g \in B THEN Nil ELSE terminal[g]]
      /\ committed' = committed \cup T
  BY DEF CommitDrained
<1>4. T \subseteq 1..nextClaimToken /\ 1..nextClaimToken \subseteq 1..MaxToken
  BY <1>1, RegistryAssumption DEF TypeOK
<1>5. \A t \in T : \E g \in B : t = batch[g].token
  OBVIOUS
<1>6. \A g \in B : batch[g].token \in T
  OBVIOUS
<1>. HIDE DEF B, T
<1>7. \A g \in Gates, t \in 1..MaxToken :
        HeldBy(g, t)' <=> g \notin B /\ HeldBy(g, t)
  BY <1>0, <1>2, <1>3 DEF HeldBy, HasToken
<1>8. \A t \in 1..MaxToken : t \in T <=> \E g \in B : HeldBy(g, t)
  BY <1>2, <1>5, <1>6 DEF HeldBy, HasToken
<1>9. TypeOK'
  BY <1>0, <1>3, <1>4 DEF TypeOK, gateVars
<1>10. OneHolder'
  BY <1>0, <1>3 DEF OneHolder, gateVars
<1>11. ClaimsConserved'
  <2>1. (committed \cap discarded)' = {}
    BY <1>0, <1>1, <1>3, <1>4, <1>8 DEF ClaimsConserved
  <2>2. ASSUME NEW t \in 1..MaxToken
        PROVE  (\E g \in Gates : HeldBy(g, t)') <=>
                 t <= nextClaimToken /\ t \notin committed \cup T \cup discarded
    <3>1. CASE t \in T
      BY <1>1, <1>7, <1>8, <3>1 DEF ClaimsConserved
    <3>2. CASE t \notin T
      <4>1. \A g \in Gates : HeldBy(g, t)' <=> HeldBy(g, t)
        BY <1>7, <1>8, <3>2
      <4>. QED  BY <3>2, <4>1 DEF ClaimsConserved
    <3>. QED  BY <3>1, <3>2
  <2>3. \A g, h \in Gates : \A t \in 1..MaxToken :
          HeldBy(g, t)' /\ HeldBy(h, t)' => g = h
    BY <1>7 DEF ClaimsConserved
  <2>. QED  BY <1>0, <1>3, <2>1, <2>2, <2>3 DEF ClaimsConserved
<1>12. BindingsCurrent'
  BY <1>0 DEF BindingsCurrent, gateVars
<1>. QED  BY <1>9, <1>10, <1>11, <1>12

--------------------------------------------------------------------------------
\* Every method keeps the invariant.
LEMMA StepKeeps ==
  ASSUME Inv, [Next]_vars
  PROVE  Inv'
<1>1. ASSUME NEW k \in Kinds, NEW g \in Gates, Requests(k, g)
      PROVE  Inv'
  BY <1>1, ReserveKeeps, ActivateKeeps, RestoreKeeps, DeleteKeeps DEF Requests
<1>2. ASSUME NEW g \in Gates, Responses(g)
      PROVE  Inv'
  <2>1. CASE ClaimApproval(g)
    <3>1. observed' = observed /\ claimContinuation("approval", g)
      BY <2>1 DEF ClaimApproval
    <3>. QED  BY <3>1, ClaimContinuationKeeps DEF Inv, TypeOK
  <2>2. CASE \E o \in Observers, owned \in BOOLEAN : Peek(o, g, owned)
    BY <2>2, PeekKeeps
  <2>3. CASE \E t \in 1..nextClaimToken, r \in Resolutions : MarkClaimDisposition(g, t, r)
    BY <2>3, MarkKeeps
  <2>4. CASE \E t \in 1..nextClaimToken, r \in Resolutions \cup {Nil} :
               \/ CommitContinuationClaim(g, t, r)
               \/ \E i \in Intents \cup {Nil} : PromoteClaimToTerminalWithIntent(g, t, r, i)
    BY <2>4, CommitContinuationKeeps, PromoteKeeps
  <2>. QED  BY <1>2, <2>1, <2>2, <2>3, <2>4 DEF Responses
<1>3. ASSUME NEW o \in Observers, ClaimUserInput(o)
      PROVE  Inv'
  <2>1. observed[o].gate \in Gates
    BY <1>3 DEF ClaimUserInput, Inv, TypeOK, Admission
  <2>2. observed' \in [Observers -> Admission \cup {Nil}]
        /\ \A p \in Observers : observed'[p] \in {observed[p], Nil}
    BY <1>3 DEF ClaimUserInput, Inv, TypeOK
  <2>. QED  BY <1>3, <2>1, <2>2, ClaimContinuationKeeps DEF ClaimUserInput
<1>4. ASSUME Terminals
      PROVE  Inv'
  BY <1>4, DrainKeeps, BindKeeps, CommitDrainedKeeps, RegistryAssumption DEF Terminals
<1>5. ASSUME UNCHANGED vars
      PROVE  Inv'
  <2>. USE <1>5 DEF Inv, vars, gateVars, claimVars, auxVars
  <2>1. TypeOK'
    BY DEF TypeOK
  <2>2. OneHolder'
    BY DEF OneHolder
  <2>3. ClaimsConserved'
    BY ClaimsFrame
  <2>4. BindingsCurrent'
    BY DEF BindingsCurrent
  <2>. QED  BY <2>1, <2>2, <2>3, <2>4
<1>. QED  BY <1>1, <1>2, <1>3, <1>4, <1>5 DEF Next

\* The invariant holds throughout.
LEMMA Invariance == Spec => []Inv
<1>1. Init => Inv
  BY Initially
<1>2. Inv /\ [Next]_vars => Inv'
  BY StepKeeps
<1>. QED  BY <1>1, <1>2, PTL DEF Spec

\* The registry's maps and claims keep their shape (gates.go, GateRegistry).
THEOREM RegistryTypeCorrect == Spec => []TypeOK
<1>1. Inv => TypeOK
  BY DEF Inv
<1>. QED  BY <1>1, Invariance, PTL

\* A gate is staged, executable, claimed or drained and never two of them.
THEOREM GateHeldOnce == Spec => []OneHolder
<1>1. Inv => OneHolder
  BY DEF Inv
<1>. QED  BY <1>1, Invariance, PTL

\* Every token given out is that of one live claim, committed, or deleted.
THEOREM NoClaimLostOrDoubled == Spec => []ClaimsConserved
<1>1. Inv => ClaimsConserved
  BY DEF Inv
<1>. QED  BY <1>1, Invariance, PTL

\* A response claims the very request that it observed.
THEOREM ObservedIsClaimed == Spec => ClaimedAsObserved
<1>1. Inv => \A o \in Observers :
               ClaimUserInput(o) /\ observed[o].binding # Nil =>
                 observed[o].born = born[observed[o].gate]
  BY DEF Inv, BindingsCurrent, ClaimUserInput, expectedAdmission, TypeOK, Admission
<1>. QED  BY <1>1, Invariance, PTL DEF ClaimedAsObserved

--------------------------------------------------------------------------------
\* A claim is only ever marked once, bound once, moved whole, or ended.
LEMMA StepFreezes ==
  ASSUME Inv, [Next]_vars, NEW g \in Gates
  PROVE  KeepsDisposition(g)
<1>. USE DEF Inv, KeepsDisposition
<1>0. ASSUME continuation'[g] = continuation[g], terminal'[g] = terminal[g]
      PROVE  KeepsDisposition(g)
  BY <1>0 DEF OneHolder
<1>1. ASSUME NEW k \in Kinds, NEW h \in Gates, Requests(k, h)
      PROVE  KeepsDisposition(g)
  <2>1. CASE Delete(k, h)
    <3>1. CASE g = h
      BY <2>1, <3>1 DEF Delete, TypeOK
    <3>2. CASE g # h
      BY <1>0, <2>1, <3>2 DEF Delete, TypeOK
    <3>. QED  BY <3>1, <3>2
  <2>2. CASE ~Delete(k, h)
    BY <1>0, <1>1, <2>2 DEF Requests, reservePending, activateReserved, Restore, claimVars
  <2>. QED  BY <2>1, <2>2
<1>2. ASSUME NEW k \in Kinds, NEW h \in Gates, claimContinuation(k, h)
      PROVE  KeepsDisposition(g)
  <2>1. continuation[h] = Nil /\ terminal[h] = Nil
    BY <1>2 DEF claimContinuation, OneHolder
  <2>2. CASE g = h
    BY <2>1, <2>2
  <2>3. CASE g # h
    BY <1>0, <1>2, <2>3 DEF claimContinuation, TypeOK
  <2>. QED  BY <2>2, <2>3
<1>3. ASSUME NEW h \in Gates, Responses(h)
      PROVE  KeepsDisposition(g)
  <2>1. CASE ClaimApproval(h)
    BY <1>2, <2>1 DEF ClaimApproval
  <2>2. CASE \E o \in Observers, owned \in BOOLEAN : Peek(o, h, owned)
    BY <1>0, <2>2 DEF Peek, claimVars
  <2>3. ASSUME NEW t \in 1..nextClaimToken, NEW r \in Resolutions, MarkClaimDisposition(h, t, r)
        PROVE  KeepsDisposition(g)
    <3>1. CASE g = h
      BY <2>3, <3>1 DEF MarkClaimDisposition, holdsClaim, TypeOK, OneHolder
    <3>2. CASE g # h
      BY <1>0, <2>3, <3>2 DEF MarkClaimDisposition, TypeOK
    <3>. QED  BY <3>1, <3>2
  <2>4. ASSUME NEW t \in 1..nextClaimToken, NEW r \in Resolutions \cup {Nil},
               CommitContinuationClaim(h, t, r)
        PROVE  KeepsDisposition(g)
    <3>1. CASE g = h
      BY <2>4, <3>1 DEF CommitContinuationClaim, holdsClaim, TypeOK, OneHolder
    <3>2. CASE g # h
      BY <1>0, <2>4, <3>2 DEF CommitContinuationClaim, TypeOK
    <3>. QED  BY <3>1, <3>2
  <2>5. ASSUME NEW t \in 1..nextClaimToken, NEW r \in Resolutions \cup {Nil},
               NEW i \in Intents \cup {Nil}, PromoteClaimToTerminalWithIntent(h, t, r, i)
        PROVE  KeepsDisposition(g)
    <3>1. CASE g = h
      BY <2>5, <3>1 DEF PromoteClaimToTerminalWithIntent, holdsClaim, TypeOK, OneHolder
    <3>2. CASE g # h
      BY <1>0, <2>5, <3>2 DEF PromoteClaimToTerminalWithIntent, TypeOK
    <3>. QED  BY <3>1, <3>2
  <2>. QED  BY <1>3, <2>1, <2>2, <2>3, <2>4, <2>5 DEF Responses
<1>4. ASSUME NEW o \in Observers, ClaimUserInput(o)
      PROVE  KeepsDisposition(g)
  BY <1>2, <1>4 DEF ClaimUserInput, TypeOK, Admission
<1>5. ASSUME NEW S \in SUBSET Records, Drain(S)
      PROVE  KeepsDisposition(g)
  <2>1. \/ terminal'[g] = terminal[g] /\ continuation'[g] = continuation[g]
        \/ continuation[g] = Nil /\ terminal[g] = Nil
        \/ /\ continuation[g] # Nil /\ terminal[g] = Nil /\ continuation'[g] = Nil
           /\ terminal'[g] = terminalClaimFromContinuation(continuation[g], Nil)
    BY <1>5 DEF Drain, drainedWith, Drainable, OneHolder
  <2>. QED  BY <1>0, <2>1
<1>6. ASSUME NEW batch \in Batches, NEW i \in Intents, BindTerminalIntent(batch, i)
      PROVE  KeepsDisposition(g)
  <2>1. continuation'[g] = continuation[g]
        /\ \/ terminal'[g] = terminal[g]
           \/ terminal'[g] = [terminal[g] EXCEPT !.intent = boundIntent(g, i)]
    BY <1>6 DEF BindTerminalIntent
  <2>2. CASE terminal[g] # Nil
    <3>1. terminal[g] \in DrainedGate /\ continuation[g] = Nil
      BY <2>2 DEF TypeOK, OneHolder
    <3>2. terminal[g].intent # Nil =>
            [terminal[g] EXCEPT !.intent = boundIntent(g, i)] = terminal[g]
      BY <3>1 DEF boundIntent, DrainedGate
    <3>. QED  BY <2>1, <2>2, <3>1, <3>2 DEF boundIntent
  <2>3. CASE terminal[g] = Nil
    <3>1. terminal'[g] = terminal[g]
      BY <1>6, <2>3, BoundAreHeld DEF BindTerminalIntent
    <3>. QED  BY <1>0, <2>1, <3>1
  <2>. QED  BY <2>2, <2>3
<1>7. ASSUME NEW batch \in Batches, CommitDrained(batch)
      PROVE  KeepsDisposition(g)
  BY <1>7 DEF CommitDrained, OneHolder, TypeOK
<1>8. CASE UNCHANGED vars
  BY <1>0, <1>8 DEF vars, claimVars
<1>. QED  BY <1>1, <1>3, <1>4, <1>5, <1>6, <1>7, <1>8, RegistryAssumption DEF Next, Terminals

\* The first resolution and the first intent of a claim are those it ends with.
THEOREM DispositionsKept == Spec => DispositionFrozen
<1>1. Inv /\ [Next]_vars => [\A g \in Gates : KeepsDisposition(g)]_vars
  BY StepFreezes
<1>. QED  BY <1>1, Invariance, PTL DEF Spec, DispositionFrozen

--------------------------------------------------------------------------------
(* The refinement: every method moves the gates it touches along GateLifecycle *)
(* and leaves the stage of the others.                                         *)

\* The stage of a gate is a matter of its own entries.
LEMMA StageOfUntouched ==
  ASSUME NEW g, Untouched(g)
  PROVE  stageOf(g)' = stageOf(g)
BY DEF Untouched, stageOf

\* A step that moves the stages of some gates is a move of the life cycle.
LEMMA MovesTogether ==
  ASSUME NEW G \in SUBSET Gates, NEW From, NEW to,
         \A g \in G : stageOf(g) \in From /\ stageOf(g)' = to,
         \A g \in Gates \ G : stageOf(g)' = stageOf(g)
  PROVE  Lifecycle!Move(G, From, to)
BY DEF Lifecycle!Move

\* A step that moves no stage is a stutter of the life cycle.
LEMMA NoMove ==
  ASSUME \A g \in Gates : stageOf(g)' = stageOf(g)
  PROVE  UNCHANGED [g \in Gates |-> stageOf(g)]
OBVIOUS

\* A gate with a claim shows its record and holds no request.
LEMMA ClaimedShown ==
  ASSUME Inv, NEW g \in Gates, continuation[g] # Nil \/ terminal[g] # Nil
  PROVE  /\ \A k \in Kinds : reserved[k][g] = Nil /\ pending[k][g] = Nil
         /\ \E k \in Kinds : records[k][g] # Nil
<1>1. \A k \in Kinds : reserved[k][g] = Nil /\ pending[k][g] = Nil
  BY DEF Inv, OneHolder
<1>2. PICK c \in {continuation[g], terminal[g]} : c # Nil
  OBVIOUS
<1>3. c \in Claim \cup DrainedGate
  BY <1>2 DEF Inv, TypeOK
<1>4. c.record \in Records /\ c.kind \in Kinds /\ c.record = records[c.kind][g]
  BY <1>2, <1>3 DEF Inv, OneHolder, Claim, DrainedGate
<1>5. records[c.kind][g] # Nil
  BY <1>4, RegistryAssumption
<1>. QED  BY <1>1, <1>4, <1>5

\* The producer's methods and the restore.
LEMMA RequestsRefine ==
  ASSUME Inv, NEW k \in Kinds, NEW g \in Gates, Requests(k, g)
  PROVE  Lifecycle!Next \/ UNCHANGED [h \in Gates |-> stageOf(h)]
<1>. USE DEF Inv
<1>0. \A h \in Gates \ {g} : stageOf(h)' = stageOf(h)
  <2>1. \A h \in Gates \ {g} : Untouched(h)
    BY DEF Untouched, Requests, reservePending, activateReserved, Restore, Delete,
           claimVars, TypeOK
  <2>. QED  BY <2>1, StageOfUntouched
<1>1. ASSUME NEW r \in Records, NEW p \in Payloads, NEW owner \in Owners \cup {Nil},
             reservePending(k, g, r, p, owner)
      PROVE  Lifecycle!Next
  <2>1. stageOf(g) = "absent"
    BY <1>1 DEF reservePending, gateIDExists, pendingIDExists, stageOf
  <2>2. reserved'[k][g] = p /\ p # Nil /\ pending' = pending /\ UNCHANGED claimVars
    BY <1>1, RegistryAssumption DEF reservePending, TypeOK
  <2>3. stageOf(g)' = "reserved"
    BY <1>1, <2>2 DEF reservePending, gateIDExists, pendingIDExists, stageOf, claimVars
  <2>. QED  BY <1>0, <2>1, <2>3, MovesTogether DEF Lifecycle!Next, Lifecycle!Reserve
<1>2. ASSUME NEW p \in Payloads, activateReserved(k, g, p)
      PROVE  Lifecycle!Next
  <2>1. reserved[k][g] # Nil
    BY <1>2, RegistryAssumption DEF activateReserved
  <2>2. /\ records[k][g] # Nil /\ continuation[g] = Nil /\ terminal[g] = Nil
        /\ \A j \in Kinds : pending[j][g] = Nil
    BY <2>1 DEF OneHolder
  <2>3. stageOf(g) = "reserved"
    BY <2>1, <2>2 DEF stageOf
  <2>4. pending'[k][g] # Nil
    BY <1>2, RegistryAssumption DEF activateReserved, TypeOK
  <2>5. stageOf(g)' = "executable"
    BY <1>2, <2>2, <2>4 DEF activateReserved, stageOf, claimVars
  <2>. QED  BY <1>0, <2>3, <2>5, MovesTogether DEF Lifecycle!Next, Lifecycle!Activate
<1>3. ASSUME NEW r \in Records, Restore(k, g, r)
      PROVE  Lifecycle!Next
  <2>1. stageOf(g) = "absent"
    BY <1>3 DEF Restore, gateIDExists, pendingIDExists, stageOf
  <2>2. records'[k][g] # Nil
    BY <1>3, RegistryAssumption DEF Restore, TypeOK
  <2>3. stageOf(g)' = "settled"
    BY <1>3, <2>2 DEF Restore, gateIDExists, pendingIDExists, stageOf, claimVars
  <2>. QED  BY <1>0, <2>1, <2>3, MovesTogether DEF Lifecycle!Next, Lifecycle!Restore
<1>4. ASSUME Delete(k, g)
      PROVE  Lifecycle!Next \/ UNCHANGED [h \in Gates |-> stageOf(h)]
  <2>1. /\ continuation'[g] = Nil /\ terminal'[g] = Nil
        /\ records'[k][g] = Nil /\ reserved'[k][g] = Nil /\ pending'[k][g] = Nil
        /\ \A j \in Kinds \ {k} : /\ records'[j][g] = records[j][g]
                                  /\ reserved'[j][g] = reserved[j][g]
                                  /\ pending'[j][g] = pending[j][g]
    BY <1>4 DEF Delete, TypeOK
  <2>2. CASE records[k][g] # Nil \/ \A j \in Kinds : records[j][g] = Nil
    <3>1. \A j \in Kinds : records'[j][g] = Nil /\ reserved'[j][g] = Nil /\ pending'[j][g] = Nil
      BY <2>1, <2>2 DEF OneHolder
    <3>2. stageOf(g)' = "absent" /\ stageOf(g) \in Lifecycle!Stages
      BY <2>1, <3>1 DEF stageOf, Lifecycle!Stages
    <3>. QED  BY <1>0, <3>2, MovesTogether DEF Lifecycle!Next, Lifecycle!Forget
  <2>3. CASE records[k][g] = Nil /\ \E j \in Kinds : records[j][g] # Nil
    <3>1. reserved[k][g] = Nil /\ pending[k][g] = Nil
      BY <2>3 DEF OneHolder
    <3>2. CASE continuation[g] # Nil \/ terminal[g] # Nil
      <4>1. \A j \in Kinds : reserved'[j][g] = Nil /\ pending'[j][g] = Nil
        BY <2>1, <3>2, ClaimedShown
      <4>2. \E j \in Kinds : records'[j][g] # Nil
        BY <2>1, <2>3
      <4>3. stageOf(g)' = "settled" /\ stageOf(g) \in {"claimed", "terminal"}
        BY <2>1, <3>2, <4>1, <4>2 DEF stageOf
      <4>. QED  BY <1>0, <4>3, MovesTogether DEF Lifecycle!Next, Lifecycle!Discard
    <3>3. CASE continuation[g] = Nil /\ terminal[g] = Nil
      <4>1. Untouched(g)
        BY <2>1, <2>3, <3>1, <3>3 DEF Untouched
      <4>. QED  BY <1>0, <4>1, StageOfUntouched, NoMove
    <3>. QED  BY <3>2, <3>3
  <2>. QED  BY <2>2, <2>3
<1>. QED  BY <1>1, <1>2, <1>3, <1>4 DEF Requests

\* A claim: the request becomes a claim and nothing else is touched.
LEMMA ClaimRefines ==
  ASSUME Inv, NEW k \in Kinds, NEW g \in Gates, claimContinuation(k, g)
  PROVE  Lifecycle!Next
<1>. USE DEF Inv
<1>0. \A h \in Gates \ {g} : stageOf(h)' = stageOf(h)
  <2>1. \A h \in Gates \ {g} : Untouched(h)
    BY DEF Untouched, claimContinuation, TypeOK
  <2>. QED  BY <2>1, StageOfUntouched
<1>1. continuation[g] = Nil /\ terminal[g] = Nil /\ pending[k][g] # Nil
  BY DEF claimContinuation, OneHolder
<1>2. stageOf(g) = "executable"
  BY <1>1 DEF stageOf
<1>3. nextClaimToken + 1 \in 1..MaxToken
  BY RegistryAssumption DEF claimContinuation, TypeOK
<1>4. continuation'[g] \in Claim
  BY <1>3, RegistryAssumption DEF claimContinuation, TypeOK, Claim
<1>5. continuation'[g] # Nil /\ terminal'[g] = Nil
  BY <1>1, <1>4, RegistryAssumption DEF claimContinuation
<1>6. stageOf(g)' = "claimed"
  BY <1>5 DEF stageOf
<1>. QED  BY <1>0, <1>2, <1>6, MovesTogether DEF Lifecycle!Next, Lifecycle!Claim

\* The holder of a claim: marking moves nothing, a commit completes the gate, a
\* promotion hands it to the terminal path.
LEMMA ResponsesRefine ==
  ASSUME Inv, NEW g \in Gates, Responses(g)
  PROVE  Lifecycle!Next \/ UNCHANGED [h \in Gates |-> stageOf(h)]
<1>. USE DEF Inv
<1>1. CASE ClaimApproval(g)
  BY <1>1, ClaimRefines DEF ClaimApproval
<1>2. CASE \E o \in Observers, owned \in BOOLEAN : Peek(o, g, owned)
  <2>1. \A h \in Gates : Untouched(h)
    BY <1>2 DEF Untouched, Peek, gateVars, claimVars
  <2>. QED  BY <2>1, StageOfUntouched, NoMove
<1>3. ASSUME NEW t \in 1..nextClaimToken, NEW r \in Resolutions, MarkClaimDisposition(g, t, r)
      PROVE  UNCHANGED [h \in Gates |-> stageOf(h)]
  <2>0. UNCHANGED <<records, reserved, pending, terminal>>
    BY <1>3 DEF MarkClaimDisposition, gateVars
  <2>1. \A h \in Gates \ {g} : Untouched(h)
    BY <1>3, <2>0 DEF Untouched, MarkClaimDisposition, TypeOK
  <2>2. continuation[g] \in Claim /\ continuation[g] # Nil
    BY <1>3 DEF MarkClaimDisposition, holdsClaim, TypeOK
  <2>3. continuation'[g] \in Claim
    BY <1>3, <2>2 DEF MarkClaimDisposition, TypeOK, Claim
  <2>4. continuation'[g] # Nil
    BY <2>3, RegistryAssumption
  <2>5. stageOf(g)' = stageOf(g)
    BY <2>0, <2>2, <2>4 DEF stageOf
  <2>. QED  BY <2>1, <2>5, StageOfUntouched, NoMove
<1>4. ASSUME NEW t \in 1..nextClaimToken, NEW r \in Resolutions \cup {Nil},
             CommitContinuationClaim(g, t, r)
      PROVE  Lifecycle!Next
  <2>0. UNCHANGED <<records, reserved, pending, terminal>>
    BY <1>4 DEF CommitContinuationClaim, gateVars
  <2>1. \A h \in Gates \ {g} : Untouched(h)
    BY <1>4, <2>0 DEF Untouched, CommitContinuationClaim, TypeOK
  <2>2. continuation[g] # Nil /\ terminal[g] = Nil /\ continuation'[g] = Nil
    BY <1>4 DEF CommitContinuationClaim, holdsClaim, TypeOK, OneHolder
  <2>3. stageOf(g) = "claimed" /\ stageOf(g)' = "settled"
    BY <2>0, <2>2, ClaimedShown DEF stageOf
  <2>. QED  BY <2>1, <2>3, StageOfUntouched, MovesTogether
            DEF Lifecycle!Next, Lifecycle!Complete
<1>5. ASSUME NEW t \in 1..nextClaimToken, NEW r \in Resolutions \cup {Nil},
             NEW i \in Intents \cup {Nil}, PromoteClaimToTerminalWithIntent(g, t, r, i)
      PROVE  Lifecycle!Next
  <2>0. UNCHANGED <<records, reserved, pending>>
    BY <1>5 DEF PromoteClaimToTerminalWithIntent, gateVars
  <2>1. \A h \in Gates \ {g} : Untouched(h)
    BY <1>5, <2>0 DEF Untouched, PromoteClaimToTerminalWithIntent, TypeOK
  <2>2. continuation[g] \in Claim /\ continuation[g] # Nil /\ terminal[g] = Nil
    BY <1>5 DEF PromoteClaimToTerminalWithIntent, holdsClaim, TypeOK, OneHolder
  <2>3. terminal'[g] = terminalClaimFromContinuation(continuation[g], i)
    BY <1>5 DEF PromoteClaimToTerminalWithIntent, TypeOK
  <2>4. terminal'[g] \in DrainedGate
    BY <2>2, <2>3 DEF terminalClaimFromContinuation, Claim, DrainedGate
  <2>5. terminal'[g] # Nil
    BY <2>4, RegistryAssumption
  <2>6. stageOf(g) = "claimed" /\ stageOf(g)' = "terminal"
    BY <2>2, <2>5 DEF stageOf
  <2>7. Lifecycle!TakeOver({g})
    BY <2>1, <2>6, StageOfUntouched, MovesTogether DEF Lifecycle!TakeOver
  <2>. QED  BY <2>7 DEF Lifecycle!Next
<1>. QED  BY <1>1, <1>2, <1>3, <1>4, <1>5 DEF Responses

\* A terminal path: a drain takes over what is not settled, a bind moves nothing,
\* a commit settles its batch.
LEMMA TerminalsRefine ==
  ASSUME Inv, Terminals
  PROVE  Lifecycle!Next \/ UNCHANGED [h \in Gates |-> stageOf(h)]
<1>. USE DEF Inv
<1>1. ASSUME NEW S \in SUBSET Records, Drain(S)
      PROVE  Lifecycle!Next
  <2>. DEFINE G == { g \in Gates : ~Untouched(g) }
  <2>1. ASSUME NEW g \in G
        PROVE  /\ stageOf(g) \in {"reserved", "executable", "claimed"}
               /\ stageOf(g)' = "terminal"
    <3>1. /\ terminal[g] = Nil /\ terminal'[g] # Nil
          /\ \/ continuation[g] # Nil
             \/ \E k \in Kinds : reserved[k][g] # Nil \/ pending[k][g] # Nil
      BY <1>1, DrainKeeps
    <3>. QED  BY <3>1 DEF stageOf
  <2>2. \A g \in Gates \ G : stageOf(g)' = stageOf(g)
    BY StageOfUntouched
  <2>3. G \in SUBSET Gates
    OBVIOUS
  <2>. HIDE DEF G
  <2>4. Lifecycle!TakeOver(G)
    BY <2>1, <2>2, <2>3, MovesTogether DEF Lifecycle!TakeOver
  <2>. QED  BY <2>3, <2>4 DEF Lifecycle!Next
<1>2. ASSUME NEW batch \in Batches, NEW i \in Intents, BindTerminalIntent(batch, i)
      PROVE  UNCHANGED [h \in Gates |-> stageOf(h)]
  <2>1. UNCHANGED <<records, reserved, pending, continuation>>
    BY <1>2 DEF BindTerminalIntent, gateVars
  <2>2. \A g \in Gates : terminal'[g] = Nil <=> terminal[g] = Nil
    BY <1>2, BindKeeps
  <2>3. \A g \in Gates : stageOf(g)' = stageOf(g)
    BY <2>1, <2>2 DEF stageOf
  <2>. QED  BY <2>3, NoMove
<1>3. ASSUME NEW batch \in Batches, CommitDrained(batch)
      PROVE  Lifecycle!Next
  <2>. DEFINE G == DOMAIN batch
  <2>1. UNCHANGED <<records, reserved, pending, continuation>>
        /\ terminal' = [g \in Gates |-> IF g \in G THEN Nil ELSE terminal[g]]
    BY <1>3 DEF CommitDrained, gateVars
  <2>2. G \in SUBSET Gates
    BY DEF Batches
  <2>3. \A g \in G : terminal[g] # Nil
    BY <1>3 DEF CommitDrained, terminalClaimMatches
  <2>. HIDE DEF G
  <2>4. ASSUME NEW g \in G
        PROVE  stageOf(g) = "terminal" /\ stageOf(g)' = "settled"
    <3>1. continuation[g] = Nil
      BY <2>2, <2>3 DEF OneHolder
    <3>. QED  BY <2>1, <2>2, <2>3, <3>1, ClaimedShown DEF stageOf
  <2>5. \A g \in Gates \ G : Untouched(g)
    BY <2>1 DEF Untouched
  <2>6. Lifecycle!Settle(G)
    BY <2>2, <2>4, <2>5, StageOfUntouched, MovesTogether DEF Lifecycle!Settle
  <2>. QED  BY <2>2, <2>6 DEF Lifecycle!Next
<1>. QED  BY <1>1, <1>2, <1>3, RegistryAssumption DEF Terminals

\* The registry implements the life cycle of its gates: none is answered before
\* it is executable, answered twice, or answered after a terminal path took it.
THEOREM RegistryImplementsLifecycle == Spec => ImplementsLifecycle
<1>1. Init => Lifecycle!Init
  BY DEF Init, Lifecycle!Init, stageOf
<1>2. Inv /\ [Next]_vars => [Lifecycle!Next]_[g \in Gates |-> stageOf(g)]
  <2>. SUFFICES ASSUME Inv, [Next]_vars
                PROVE  Lifecycle!Next \/ UNCHANGED [g \in Gates |-> stageOf(g)]
    OBVIOUS
  <2>1. ASSUME NEW o \in Observers, ClaimUserInput(o)
        PROVE  Lifecycle!Next
    BY <2>1, ClaimRefines DEF ClaimUserInput, Inv, TypeOK, Admission
  <2>2. CASE UNCHANGED vars
    <3>1. \A g \in Gates : Untouched(g)
      BY <2>2 DEF Untouched, vars, gateVars, claimVars
    <3>. QED  BY <3>1, StageOfUntouched, NoMove
  <2>. QED  BY <2>1, <2>2, RequestsRefine, ResponsesRefine, TerminalsRefine DEF Next
<1>. QED  BY <1>1, <1>2, Invariance, PTL DEF Spec, ImplementsLifecycle, Lifecycle!Spec
================================================================================
