------------------------------ MODULE GateRegistry ------------------------------
(***************************************************************************)
(* GateRegistry (app/control/gates.go): the approval and user-input gates  *)
(* of paused tool calls.  Every method runs under the registry's mutex, so *)
(* one method is one action; what its callers hold between two calls, an   *)
(* observed admission, a claim, a drained batch, may be stale by then, and *)
(* every method that takes one compares it with what is stored.            *)
(*                                                                         *)
(* A call that changes nothing (a refusal, an exact retry, RestoreDrained, *)
(* the peeks that are not kept) is no step.  A claim presented by a caller *)
(* is known by its token: the other fields of a claim never change, but    *)
(* for its disposition, which is presented and compared beside the token.  *)
(***************************************************************************)
EXTENDS Naturals, Functions

CONSTANTS
  Gates,        \* gate ids, numbered in the order sortDrainedGates gives them
  Records,      \* GateRecords: thread, turn, item and wording
  Payloads,     \* pending tool calls
  Owners,       \* turn execution owners
  Scopes,       \* the sets of records that a turn, a thread or everything owns
  Resolutions,  \* (status, reason) a continuation claim is marked with
  Intents,      \* (status, reason) a terminal claim is bound to
  Observers,    \* responses that looked a user input up and have yet to claim it
  Nil,          \* no entry, no owner, no disposition
  MaxToken,     \* bound on the claim tokens given out
  MaxBorn       \* bound on the reservations of one gate id

VARIABLES
  records,         \* approvalRecords and inputRecords, by kind and gate
  reserved,        \* reservedApprovals and reservedInputs
  pending,         \* pendingApprovals and pendingInputs
  producers,       \* inputProducers: the binding of a reserved or active input
  continuation,    \* continuationClaims
  terminal,        \* terminalClaims
  nextClaimToken,
  observed,        \* the admission each observer keeps
  born,            \* auxiliary: how many times a gate id was reserved
  committed,       \* auxiliary: tokens whose holder committed them
  discarded        \* auxiliary: tokens of claims a Delete threw away

gateVars  == <<records, reserved, pending, producers>>
claimVars == <<continuation, terminal, nextClaimToken>>
auxVars   == <<born, committed, discarded>>
vars      == <<gateVars, claimVars, observed, auxVars>>

Kinds == {"approval", "user_input"}
Binding == [owner : Owners, instance : 1..MaxBorn]
Claim == [kind : Kinds, token : 1..MaxToken, record : Records, payload : Payloads,
          resolution : Resolutions \cup {Nil}]
DrainedGate == [kind : Kinds, token : 1..MaxToken, record : Records, payload : Payloads,
                resolution : Resolutions \cup {Nil}, intent : Intents \cup {Nil}]
Admission == [gate : Gates, record : Records, payload : Payloads,
              binding : Binding \cup {Nil}, born : 0..MaxBorn]

ASSUME RegistryAssumption ==
  /\ Gates \subseteq Nat /\ MaxToken \in Nat /\ MaxBorn \in Nat
  /\ Scopes \subseteq SUBSET Records
  /\ Nil \notin Records \cup Payloads \cup Owners \cup Resolutions \cup Intents
  /\ Nil \notin Binding \cup Claim \cup DrainedGate \cup Admission

Init ==
  /\ records  = [k \in Kinds |-> [g \in Gates |-> Nil]]
  /\ reserved = [k \in Kinds |-> [g \in Gates |-> Nil]]
  /\ pending  = [k \in Kinds |-> [g \in Gates |-> Nil]]
  /\ producers = [g \in Gates |-> Nil]
  /\ continuation = [g \in Gates |-> Nil] /\ terminal = [g \in Gates |-> Nil]
  /\ nextClaimToken = 0
  /\ observed = [o \in Observers |-> Nil]
  /\ born = [g \in Gates |-> 0] /\ committed = {} /\ discarded = {}

pendingIDExists(g) ==
  \/ continuation[g] # Nil \/ terminal[g] # Nil
  \/ \E k \in Kinds : reserved[k][g] # Nil \/ pending[k][g] # Nil

gateIDExists(g) == (\E k \in Kinds : records[k][g] # Nil) \/ pendingIDExists(g)

--------------------------------------------------------------------------------
(* The producer of a request, and the restore at start-up.                 *)

\* A fresh id is staged with its record, its call and, for an owned input, a
\* binding of its own; a known id is only compared.
reservePending(k, g, r, p, owner) ==
  /\ ~gateIDExists(g) /\ born[g] < MaxBorn
  /\ k = "approval" => owner = Nil
  /\ records' = [records EXCEPT ![k][g] = r]
  /\ reserved' = [reserved EXCEPT ![k][g] = p]
  /\ born' = [born EXCEPT ![g] = @ + 1]
  /\ producers' = IF owner = Nil THEN producers
                  ELSE [producers EXCEPT ![g] = [owner |-> owner, instance |-> born[g] + 1]]
  /\ UNCHANGED <<pending, claimVars, observed, committed, discarded>>

\* Mutant: activation that asks for the record and no reservation.
activateRecorded(k, g, p) ==
  /\ records[k][g] # Nil /\ pending[k][g] = Nil
  /\ reserved' = [reserved EXCEPT ![k][g] = Nil]
  /\ pending' = [pending EXCEPT ![k][g] = p]
  /\ UNCHANGED <<records, producers, claimVars, observed, auxVars>>

activateReserved(k, g, p) ==
  /\ pending[k][g] = Nil /\ reserved[k][g] = p
  /\ reserved' = [reserved EXCEPT ![k][g] = Nil]
  /\ pending' = [pending EXCEPT ![k][g] = p]
  /\ UNCHANGED <<records, producers, claimVars, observed, auxVars>>

\* RestoreApproval and RestoreUserInput bring back the record alone: a gate of
\* an earlier process is shown and is never executable.
Restore(k, g, r) ==
  /\ ~gateIDExists(g)
  /\ records' = [records EXCEPT ![k][g] = r]
  /\ UNCHANGED <<reserved, pending, producers, claimVars, observed, auxVars>>

\* DeleteApproval and DeleteUserInput: everything of the id goes, the claims
\* whatever kind they are of.
Delete(k, g) ==
  /\ records' = [records EXCEPT ![k][g] = Nil]
  /\ reserved' = [reserved EXCEPT ![k][g] = Nil]
  /\ pending' = [pending EXCEPT ![k][g] = Nil]
  /\ producers' = IF k = "user_input" THEN [producers EXCEPT ![g] = Nil] ELSE producers
  /\ continuation' = [continuation EXCEPT ![g] = Nil]
  /\ terminal' = [terminal EXCEPT ![g] = Nil]
  /\ discarded' = discarded \cup { c.token : c \in {continuation[g], terminal[g]} \ {Nil} }
  /\ UNCHANGED <<nextClaimToken, observed, born, committed>>

--------------------------------------------------------------------------------
(* A response: observe, claim, mark, and commit or promote.                *)

\* PeekUserInput, and PeekUserInputAdmissionV1 (owned): what a response keeps
\* while it validates the answer or waits for the producer.
Peek(o, g, owned) ==
  LET p == IF pending["user_input"][g] # Nil THEN pending["user_input"][g]
           ELSE IF owned THEN reserved["user_input"][g] ELSE Nil
  IN /\ records["user_input"][g] # Nil /\ p # Nil
     /\ observed' = [observed EXCEPT ![o] =
          [gate |-> g, record |-> records["user_input"][g], payload |-> p,
           binding |-> IF owned THEN producers[g] ELSE Nil, born |-> born[g]]]
     /\ UNCHANGED <<gateVars, claimVars, auxVars>>

\* Mutant: the private binding is not compared.
sameRequest(g, a) ==
  /\ records["user_input"][g] = a.record /\ pending["user_input"][g] = a.payload

expectedAdmission(g, a) ==
  /\ records["user_input"][g] = a.record /\ pending["user_input"][g] = a.payload
  /\ producers[g] = a.binding

claimContinuation(k, g) ==
  /\ records[k][g] # Nil /\ pending[k][g] # Nil /\ nextClaimToken < MaxToken
  /\ pending' = [pending EXCEPT ![k][g] = Nil]
  /\ producers' = IF k = "user_input" THEN [producers EXCEPT ![g] = Nil] ELSE producers
  /\ nextClaimToken' = nextClaimToken + 1
  /\ continuation' = [continuation EXCEPT ![g] =
       [kind |-> k, token |-> nextClaimToken + 1, record |-> records[k][g],
        payload |-> pending[k][g], resolution |-> Nil]]
  /\ UNCHANGED <<records, reserved, terminal, auxVars>>

ClaimApproval(g) == claimContinuation("approval", g) /\ UNCHANGED observed

\* ClaimUserInputExact and ClaimUserInputAdmissionV1: only what was observed.
ClaimUserInput(o) ==
  /\ observed[o] # Nil
  /\ expectedAdmission(observed[o].gate, observed[o])
  /\ claimContinuation("user_input", observed[o].gate)
  /\ observed' = [observed EXCEPT ![o] = Nil]

\* Mutant: a claim is looked up by its gate alone.
holdsGate(g, token, resolution) == continuation[g] # Nil

\* The stored claim equals the presented one.
holdsClaim(g, token, resolution) ==
  /\ continuation[g] # Nil
  /\ continuation[g].token = token /\ continuation[g].resolution = resolution

MarkClaimDisposition(g, token, resolution) ==
  /\ holdsClaim(g, token, Nil)
  /\ continuation' = [continuation EXCEPT ![g].resolution = resolution]
  /\ UNCHANGED <<gateVars, terminal, nextClaimToken, observed, auxVars>>

terminalClaimFromContinuation(c, intent) ==
  [kind |-> c.kind, token |-> c.token, record |-> c.record, payload |-> c.payload,
   resolution |-> c.resolution, intent |-> intent]

\* Mutant: the promoted claim stays with its continuation.
PromoteCopied(g, token, resolution, intent) ==
  /\ holdsClaim(g, token, resolution)
  /\ terminal' = [terminal EXCEPT ![g] =
                    terminalClaimFromContinuation(continuation[g], intent)]
  /\ UNCHANGED <<gateVars, continuation, nextClaimToken, observed, auxVars>>

PromoteClaimToTerminalWithIntent(g, token, resolution, intent) ==
  /\ holdsClaim(g, token, resolution)
  /\ terminal' = [terminal EXCEPT ![g] =
                    terminalClaimFromContinuation(continuation[g], intent)]
  /\ continuation' = [continuation EXCEPT ![g] = Nil]
  /\ UNCHANGED <<gateVars, nextClaimToken, observed, auxVars>>

CommitContinuationClaim(g, token, resolution) ==
  /\ holdsClaim(g, token, resolution)
  /\ continuation' = [continuation EXCEPT ![g] = Nil]
  /\ committed' = committed \cup {token}
  /\ UNCHANGED <<gateVars, terminal, nextClaimToken, observed, born, discarded>>

--------------------------------------------------------------------------------
(* The terminal paths: drain a scope, bind the intent, commit.             *)

\* Gates of the scope that hold a staged or an executable request.
Drainable(k, S) == { g \in Gates : /\ records[k][g] \in S
                                   /\ reserved[k][g] # Nil \/ pending[k][g] # Nil }

\* Every such gate gets a terminal claim with a token of its own, in the order
\* the maps are walked.
newTerminalClaim(k, g, token) ==
  [kind |-> k, token |-> token, record |-> records[k][g],
   payload |-> IF reserved[k][g] # Nil THEN reserved[k][g] ELSE pending[k][g],
   resolution |-> Nil, intent |-> Nil]

\* Mutant: a drained claim takes the token after the one that is counted.
nextTokensBeyond(G, last) == Bijection(G, (nextClaimToken + 2)..(last + 1))

nextTokens(G, last) == Bijection(G, (nextClaimToken + 1)..last)

\* The claims of a drain, its requests and the claims in hand it takes over.
drainedWith(S, last, f) ==
  LET taken == { g \in Gates : continuation[g] # Nil /\ continuation[g].record \in S }
  IN /\ terminal' = [g \in Gates |->
          IF g \in Drainable("approval", S) THEN newTerminalClaim("approval", g, f[g])
          ELSE IF g \in Drainable("user_input", S)
            THEN newTerminalClaim("user_input", g, f[g])
          ELSE IF g \in taken THEN terminalClaimFromContinuation(continuation[g], Nil)
          ELSE terminal[g]]
     /\ continuation' = [g \in Gates |-> IF g \in taken THEN Nil ELSE continuation[g]]
     /\ reserved' = [k \in Kinds |-> [g \in Gates |->
          IF g \in Drainable(k, S) THEN Nil ELSE reserved[k][g]]]
     /\ pending' = [k \in Kinds |-> [g \in Gates |->
          IF g \in Drainable(k, S) THEN Nil ELSE pending[k][g]]]
     /\ producers' = [g \in Gates |->
          IF g \in Drainable("user_input", S) THEN Nil ELSE producers[g]]
     /\ nextClaimToken' = last
     /\ UNCHANGED <<records, observed, auxVars>>

\* DrainForTurn, DrainForThread and DrainAll.
Drain(S) ==
  \E last \in nextClaimToken..MaxToken :
  \E f \in nextTokens(UNION { Drainable(k, S) : k \in Kinds }, last) :
    drainedWith(S, last, f)

\* What a terminal path holds of the gates it drained or promoted: for each,
\* the token, and the intent when it was bound.
Batches == UNION { [G -> [token : 1..nextClaimToken, intent : Intents \cup {Nil}]] :
                   G \in SUBSET Gates \ {{}} }

terminalClaimMatches(g, d) ==
  /\ terminal[g] # Nil /\ terminal[g].token = d.token
  /\ d.intent # Nil => terminal[g].intent = d.intent

\* Mutant: the last reason to arrive wins.
boundIntentLatest(g, intent) == intent

\* The first intent is frozen; a later one does not replace it.
boundIntent(g, intent) ==
  IF terminal[g].intent = Nil THEN intent ELSE terminal[g].intent

\* The batch is bound claim by claim: up to the first that does not match, when
\* the call fails with the earlier ones bound.
BindTerminalIntent(batch, intent) ==
  LET matched == { g \in DOMAIN batch : \A h \in DOMAIN batch :
                     h <= g => terminalClaimMatches(h, batch[h]) }
  IN /\ matched # {}
     /\ terminal' = [g \in Gates |->
          IF g \in matched THEN [terminal[g] EXCEPT !.intent = boundIntent(g, intent)]
          ELSE terminal[g]]
     /\ UNCHANGED <<gateVars, continuation, nextClaimToken, observed, auxVars>>

\* All of the batch or nothing.
CommitDrained(batch) ==
  /\ \A g \in DOMAIN batch : terminalClaimMatches(g, batch[g])
  /\ terminal' = [g \in Gates |-> IF g \in DOMAIN batch THEN Nil ELSE terminal[g]]
  /\ committed' = committed \cup { batch[g].token : g \in DOMAIN batch }
  /\ UNCHANGED <<gateVars, continuation, nextClaimToken, observed, born, discarded>>

Requests(k, g) ==
  \/ \E r \in Records, p \in Payloads, owner \in Owners \cup {Nil} :
       reservePending(k, g, r, p, owner)
  \/ \E p \in Payloads : activateReserved(k, g, p)
  \/ \E r \in Records : Restore(k, g, r)
  \/ Delete(k, g)

Responses(g) ==
  \/ ClaimApproval(g)
  \/ \E o \in Observers, owned \in BOOLEAN : Peek(o, g, owned)
  \/ \E token \in 1..nextClaimToken, resolution \in Resolutions :
       MarkClaimDisposition(g, token, resolution)
  \/ \E token \in 1..nextClaimToken, resolution \in Resolutions \cup {Nil} :
       \/ CommitContinuationClaim(g, token, resolution)
       \/ \E intent \in Intents \cup {Nil} :
            PromoteClaimToTerminalWithIntent(g, token, resolution, intent)

Terminals ==
  \/ \E S \in Scopes : Drain(S)
  \/ \E batch \in Batches : \/ CommitDrained(batch)
                            \/ \E intent \in Intents : BindTerminalIntent(batch, intent)

Next ==
  \/ \E k \in Kinds, g \in Gates : Requests(k, g)
  \/ \E g \in Gates : Responses(g)
  \/ \E o \in Observers : ClaimUserInput(o)
  \/ Terminals

Spec == Init /\ [][Next]_vars

--------------------------------------------------------------------------------
(* Properties.                                                             *)

\* The shape of the registry's maps, bindings, claims and admissions.
TypeOK ==
  /\ records \in [Kinds -> [Gates -> Records \cup {Nil}]]
  /\ reserved \in [Kinds -> [Gates -> Payloads \cup {Nil}]]
  /\ pending \in [Kinds -> [Gates -> Payloads \cup {Nil}]]
  /\ producers \in [Gates -> Binding \cup {Nil}]
  /\ continuation \in [Gates -> Claim \cup {Nil}]
  /\ terminal \in [Gates -> DrainedGate \cup {Nil}]
  /\ nextClaimToken \in 0..MaxToken
  /\ observed \in [Observers -> Admission \cup {Nil}]
  /\ born \in [Gates -> 0..MaxBorn]
  /\ committed \subseteq 1..nextClaimToken /\ discarded \subseteq 1..nextClaimToken

\* A gate id is of one kind and in one place: it is staged, executable, claimed
\* or drained and never two of them, and whoever holds it works on the record
\* the registry shows for it (gateIDExists, and the moves between the maps).
OneHolder ==
  \A g \in Gates :
    /\ \A j, k \in Kinds : records[j][g] # Nil /\ records[k][g] # Nil => j = k
    /\ \A k \in Kinds : /\ reserved[k][g] = Nil \/ pending[k][g] = Nil
                        /\ reserved[k][g] # Nil \/ pending[k][g] # Nil =>
                             /\ records[k][g] # Nil
                             /\ continuation[g] = Nil /\ terminal[g] = Nil
    /\ continuation[g] = Nil \/ terminal[g] = Nil
    /\ \A c \in {continuation[g], terminal[g]} \ {Nil} : c.record = records[c.kind][g]

HasToken(c, token) == c # Nil /\ c.token = token
HeldBy(g, token) == HasToken(continuation[g], token) \/ HasToken(terminal[g], token)

\* Claims are conserved: every token given out is the token of exactly one live
\* claim, or was committed by its holder, or went with a deleted gate.  So no
\* claim is lost, given to two, or ended by a holder of an older one (the
\* monotonic token of GateClaim).
ClaimsConserved ==
  /\ committed \cap discarded = {}
  /\ \A token \in 1..MaxToken :
       (\E g \in Gates : HeldBy(g, token)) <=>
         token <= nextClaimToken /\ token \notin committed \cup discarded
  /\ \A g, h \in Gates : \A token \in 1..MaxToken :
       HeldBy(g, token) /\ HeldBy(h, token) => g = h

KeepsDisposition(g) ==
  /\ continuation[g] # Nil =>
       \/ continuation'[g] \in {continuation[g], Nil} /\ terminal'[g] = Nil
       \/ /\ continuation[g].resolution = Nil
          /\ \E r \in Resolutions :
               continuation'[g] = [continuation[g] EXCEPT !.resolution = r]
       \/ /\ continuation'[g] = Nil
          /\ \E i \in Intents \cup {Nil} :
               terminal'[g] = terminalClaimFromContinuation(continuation[g], i)
  /\ terminal[g] # Nil =>
       \/ terminal'[g] \in {terminal[g], Nil}
       \/ /\ terminal[g].intent = Nil
          /\ \E i \in Intents : terminal'[g] = [terminal[g] EXCEPT !.intent = i]

\* A claim keeps what it was claimed with and its first dispositions, from the
\* claim to its end: a marked resolution and a bound intent never change, and
\* they survive promotion and drains (MarkClaimDisposition, BindTerminalIntent).
DispositionFrozen == [][\A g \in Gates : KeepsDisposition(g)]_vars

\* A response that observed an owned question claims that very request: not one
\* deleted and asked again in identical words meanwhile (the private binding of
\* UserInputAdmissionV1).
ClaimedAsObserved ==
  [][\A o \in Observers :
       ClaimUserInput(o) /\ observed[o].binding # Nil =>
         observed[o].born = born[observed[o].gate]]_vars

stageOf(g) ==
  IF terminal[g] # Nil THEN "terminal"
  ELSE IF continuation[g] # Nil THEN "claimed"
  ELSE IF \E k \in Kinds : pending[k][g] # Nil THEN "executable"
  ELSE IF \E k \in Kinds : reserved[k][g] # Nil THEN "reserved"
  ELSE IF \E k \in Kinds : records[k][g] # Nil THEN "settled"
  ELSE "absent"

Lifecycle == INSTANCE GateLifecycle WITH stage <- [g \in Gates |-> stageOf(g)]

\* The registry implements the life of a gate: only a staged request becomes
\* executable, only an executable one is claimed, and a gate that was claimed or
\* drained is executable again only after it was deleted and asked anew.
ImplementsLifecycle == Lifecycle!Spec
================================================================================
