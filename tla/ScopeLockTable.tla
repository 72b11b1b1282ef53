---------------------------- MODULE ScopeLockTable ----------------------------
(***************************************************************************)
(* What one scopeLock of the effect gate promises, stated over the sets of *)
(* calls instead of counters: shared and exclusive holders per key, and    *)
(* writers that have queued and that no newcomer may overtake to read.     *)
(***************************************************************************)
CONSTANTS Req, Key

VARIABLES shared, exclusive, queued
tableVars == <<shared, exclusive, queued>>

Init ==
  /\ shared = [k \in Key |-> {}]
  /\ exclusive = [k \in Key |-> {}]
  /\ queued = [k \in Key |-> {}]

\* A reader enters when nobody owns the key and nobody has queued for it.
Share(r, k) ==
  /\ exclusive[k] = {} /\ queued[k] = {}
  /\ shared' = [shared EXCEPT ![k] = @ \cup {r}]
  /\ UNCHANGED <<exclusive, queued>>

Queue(r, k) ==
  /\ queued' = [queued EXCEPT ![k] = @ \cup {r}]
  /\ UNCHANGED <<shared, exclusive>>

\* A queued writer owns the key when nobody shares or owns it.
Own(r, k) ==
  /\ r \in queued[k] /\ shared[k] = {} /\ exclusive[k] = {}
  /\ queued' = [queued EXCEPT ![k] = @ \ {r}]
  /\ exclusive' = [exclusive EXCEPT ![k] = {r}]
  /\ UNCHANGED shared

Withdraw(r, k) ==
  /\ r \in queued[k]
  /\ queued' = [queued EXCEPT ![k] = @ \ {r}]
  /\ UNCHANGED <<shared, exclusive>>

Leave(r, k) ==
  /\ r \in shared[k]
  /\ shared' = [shared EXCEPT ![k] = @ \ {r}]
  /\ UNCHANGED <<exclusive, queued>>

Yield(r, k) ==
  /\ r \in exclusive[k]
  /\ exclusive' = [exclusive EXCEPT ![k] = @ \ {r}]
  /\ UNCHANGED <<shared, queued>>

Next == \E r \in Req, k \in Key :
          \/ Share(r, k) \/ Queue(r, k) \/ Own(r, k)
          \/ Withdraw(r, k) \/ Leave(r, k) \/ Yield(r, k)

Spec == Init /\ [][Next]_tableVars
===============================================================================
