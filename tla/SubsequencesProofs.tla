-------------------------- MODULE SubsequencesProofs --------------------------
(***************************************************************************)
(* The laws of Among, for every sequence and every set. The provers cannot *)
(* instantiate an induction theorem that takes a predicate, so induction   *)
(* is stated of a set first: NatSets from the least-element principle of   *)
(* the well-founded order of the naturals, SeqSets from NatSets. From      *)
(* these, Among satisfies its recursive equation and what is claimed of it *)
(* holds of the set of all sequences.                                      *)
(***************************************************************************)
EXTENDS Subsequences, Integers, SequencesExt, SequenceTheorems, WellFoundedInduction, TLAPS

-----------------------------------------------------------------------------
(* Induction, stated of sets *)

\* A set of naturals that is not empty has a least member.
LEMMA Least ==
  ASSUME NEW T \in SUBSET Nat, T # {}
  PROVE  \E n \in T : \A m \in T : n <= m
<1>. DEFINE R == {p \in Nat \X Nat : p[1] < p[2]}
<1>1. IsWellFoundedOn(R, Nat)
  BY NatLessThanWellFounded DEF OpToRel
<1>. HIDE DEF R
<1>2. PICK x \in T : \A y \in T : <<y, x>> \notin R
  BY <1>1, WFMin
<1>3. \A y \in Nat : y < x => <<y, x>> \in R
  BY DEF R
<1>4. \A y \in T : ~(y < x)
  BY <1>2, <1>3
<1>. QED  BY <1>4

\* Induction on the naturals, for a set: what holds zero and the successor of
\* each of its members holds every natural.
LEMMA NatSets ==
  ASSUME NEW T, 0 \in T, \A n \in Nat : n \in T => n + 1 \in T
  PROVE  Nat \subseteq T
<1>. SUFFICES ASSUME Nat \ T # {} PROVE FALSE
  OBVIOUS
<1>1. PICK n \in Nat \ T : \A m \in Nat \ T : n <= m
  BY Least
<1>2. n # 0 /\ n - 1 \in Nat /\ ~(n <= n - 1)
  OBVIOUS
<1>3. n - 1 \in T
  BY <1>1, <1>2
<1>. QED  BY <1>1, <1>2, <1>3

\* Induction on sequences, for a set: what holds the empty sequence and is
\* closed under Append holds every sequence.
LEMMA SeqSets ==
  ASSUME NEW S, NEW X, <<>> \in X,
         \A s \in Seq(S), e \in S : s \in X => Append(s, e) \in X
  PROVE  Seq(S) \subseteq X
<1>. DEFINE T == {n \in Nat : \A s \in Seq(S) : Len(s) = n => s \in X}
<1>1. 0 \in T
  BY EmptySeq
<1>2. ASSUME NEW n \in Nat, n \in T, NEW s \in Seq(S), Len(s) = n + 1
      PROVE  s \in X
  <2>1. s # <<>>
    BY <1>2
  <2>2. PICK r \in Seq(S), e \in S : s = Append(r, e)
    BY <2>1, SequenceEmptyOrAppend
  <2>3. Len(r) = n
    BY <1>2, <2>2
  <2>. QED  BY <1>2, <2>2, <2>3
<1>. HIDE DEF T
<1>3. \A n \in Nat : n \in T => n + 1 \in T
  BY <1>2 DEF T
<1>4. Nat \subseteq T
  BY <1>1, <1>3, NatSets
<1>. QED  BY <1>4 DEF T

-----------------------------------------------------------------------------
(* Selections *)

\* The recursive function that Among is defined by, and its step.
AmongStep(g, s, T, i) ==
  IF i = 0 THEN <<>> ELSE IF s[i] \in T THEN Append(g[i - 1], s[i]) ELSE g[i - 1]
AmongRun(s, T) == CHOOSE g : g = [i \in 0 .. Len(s) |-> AmongStep(g, s, T, i)]

LEMMA AmongIs == ASSUME NEW s, NEW T PROVE Among(s, T) = AmongRun(s, T)[Len(s)]
BY DEF Among, AmongRun, AmongStep

\* There is a function that satisfies the recursive equation, so the chosen one
\* does.
LEMMA RunDefined ==
  ASSUME NEW S, NEW s \in Seq(S), NEW T
  PROVE  AmongRun(s, T) = [i \in 0 .. Len(s) |-> AmongStep(AmongRun(s, T), s, T, i)]
<1>. DEFINE D == {n \in Nat : n <= Len(s) => \E g : g = [i \in 0 .. n |-> AmongStep(g, s, T, i)]}
<1>0. Len(s) \in Nat
  OBVIOUS
<1>1. 0 \in D
  <2>. DEFINE g == [i \in 0 .. 0 |-> <<>>]
  <2>1. g = [i \in 0 .. 0 |-> AmongStep(g, s, T, i)]
    BY DEF AmongStep
  <2>. QED  BY <2>1
<1>2. ASSUME NEW n \in Nat, n \in D, n + 1 <= Len(s)
      PROVE  \E h : h = [i \in 0 .. n + 1 |-> AmongStep(h, s, T, i)]
  <2>1. PICK g : g = [i \in 0 .. n |-> AmongStep(g, s, T, i)]
    BY <1>0, <1>2
  <2>. DEFINE h == [i \in 0 .. n + 1 |-> IF i = n + 1 THEN AmongStep(g, s, T, n + 1) ELSE g[i]]
  <2>2. \A i \in 0 .. n : h[i] = g[i]
    OBVIOUS
  <2>3. \A i \in 0 .. n + 1 : AmongStep(h, s, T, i) = AmongStep(g, s, T, i)
    BY <2>2 DEF AmongStep
  <2>4. \A i \in 0 .. n : g[i] = AmongStep(g, s, T, i)
    BY <2>1
  <2>5. h = [i \in 0 .. n + 1 |-> AmongStep(h, s, T, i)]
    BY <2>3, <2>4
  <2>. QED  BY <2>5
<1>. HIDE DEF D
<1>3. \A n \in Nat : n \in D => n + 1 \in D
  BY <1>2, <1>0 DEF D
<1>4. Nat \subseteq D
  BY <1>1, <1>3, NatSets
<1>5. \E g : g = [i \in 0 .. Len(s) |-> AmongStep(g, s, T, i)]
  BY <1>0, <1>4 DEF D
<1>. QED  BY <1>5 DEF AmongRun

\* Nothing is selected from the empty sequence.
LEMMA AmongNone == ASSUME NEW T PROVE Among(<<>>, T) = <<>>
<1>1. PICK s \in Seq({}) : s = <<>> /\ Len(s) = 0
  BY EmptySeq
<1>. DEFINE g == AmongRun(s, T)
<1>2. g = [i \in 0 .. Len(s) |-> AmongStep(g, s, T, i)]
  BY RunDefined
<1>. HIDE DEF g
<1>3. g[0] = AmongStep(g, s, T, 0)
  BY <1>1, <1>2
<1>4. Among(s, T) = <<>>
  BY <1>1, <1>3, AmongIs DEF AmongStep, g
<1>. QED  BY <1>1, <1>4

\* The recursive equation of Among, from the end.
LEMMA AmongAppend ==
  ASSUME NEW S, NEW s \in Seq(S), NEW e \in S, NEW T
  PROVE  Among(Append(s, e), T) = IF e \in T THEN Append(Among(s, T), e) ELSE Among(s, T)
<1>. DEFINE r == Append(s, e)
            f == AmongRun(s, T)
            g == AmongRun(r, T)
<1>1. /\ r \in Seq(S) /\ Len(s) \in Nat /\ Len(r) = Len(s) + 1 /\ r[Len(s) + 1] = e
      /\ \A i \in 1 .. Len(s) : r[i] = s[i]
  BY AppendProperties
<1>2. f = [i \in 0 .. Len(s) |-> AmongStep(f, s, T, i)] /\ g = [i \in 0 .. Len(r) |-> AmongStep(g, r, T, i)]
  <2>1. f = [i \in 0 .. Len(s) |-> AmongStep(f, s, T, i)]
    BY RunDefined
  <2>. HIDE DEF r
  <2>2. g = [i \in 0 .. Len(r) |-> AmongStep(g, r, T, i)]
    BY <1>1, RunDefined
  <2>. QED  BY <2>1, <2>2
<1>. HIDE DEF r, f, g
<1>. DEFINE D == {n \in Nat : n <= Len(s) => f[n] = g[n]}
<1>3. 0 \in D
  BY <1>1, <1>2 DEF AmongStep
<1>4. ASSUME NEW n \in Nat, n \in D, n + 1 <= Len(s)
      PROVE  f[n + 1] = g[n + 1]
  <2>1. f[n] = g[n] /\ r[n + 1] = s[n + 1] /\ n + 1 - 1 = n /\ n + 1 # 0
    BY <1>1, <1>4
  <2>2. f[n + 1] = AmongStep(f, s, T, n + 1) /\ g[n + 1] = AmongStep(g, r, T, n + 1)
    <3>1. n + 1 \in 0 .. Len(s) /\ n + 1 \in 0 .. Len(r)
      BY <1>1, <1>4
    <3>. QED  BY <1>2, <3>1
  <2>. QED  BY <2>1, <2>2 DEF AmongStep
<1>. HIDE DEF D
<1>5. ASSUME NEW n \in Nat, n \in D
      PROVE  n + 1 \in D
  <2>1. n + 1 <= Len(s) => f[n + 1] = g[n + 1]
    BY <1>4, <1>5
  <2>. QED  BY <2>1 DEF D
<1>6. f[Len(s)] = g[Len(s)]
  <2>1. Nat \subseteq D
    BY <1>3, <1>5, NatSets
  <2>. QED  BY <1>1, <2>1 DEF D
<1>7. g[Len(s) + 1] = AmongStep(g, r, T, Len(s) + 1)
  <2>1. Len(s) + 1 \in 0 .. Len(r) /\ Len(s) + 1 # 0
    BY <1>1
  <2>. QED  BY <1>2, <2>1
<1>8. g[Len(s) + 1] = IF e \in T THEN Append(f[Len(s)], e) ELSE f[Len(s)]
  BY <1>1, <1>6, <1>7 DEF AmongStep
<1>. QED  BY <1>1, <1>8, AmongIs DEF f, g, r

\* The members of a sequence.
LEMMA Members ==
  ASSUME NEW S
  PROVE  /\ ToSet(<<>>) = {}
         /\ \A s \in Seq(S), e \in S : ToSet(Append(s, e)) = ToSet(s) \cup {e}
         /\ \A s, t \in Seq(S) : ToSet(s \o t) = ToSet(s) \cup ToSet(t)
         /\ \A s \in Seq(S) : ToSet(s) \subseteq S /\ (ToSet(s) = {} <=> s = <<>>)
<1>1. ToSet(<<>>) = {}
  BY DEF ToSet
<1>2. ASSUME NEW s \in Seq(S), NEW e \in S
      PROVE  ToSet(Append(s, e)) = ToSet(s) \cup {e}
  <2>1. /\ DOMAIN s = 1 .. Len(s) /\ Len(s) \in Nat
        /\ DOMAIN Append(s, e) = 1 .. (Len(s) + 1)
        /\ Append(s, e)[Len(s) + 1] = e /\ \A i \in 1 .. Len(s) : Append(s, e)[i] = s[i]
    BY AppendProperties
  <2>. QED  BY <2>1 DEF ToSet
<1>3. ASSUME NEW s \in Seq(S), NEW t \in Seq(S)
      PROVE  ToSet(s \o t) = ToSet(s) \cup ToSet(t)
  <2>1. /\ DOMAIN s = 1 .. Len(s) /\ Len(s) \in Nat
        /\ DOMAIN t = 1 .. Len(t) /\ Len(t) \in Nat
        /\ DOMAIN (s \o t) = 1 .. (Len(s) + Len(t))
        /\ \A i \in 1 .. Len(s) : (s \o t)[i] = s[i]
        /\ \A i \in 1 .. Len(t) : (s \o t)[Len(s) + i] = t[i]
    BY ConcatProperties
  <2>2. \A i \in 1 .. (Len(s) + Len(t)) :
          i \in 1 .. Len(s) \/ (i - Len(s) \in 1 .. Len(t) /\ i = Len(s) + (i - Len(s)))
    BY <2>1
  <2>3. ToSet(s \o t) \subseteq ToSet(s) \cup ToSet(t)
    BY <2>1, <2>2 DEF ToSet
  <2>4. \A i \in 1 .. Len(s) : i \in 1 .. (Len(s) + Len(t))
    BY <2>1
  <2>5. \A i \in 1 .. Len(t) : Len(s) + i \in 1 .. (Len(s) + Len(t))
    BY <2>1
  <2>6. ToSet(s) \cup ToSet(t) \subseteq ToSet(s \o t)
    BY <2>1, <2>4, <2>5 DEF ToSet
  <2>. QED  BY <2>3, <2>6
<1>4. ASSUME NEW s \in Seq(S)
      PROVE  ToSet(s) \subseteq S /\ (ToSet(s) = {} <=> s = <<>>)
  <2>1. DOMAIN s = 1 .. Len(s) /\ Len(s) \in Nat /\ \A i \in 1 .. Len(s) : s[i] \in S
    BY ElementOfSeq, LenProperties
  <2>2. s # <<>> => 1 \in 1 .. Len(s)
    BY EmptySeq
  <2>. QED  BY <1>1, <2>1, <2>2 DEF ToSet
<1>. QED  BY <1>1, <1>2, <1>3, <1>4

\* The members of a selection.
LEMMA AmongMembers ==
  ASSUME NEW S, NEW T, NEW s \in Seq(S)
  PROVE  Among(s, T) \in Seq(S) /\ ToSet(Among(s, T)) = ToSet(s) \cap T
<1>. DEFINE X == {r \in Seq(S) : Among(r, T) \in Seq(S) /\ ToSet(Among(r, T)) = ToSet(r) \cap T}
<1>1. <<>> \in X
  <2>1. Among(<<>>, T) = <<>> /\ <<>> \in Seq(S) /\ ToSet(<<>>) = {}
    BY AmongNone, Members, EmptySeq
  <2>. QED  BY <2>1
<1>2. ASSUME NEW r \in Seq(S), NEW e \in S, r \in X
      PROVE  Append(r, e) \in X
  <2>1. Append(r, e) \in Seq(S) /\ ToSet(Append(r, e)) = ToSet(r) \cup {e}
    BY Members, AppendProperties
  <2>2. Among(Append(r, e), T) = IF e \in T THEN Append(Among(r, T), e) ELSE Among(r, T)
    BY AmongAppend
  <2>3. Append(Among(r, T), e) \in Seq(S) /\ ToSet(Append(Among(r, T), e)) = ToSet(Among(r, T)) \cup {e}
    BY <1>2, Members, AppendProperties
  <2>4. CASE e \in T
    BY <1>2, <2>1, <2>2, <2>3, <2>4
  <2>5. CASE e \notin T
    BY <1>2, <2>1, <2>2, <2>5
  <2>. QED  BY <2>4, <2>5
<1>. HIDE DEF X
<1>3. Seq(S) \subseteq X
  BY <1>1, <1>2, SeqSets
<1>. QED  BY <1>3 DEF X

\* Only what the sequence holds matters to a selection.
LEMMA AmongFrame ==
  ASSUME NEW S, NEW T, NEW U, NEW s \in Seq(S), ToSet(s) \cap T = ToSet(s) \cap U
  PROVE  Among(s, T) = Among(s, U)
<1>. DEFINE X == {r \in Seq(S) : ToSet(r) \cap T = ToSet(r) \cap U => Among(r, T) = Among(r, U)}
<1>1. <<>> \in X
  BY AmongNone, EmptySeq
<1>2. ASSUME NEW r \in Seq(S), NEW e \in S, r \in X
      PROVE  Append(r, e) \in X
  <2>1. Append(r, e) \in Seq(S) /\ ToSet(Append(r, e)) = ToSet(r) \cup {e}
    BY Members, AppendProperties
  <2>2. /\ Among(Append(r, e), T) = IF e \in T THEN Append(Among(r, T), e) ELSE Among(r, T)
        /\ Among(Append(r, e), U) = IF e \in U THEN Append(Among(r, U), e) ELSE Among(r, U)
    BY AmongAppend
  <2>4. ASSUME ToSet(Append(r, e)) \cap T = ToSet(Append(r, e)) \cap U
        PROVE  Among(Append(r, e), T) = Among(Append(r, e), U)
    <3>1. ToSet(r) \cap T = ToSet(r) \cap U /\ (e \in T <=> e \in U)
      BY <2>1, <2>4
    <3>2. Among(r, T) = Among(r, U)
      BY <1>2, <3>1
    <3>. QED  BY <2>2, <3>1, <3>2
  <2>. QED  BY <2>1, <2>4
<1>. HIDE DEF X
<1>3. Seq(S) \subseteq X
  BY <1>1, <1>2, SeqSets
<1>. QED  BY <1>3 DEF X

\* A selection from a selection.
LEMMA AmongTwice ==
  ASSUME NEW S, NEW T, NEW U, NEW s \in Seq(S)
  PROVE  Among(Among(s, T), U) = Among(s, T \cap U)
<1>. DEFINE X == {r \in Seq(S) : Among(Among(r, T), U) = Among(r, T \cap U)}
<1>1. <<>> \in X
  BY AmongNone, EmptySeq
<1>2. ASSUME NEW r \in Seq(S), NEW e \in S, r \in X
      PROVE  Append(r, e) \in X
  <2>1. Append(r, e) \in Seq(S) /\ Among(r, T) \in Seq(S)
    BY AppendProperties, AmongMembers
  <2>2. /\ Among(Append(r, e), T) = IF e \in T THEN Append(Among(r, T), e) ELSE Among(r, T)
        /\ Among(Append(r, e), T \cap U) =
             IF e \in T \cap U THEN Append(Among(r, T \cap U), e) ELSE Among(r, T \cap U)
        /\ Among(Append(Among(r, T), e), U) =
             IF e \in U THEN Append(Among(Among(r, T), U), e) ELSE Among(Among(r, T), U)
    BY <2>1, AmongAppend
  <2>3. Among(Among(r, T), U) = Among(r, T \cap U)
    BY <1>2
  <2>4. Among(Among(Append(r, e), T), U) = Among(Append(r, e), T \cap U)
    <3>1. CASE e \in T
      <4>1. Among(Append(r, e), T) = Append(Among(r, T), e)
        BY <2>2, <3>1
      <4>2. e \in T \cap U <=> e \in U
        BY <3>1
      <4>. QED  BY <2>2, <2>3, <4>1, <4>2
    <3>2. CASE e \notin T
      BY <2>2, <2>3, <3>2
    <3>. QED  BY <3>1, <3>2
  <2>. QED  BY <2>1, <2>4
<1>. HIDE DEF X
<1>3. Seq(S) \subseteq X
  BY <1>1, <1>2, SeqSets
<1>. QED  BY <1>3 DEF X

\* A sequence stays without repetition if what is appended is new.
LEMMA AppendDistinct ==
  ASSUME NEW S, NEW s \in Seq(S), NEW e \in S
  PROVE  IsInjective(Append(s, e)) <=> IsInjective(s) /\ e \notin ToSet(s)
<1>1. /\ DOMAIN s = 1 .. Len(s) /\ Len(s) \in Nat
      /\ DOMAIN Append(s, e) = 1 .. (Len(s) + 1)
      /\ Append(s, e)[Len(s) + 1] = e /\ \A i \in 1 .. Len(s) : Append(s, e)[i] = s[i]
  BY AppendProperties
<1>2. \A i \in 1 .. (Len(s) + 1) : i \in 1 .. Len(s) \/ i = Len(s) + 1
  BY <1>1
<1>3. \A i \in 1 .. Len(s) : i \in 1 .. (Len(s) + 1) /\ i # Len(s) + 1
  BY <1>1
<1>4. IsInjective(Append(s, e)) => IsInjective(s)
  BY <1>1, <1>3 DEF IsInjective
<1>5. ASSUME IsInjective(Append(s, e)), NEW i \in 1 .. Len(s), s[i] = e
      PROVE  FALSE
  <2>1. Append(s, e)[i] = Append(s, e)[Len(s) + 1] /\ Len(s) + 1 \in 1 .. (Len(s) + 1)
    BY <1>1, <1>5
  <2>. QED  BY <1>1, <1>3, <1>5, <2>1 DEF IsInjective
<1>6. ASSUME IsInjective(s), e \notin ToSet(s)
      PROVE  IsInjective(Append(s, e))
  BY <1>1, <1>2, <1>6 DEF IsInjective, ToSet
<1>. QED  BY <1>1, <1>4, <1>5, <1>6 DEF ToSet

\* A selection repeats nothing that the sequence does not.
LEMMA AmongDistinct ==
  ASSUME NEW S, NEW T, NEW s \in Seq(S), IsInjective(s)
  PROVE  IsInjective(Among(s, T))
<1>. DEFINE X == {r \in Seq(S) : IsInjective(r) => IsInjective(Among(r, T))}
<1>1. <<>> \in X
  BY AmongNone, EmptySeq DEF IsInjective
<1>2. ASSUME NEW r \in Seq(S), NEW e \in S, r \in X
      PROVE  Append(r, e) \in X
  <2>1. Append(r, e) \in Seq(S) /\ Among(r, T) \in Seq(S) /\ ToSet(Among(r, T)) = ToSet(r) \cap T
    BY AppendProperties, AmongMembers
  <2>2. Among(Append(r, e), T) = IF e \in T THEN Append(Among(r, T), e) ELSE Among(r, T)
    BY AmongAppend
  <2>3. IsInjective(Append(r, e)) <=> IsInjective(r) /\ e \notin ToSet(r)
    BY AppendDistinct
  <2>4. IsInjective(Append(Among(r, T), e)) <=> IsInjective(Among(r, T)) /\ e \notin ToSet(Among(r, T))
    BY <2>1, AppendDistinct
  <2>. QED  BY <1>2, <2>1, <2>2, <2>3, <2>4
<1>. HIDE DEF X
<1>3. Seq(S) \subseteq X
  BY <1>1, <1>2, SeqSets
<1>. QED  BY <1>3 DEF X

\* Of a sequence without repetition, what is not in a prefix is the rest.
LEMMA AmongRest ==
  ASSUME NEW S, NEW w \in Seq(S), IsInjective(w), NEW p \in Seq(S), IsPrefix(p, w), NEW U,
         ToSet(w) \cap U = ToSet(w) \ ToSet(p)
  PROVE  Among(w, U) = SubSeq(w, Len(p) + 1, Len(w))
<1>. DEFINE front(k) == SubSeq(w, 1, k)
            rest(k) == SubSeq(w, Len(p) + 1, k)
            D == {k \in Nat : k <= Len(w) => Among(front(k), U) = rest(k)}
<1>1. Len(p) \in Nat /\ Len(w) \in Nat /\ DOMAIN w = 1 .. Len(w) /\ DOMAIN p = 1 .. Len(p)
      /\ Len(p) <= Len(w) /\ SubSeq(p, 1, Len(p)) = SubSeq(w, 1, Len(p))
  BY DEF IsPrefix
<1>2. \A i \in 1 .. Len(p) : p[i] = w[i]
  <2>1. \A i \in 1 .. Len(p) : SubSeq(p, 1, Len(p))[i] = p[i] /\ SubSeq(w, 1, Len(p))[i] = w[i]
    BY <1>1, SubSeqProperties
  <2>. QED  BY <1>1, <2>1
<1>3. \A i \in 1 .. Len(w) : w[i] \in U <=> i > Len(p)
  <2>1. \A i \in 1 .. Len(w) : i <= Len(p) => w[i] \in ToSet(p)
    BY <1>1, <1>2 DEF ToSet
  <2>2. \A i \in 1 .. Len(w) : w[i] \in ToSet(p) => i <= Len(p)
    BY <1>1, <1>2 DEF ToSet, IsInjective
  <2>3. \A i \in 1 .. Len(w) : w[i] \in ToSet(w)
    BY <1>1 DEF ToSet
  <2>. QED  BY <1>1, <2>1, <2>2, <2>3
<1>4. 0 \in D
  <2>1. front(0) = <<>> /\ rest(0) = <<>>
    BY <1>1, SubSeqEmpty
  <2>. QED  BY <2>1, AmongNone
<1>5. ASSUME NEW k \in Nat, k \in D, k + 1 <= Len(w)
      PROVE  Among(front(k + 1), U) = rest(k + 1)
  <2>1. /\ k + 1 \in 1 .. Len(w) /\ k + 1 - 1 = k /\ w[k + 1] \in S
        /\ \A i \in 1 .. k : w[i] \in S
    BY <1>1, <1>5
  <2>2. front(k) \in Seq(S)
    BY <2>1, SubSeqProperties
  <2>3. front(k + 1) = Append(front(k), w[k + 1])
    <3>1. front(k + 1) = front(k) \o <<w[k + 1]>>
      BY <2>1, SubSeqRecursiveSecond
    <3>. QED  BY <2>1, <2>2, <3>1, AppendIsConcat
  <2>4. Among(front(k), U) = rest(k)
    BY <1>1, <1>5
  <2>. HIDE DEF front
  <2>5. Among(front(k + 1), U) = IF w[k + 1] \in U THEN Append(rest(k), w[k + 1]) ELSE rest(k)
    <3>1. Among(Append(front(k), w[k + 1]), U) =
            IF w[k + 1] \in U THEN Append(Among(front(k), U), w[k + 1]) ELSE Among(front(k), U)
      <4>1. PICK r \in Seq(S), e \in S : r = front(k) /\ e = w[k + 1]
        BY <2>1, <2>2
      <4>2. Among(Append(r, e), U) = IF e \in U THEN Append(Among(r, U), e) ELSE Among(r, U)
        BY AmongAppend
      <4>. QED  BY <4>1, <4>2
    <3>. HIDE DEF rest
    <3>. QED  BY <2>3, <2>4, <3>1
  <2>6. CASE k + 1 > Len(p)
    <3>1. /\ Len(p) + 1 \in 1 .. Len(w) /\ k + 1 \in Len(p) + 1 .. Len(w)
          /\ \A i \in Len(p) + 1 .. k : w[i] \in S
      BY <1>1, <2>1, <2>6
    <3>2. rest(k + 1) = rest(k) \o <<w[k + 1]>>
      <4>0. PICK m \in 1 .. Len(w) : m = Len(p) + 1
        BY <3>1
      <4>1. PICK n \in m .. Len(w) : n = k + 1
        BY <3>1, <4>0
      <4>2. SubSeq(w, m, n) = SubSeq(w, m, n - 1) \o <<w[n]>>
        BY SubSeqRecursiveSecond
      <4>3. n - 1 = k
        BY <4>1
      <4>. QED  BY <4>0, <4>1, <4>2, <4>3
    <3>3. rest(k) \in Seq(S)
      BY <1>1, <3>1, SubSeqProperties
    <3>. HIDE DEF rest
    <3>4. rest(k + 1) = Append(rest(k), w[k + 1])
      BY <2>1, <3>2, <3>3, AppendIsConcat
    <3>5. w[k + 1] \in U
      BY <1>3, <2>1, <2>6
    <3>. QED  BY <2>5, <3>4, <3>5
  <2>7. CASE ~(k + 1 > Len(p))
    <3>1. rest(k) = <<>> /\ rest(k + 1) = <<>>
      BY <1>1, <2>1, <2>7, SubSeqEmpty
    <3>2. w[k + 1] \notin U
      BY <1>3, <2>1, <2>7
    <3>. HIDE DEF rest
    <3>. QED  BY <2>5, <3>1, <3>2
  <2>. QED  BY <2>6, <2>7
<1>6. front(Len(w)) = w
  BY SubSeqFull
<1>. HIDE DEF front, rest, D
<1>7. \A k \in Nat : k \in D => k + 1 \in D
  BY <1>1, <1>5 DEF D
<1>8. Nat \subseteq D
  BY <1>4, <1>7, NatSets
<1>. QED  BY <1>1, <1>6, <1>8 DEF D, rest

\* What has only such entries is its own selection.
LEMMA AmongAll ==
  ASSUME NEW S, NEW T, NEW s \in Seq(S), ToSet(s) \subseteq T
  PROVE  Among(s, T) = s
<1>. DEFINE X == {r \in Seq(S) : ToSet(r) \subseteq T => Among(r, T) = r}
<1>1. <<>> \in X
  BY AmongNone, EmptySeq
<1>2. ASSUME NEW r \in Seq(S), NEW e \in S, r \in X
      PROVE  Append(r, e) \in X
  <2>1. Append(r, e) \in Seq(S) /\ ToSet(Append(r, e)) = ToSet(r) \cup {e}
    BY Members, AppendProperties
  <2>2. Among(Append(r, e), T) = IF e \in T THEN Append(Among(r, T), e) ELSE Among(r, T)
    BY AmongAppend
  <2>. QED  BY <1>2, <2>1, <2>2
<1>. HIDE DEF X
<1>3. Seq(S) \subseteq X
  BY <1>1, <1>2, SeqSets
<1>. QED  BY <1>3 DEF X

-----------------------------------------------------------------------------
(* Selections of a concatenation *)

\* An entry appended to the second part is appended to the whole.
LEMMA AppendToPart ==
  ASSUME NEW S, NEW s \in Seq(S), NEW r \in Seq(S), NEW e \in S
  PROVE  s \o Append(r, e) = Append(s \o r, e)
OBVIOUS

\* What is selected of two parts.
LEMMA AmongConcat ==
  ASSUME NEW S, NEW T, NEW s \in Seq(S), NEW b \in Seq(S)
  PROVE  Among(s \o b, T) = Among(s, T) \o Among(b, T)
<1>. DEFINE X == {r \in Seq(S) : Among(s \o r, T) = Among(s, T) \o Among(r, T)}
<1>0. Among(s, T) \in Seq(S)
  BY AmongMembers
<1>1. <<>> \in X
  <2>1. s \o <<>> = s /\ Among(s, T) \o <<>> = Among(s, T) /\ <<>> \in Seq(S)
    BY <1>0, ConcatEmptySeq, EmptySeq
  <2>. QED  BY <2>1, AmongNone
<1>2. ASSUME NEW r \in Seq(S), NEW e \in S, r \in X
      PROVE  Append(r, e) \in X
  <2>1. /\ s \o r \in Seq(S) /\ Append(r, e) \in Seq(S) /\ Among(r, T) \in Seq(S)
    BY ConcatProperties, AppendProperties, AmongMembers
  <2>2. /\ s \o Append(r, e) = Append(s \o r, e)
        /\ Among(s, T) \o Append(Among(r, T), e) = Append(Among(s, T) \o Among(r, T), e)
    <3>. PICK x \in Seq(S), y \in Seq(S) : x = Among(s, T) /\ y = Among(r, T)
      BY <1>0, <2>1
    <3>1. s \o Append(r, e) = Append(s \o r, e)
      BY AppendToPart
    <3>2. x \o Append(y, e) = Append(x \o y, e)
      BY AppendToPart
    <3>. QED  BY <3>1, <3>2
  <2>3. /\ Among(Append(r, e), T) = IF e \in T THEN Append(Among(r, T), e) ELSE Among(r, T)
        /\ Among(Append(s \o r, e), T) =
             IF e \in T THEN Append(Among(s \o r, T), e) ELSE Among(s \o r, T)
    BY <2>1, AmongAppend
  <2>4. Among(s \o r, T) = Among(s, T) \o Among(r, T)
    BY <1>2
  <2>5. Among(s \o Append(r, e), T) = Among(s, T) \o Among(Append(r, e), T)
    BY <2>2, <2>3, <2>4
  <2>. QED  BY <2>1, <2>5
<1>. HIDE DEF X
<1>3. Seq(S) \subseteq X
  BY <1>1, <1>2, SeqSets
<1>. QED  BY <1>3 DEF X

\* Two parts make a sequence without repetition when they share nothing.
LEMMA ConcatDistinct ==
  ASSUME NEW S, NEW s \in Seq(S), NEW b \in Seq(S)
  PROVE  IsInjective(s \o b) <=> IsInjective(s) /\ IsInjective(b) /\ ToSet(s) \cap ToSet(b) = {}
<1>. DEFINE X == {r \in Seq(S) : IsInjective(s \o r) <=>
                    IsInjective(s) /\ IsInjective(r) /\ ToSet(s) \cap ToSet(r) = {}}
<1>1. <<>> \in X
  <2>1. s \o <<>> = s /\ <<>> \in Seq(S) /\ ToSet(<<>>) = {}
    BY ConcatEmptySeq, EmptySeq, Members
  <2>2. IsInjective(<<>>)
    BY EmptySeq DEF IsInjective
  <2>. QED  BY <2>1, <2>2
<1>2. ASSUME NEW r \in Seq(S), NEW e \in S, r \in X
      PROVE  Append(r, e) \in X
  <2>1. s \o r \in Seq(S) /\ Append(r, e) \in Seq(S)
    BY ConcatProperties, AppendProperties
  <2>2. s \o Append(r, e) = Append(s \o r, e)
    BY <2>1
  <2>3. /\ ToSet(Append(r, e)) = ToSet(r) \cup {e} /\ ToSet(s \o r) = ToSet(s) \cup ToSet(r)
    BY Members
  <2>4. /\ IsInjective(Append(r, e)) <=> IsInjective(r) /\ e \notin ToSet(r)
        /\ IsInjective(Append(s \o r, e)) <=> IsInjective(s \o r) /\ e \notin ToSet(s \o r)
    BY <2>1, AppendDistinct
  <2>5. IsInjective(s \o r) <=> IsInjective(s) /\ IsInjective(r) /\ ToSet(s) \cap ToSet(r) = {}
    BY <1>2
  <2>6. IsInjective(s \o Append(r, e)) <=>
          IsInjective(s) /\ IsInjective(Append(r, e)) /\ ToSet(s) \cap ToSet(Append(r, e)) = {}
    BY <2>2, <2>3, <2>4, <2>5
  <2>. QED  BY <2>1, <2>6
<1>. HIDE DEF X
<1>3. Seq(S) \subseteq X
  BY <1>1, <1>2, SeqSets
<1>. QED  BY <1>3 DEF X

\* c has entries of s, in their order.
Selects(c, s) == c = Among(s, ToSet(c))

\* A selection selects, and holds nothing else.
LEMMA SelectionSelects ==
  ASSUME NEW S, NEW s \in Seq(S)
  PROVE  /\ \A T : Selects(Among(s, T), s)
         /\ Selects(<<>>, s) /\ Selects(s, s)
         /\ \A c : Selects(c, s) => c \in Seq(S) /\ ToSet(c) \subseteq ToSet(s)
<1>1. ASSUME NEW T
      PROVE  Selects(Among(s, T), s)
  <2>1. ToSet(Among(s, T)) = ToSet(s) \cap T
    BY AmongMembers
  <2>. PICK U : U = ToSet(Among(s, T))
    OBVIOUS
  <2>2. Among(s, T) = Among(s, U)
    <3>1. ToSet(s) \cap T = ToSet(s) \cap U
      BY <2>1
    <3>. QED  BY <3>1, AmongFrame
  <2>. QED  BY <2>2 DEF Selects
<1>2. Selects(s, s)
  BY AmongAll DEF Selects
<1>3. Selects(<<>>, s)
  <2>1. ToSet(Among(s, {})) = {} /\ Among(s, {}) \in Seq(S)
    BY AmongMembers
  <2>2. Among(s, {}) = <<>>
    BY <2>1, Members
  <2>. QED  BY <1>1, <2>2
<1>4. ASSUME NEW c, Selects(c, s)
      PROVE  c \in Seq(S) /\ ToSet(c) \subseteq ToSet(s)
  <2>. PICK T : T = ToSet(c)
    OBVIOUS
  <2>1. c = Among(s, T)
    BY <1>4 DEF Selects
  <2>2. Among(s, T) \in Seq(S) /\ ToSet(Among(s, T)) = ToSet(s) \cap T
    BY AmongMembers
  <2>. QED  BY <2>1, <2>2
<1>. QED  BY <1>1, <1>2, <1>3, <1>4

\* Selections of two parts make one of the whole.
LEMMA SelectsConcat ==
  ASSUME NEW S, NEW s \in Seq(S), NEW b \in Seq(S), IsInjective(s \o b),
         NEW c, NEW d, Selects(c, s), Selects(d, b)
  PROVE  Selects(c \o d, s \o b)
<1>1. c \in Seq(S) /\ ToSet(c) \subseteq ToSet(s) /\ d \in Seq(S) /\ ToSet(d) \subseteq ToSet(b)
  BY SelectionSelects
<1>2. ToSet(s) \cap ToSet(b) = {}
  BY ConcatDistinct
<1>. PICK C, D, T : C = ToSet(c) /\ D = ToSet(d) /\ T = C \cup D
  OBVIOUS
<1>3. ToSet(c \o d) = T
  BY <1>1, Members
<1>4. Among(s \o b, T) = Among(s, T) \o Among(b, T)
  BY AmongConcat
<1>5. Among(s, T) = Among(s, C) /\ Among(b, T) = Among(b, D)
  <2>1. ToSet(s) \cap T = ToSet(s) \cap C /\ ToSet(b) \cap T = ToSet(b) \cap D
    BY <1>1, <1>2
  <2>. QED  BY <2>1, AmongFrame
<1>6. Among(s, C) = c /\ Among(b, D) = d
  BY DEF Selects
<1>. QED  BY <1>3, <1>4, <1>5, <1>6 DEF Selects

\* A selection stays one when the sequence grows.
LEMMA SelectsLonger ==
  ASSUME NEW S, NEW s \in Seq(S), NEW b \in Seq(S), IsInjective(s \o b),
         NEW c, Selects(c, s)
  PROVE  Selects(c, s \o b)
<1>1. c \in Seq(S)
  BY SelectionSelects
<1>2. Selects(<<>>, b)
  BY SelectionSelects
<1>3. Selects(c \o <<>>, s \o b)
  BY <1>2, SelectsConcat
<1>. QED  BY <1>1, <1>3, ConcatEmptySeq
===============================================================================
