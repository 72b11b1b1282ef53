----------------------------- MODULE Subsequences -----------------------------
(***************************************************************************)
(* The entries of a sequence that belong to a set, in their order. It is   *)
(* the SelectSeq of the standard module with a set for the test, written   *)
(* out so that it can be reasoned about: SubsequencesProofs has its laws.  *)
(***************************************************************************)
EXTENDS Naturals, Sequences

Among(s, T) ==
  LET among[i \in 0 .. Len(s)] ==
        IF i = 0 THEN <<>>
        ELSE IF s[i] \in T THEN Append(among[i - 1], s[i]) ELSE among[i - 1]
  IN  among[Len(s)]
===============================================================================
