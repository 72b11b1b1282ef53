---------------------------- MODULE MCEffectGate ----------------------------
(* Small instances of EffectGate for TLC. *)
EXTENDS EffectGate, TLC

CONSTANTS p, q, w1, w2

\* Two threads of one workspace and a second workspace for rebinds.
MCOrder == (w1 :> 1) @@ (w2 :> 2)
MCContext(t, w, a) == [thread |-> t, workspace |-> w, authority |-> a, digest |-> 1]
MCContexts == {MCContext(p, w1, 1), MCContext(q, w1, 1)}
MCStrict == {MCContext(p, w1, 1)}
MCOrdinary == {MCContext(q, w1, 1)}
MCMetadata == {MCContext(p, w1, 1)}
MCChildOf == {<<p, q>>}

MCSymmetry == Permutations(ReadReq) \cup Permutations(WriteReq)
=============================================================================
