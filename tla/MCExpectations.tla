--------------------------- MODULE MCExpectations ---------------------------
\* Two sessions on one endpoint, one with two runs; two requests at a time.
EXTENDS Expectations, TLC
CONSTANTS s1, s2, f1, f2, g1, p1, p2

MCSession == {s1, s2}
MCFlow == {f1, f2, g1}
MCSessionOf == (f1 :> s1) @@ (f2 :> s1) @@ (g1 :> s2)
MCParty == {p1, p2}
MCSymmetry == Permutations(MCParty)
=============================================================================
