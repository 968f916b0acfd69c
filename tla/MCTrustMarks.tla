----------------------------- MODULE MCTrustMarks -----------------------------
\* Two threads that issue marks of one kind to two subjects, a verifying entity, and an
\* issuer found below two anchors, one of them or none.
EXTENDS TrustMarks

CONSTANTS w1, w2, v1, sirtfi, unknown, alpha, beta, ta1, ta2

McIds == {sirtfi}
McLifetime == [id \in McIds |-> 1]
McForgeries == {[info |-> [id |-> sirtfi, sub |-> alpha, exp |-> 2], key |-> 0]}
McFoundings == {<<>>, <<ta1>>, <<ta2, ta1>>}
McSymmetry == Permutations({w1, w2}) 
=============================================================================
