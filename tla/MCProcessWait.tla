--------------------------- MODULE MCProcessWait ---------------------------
EXTENDS ProcessWait, TLC

CONSTANTS c1, c2, c3

MCChildren == {c1, c2, c3}

\* The children are interchangeable: no action names one of them.
ChildSymmetry == Permutations(MCChildren)
=============================================================================
