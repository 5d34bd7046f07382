-------------------------------- MODULE MCVm --------------------------------
EXTENDS Vm

CONSTANTS p1, p2, g1, g2, g3, g4, f1, f2, v1

\* One process with a file page and two stack pages, or two processes with
\* a file page and a stack page each.
MCProcs1 == {p1}
MCPages3 == {g1, g2, g3}
MCPages4 == {g1, g2, g3, g4}
MCProcs2 == {p1, p2}
MCPages2 == {g1, g2}

=============================================================================
