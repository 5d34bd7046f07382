----------------------------- MODULE MCFdTable -----------------------------
EXTENDS FdTable, TLC

CONSTANTS h1, h2, h3, h4, fa, fb, fz

MCHandles == {h1, h2, h3, h4}
MCFiles == {fa, fb, fz}

\* fz is empty, fa one page long, fb two.
MCFileLen == fa :> 1 @@ fb :> 2 @@ fz :> 0

\* Handles are interchangeable: the allocator may return any free one.
HandleSymmetry == Permutations(MCHandles)
=============================================================================
