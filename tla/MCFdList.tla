------------------------------ MODULE MCFdList ------------------------------
EXTENDS FdList

CONSTANTS h1, h2, h3, h4

MCHandles == {h1, h2, h3, h4}

=============================================================================
