------------------------------- MODULE MCInode ------------------------------
EXTENDS Inode

CONSTANTS n1, n2, v1

\* Two names, one byte value; files are created empty or one byte long and
\* written at offsets that reach the direct, the indirect and the doubly
\* indirect blocks.
MCNames == {n1, n2}
MCBytes == {v1}

=============================================================================
