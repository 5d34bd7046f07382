--------------------------- MODULE MCBufferCache ---------------------------
EXTENDS BufferCache

CONSTANTS p1, p2, s1, s2, s3, a, b

MCProcs == {p1, p2}
MCSectors == {s1, s2, s3}
MCValues == {a, b}
MCFresh == MCSectors \cup {NoSector}

=============================================================================
